----------------------------- MODULE CacheProofs ----------------------------
(***************************************************************************)
(* The safety of CACHE, for any number of upper levels, sets, ways, MSHRs, *)
(* lines and requests, and for every size of its queues: first what it     *)
(* holds, then what becomes of the lookups, the translations, the requests *)
(* and the writes that it takes.                                           *)
(***************************************************************************)
EXTENDS Cache, SequenceCounts

-----------------------------------------------------------------------------
(* Chosen: the entries at some places of a queue, in the order they had. *)

\* f says from which place each entry chosen comes: the k-th from the place that
\* has k - 1 others before it.
OrderOf(s, I, f) ==
    /\ f \in Bijection(1 .. Cardinality(I), I)
    /\ \A k \in 1 .. Cardinality(I) :
          /\ Chosen(s, I)[k] = s[f[k]]
          /\ Cardinality({j \in I : j <= f[k]}) = k
    /\ \A k, l \in 1 .. Cardinality(I) : k < l => f[k] < f[l]

\* Chosen gives as many entries as there are places, in the order of the places.
LEMMA ChosenOrder ==
  ASSUME NEW T, NEW s \in Seq(T), NEW I \in SUBSET (1 .. Len(s))
  PROVE  /\ IsFiniteSet(I) /\ Cardinality(I) \in Nat
         /\ Chosen(s, I) \in Seq(T)
         /\ Len(Chosen(s, I)) = Cardinality(I)
         /\ \E f : OrderOf(s, I, f)
<1> DEFINE n == Cardinality(I)
           upTo(i) == {j \in I : j <= i}
           rank == [i \in I |-> Cardinality(upTo(i))]
           place(k) == CHOOSE i \in I : rank[i] = k
           f == [k \in 1 .. n |-> place(k)]
<1>1. IsFiniteSet(I) /\ n \in Nat /\ I \subseteq Nat /\ Len(s) \in Nat
  <2>1. Len(s) \in Nat /\ IsFiniteSet(1 .. Len(s))
    BY LenProperties, FirstNumbers
  <2>2. IsFiniteSet(I)
    BY <2>1, FS_Subset
  <2>3. n \in Nat
    BY <2>2, FS_CardinalityType
  <2>4. QED
    BY <2>1, <2>2, <2>3
<1>2. ASSUME NEW i \in I
      PROVE  IsFiniteSet(upTo(i)) /\ rank[i] = Cardinality(upTo(i)) /\ rank[i] \in 1 .. n
  <2>1. upTo(i) \in SUBSET I /\ i \in upTo(i)
    BY <1>1
  <2> HIDE DEF upTo
  <2>2. IsFiniteSet(upTo(i)) /\ Cardinality(upTo(i)) <= n
    BY <1>1, <2>1, FS_Subset
  <2>3. Cardinality(upTo(i)) \in Nat
    BY <2>2, FS_CardinalityType
  <2>4. Cardinality(upTo(i)) # 0
    BY <2>1, <2>2, FS_EmptySet
  <2>5. rank[i] = Cardinality(upTo(i))
    OBVIOUS
  <2> HIDE DEF rank
  <2>6. QED
    BY <2>2, <2>3, <2>4, <2>5, <1>1
<1>3. ASSUME NEW i \in I, NEW j \in I, i < j
      PROVE  rank[i] < rank[j]
  <2>0. i \in Nat /\ j \in Nat /\ \A x \in I : x \in Nat
    BY <1>1
  <2>1. upTo(i) \in SUBSET upTo(j) /\ j \in upTo(j) /\ j \notin upTo(i)
    <3>1. \A x \in upTo(i) : x \in I /\ x <= j
      BY <2>0, <1>3
    <3>2. j \in upTo(j) /\ j \notin upTo(i)
      BY <2>0, <1>3
    <3>3. \A x \in upTo(i) : x \in upTo(j)
      BY <3>1
    <3> HIDE DEF upTo
    <3>4. QED
      BY <3>2, <3>3
  <2> HIDE DEF upTo
  <2>2. IsFiniteSet(upTo(j)) /\ upTo(i) # upTo(j)
    BY <1>2, <2>1
  <2>3. Cardinality(upTo(i)) <= Cardinality(upTo(j)) /\ Cardinality(upTo(j)) # Cardinality(upTo(i))
    BY <2>1, <2>2, FS_Subset
  <2>4. /\ rank[i] = Cardinality(upTo(i)) /\ rank[i] \in Nat
        /\ rank[j] = Cardinality(upTo(j)) /\ rank[j] \in Nat
    BY <1>2, <1>1
  <2> HIDE DEF rank
  <2>5. QED
    BY <2>3, <2>4
<1>4. rank \in Injection(I, 1 .. n)
  <2>0. rank = [i \in I |-> rank[i]]
    OBVIOUS
  <2> HIDE DEF rank
  <2>1. rank \in [I -> 1 .. n]
    BY <2>0, <1>2
  <2>2. ASSUME NEW i \in I, NEW j \in I, rank[i] = rank[j]
        PROVE  i = j
    <3>1. i \in Nat /\ j \in Nat
      BY <1>1
    <3>0. \A m \in 1 .. n : m \in Int
      BY <1>1
    <3>4. rank[i] \in Int /\ rank[j] \in Int
      BY <1>2, <3>0
    <3>2. ~(i < j) /\ ~(j < i)
      BY <1>3, <2>2, <3>4
    <3>3. QED
      BY <3>1, <3>2
  <2>3. IsInjective(rank)
    BY <2>1, <2>2 DEF IsInjective
  <2>4. QED
    BY <2>1, <2>3 DEF Injection
<1>5. \A k \in 1 .. n : \E i \in I : rank[i] = k
  <2> HIDE DEF rank
  <2>1. IsFiniteSet(1 .. n) /\ Cardinality(1 .. n) = n
    BY <1>1, FirstNumbers
  <2>2. rank \in Surjection(I, 1 .. n)
    BY <1>4, <2>1, FS_Injection
  <2>3. QED
    BY <2>2 DEF Surjection
<1>6. ASSUME NEW k \in 1 .. n
      PROVE  f[k] \in I /\ rank[f[k]] = k
  <2>1. f[k] = CHOOSE i \in I : rank[i] = k
    OBVIOUS
  <2> HIDE DEF f, rank, place
  <2>2. QED
    BY <1>5, <2>1
<1>7. f = [k \in 1 .. n |-> f[k]]
  <2> HIDE DEF place, n
  <2>1. QED
    OBVIOUS
<1>8. ASSUME NEW k \in 1 .. n, NEW l \in 1 .. n, k < l
      PROVE  f[k] < f[l]
  <2> HIDE DEF f, rank, n
  <2>1. f[k] \in I /\ f[l] \in I /\ f[k] \in Nat /\ f[l] \in Nat
    BY <1>1, <1>6
  <2>2. k \in Nat /\ l \in Nat
    BY <1>1
  <2>3. ~(f[l] < f[k])
    BY <1>3, <1>6, <1>8, <2>1, <2>2
  <2>4. f[l] # f[k]
    BY <1>6, <1>8, <2>2
  <2>5. QED
    BY <2>1, <2>3, <2>4
<1>9. f \in Bijection(1 .. n, I)
  <2> HIDE DEF f, rank, n
  <2>1. f \in [1 .. n -> I]
    BY <1>6, <1>7
  <2>2. ASSUME NEW k \in 1 .. n, NEW l \in 1 .. n, f[k] = f[l]
        PROVE  k = l
    BY <2>2, <1>6
  <2>3. IsInjective(f)
    BY <2>1, <2>2 DEF IsInjective
  <2>4. ASSUME NEW i \in I
        PROVE  \E k \in 1 .. n : f[k] = i
    <3>1. rank[i] \in 1 .. n
      BY <1>2
    <3>2. f[rank[i]] \in I /\ rank[f[rank[i]]] = rank[i]
      BY <3>1, <1>6
    <3>3. f[rank[i]] = i
      BY <3>2, <1>4 DEF Injection, IsInjective
    <3>4. QED
      BY <3>1, <3>3
  <2>5. QED
    BY <2>1, <2>3, <2>4 DEF Bijection, Injection, Surjection
<1>10. Chosen(s, I) = [k \in 1 .. n |-> s[f[k]]]
  <2>1. ASSUME NEW k
        PROVE  place(k) = CHOOSE i \in I : Cardinality({j \in I : j <= i}) = k
    <3>1. \A i \in I : rank[i] = Cardinality({j \in I : j <= i})
      OBVIOUS
    <3>2. place(k) = CHOOSE i \in I : rank[i] = k
      OBVIOUS
    <3> HIDE DEF place, rank
    <3>3. QED
      BY <3>1, <3>2
  <2>2. Chosen(s, I) = [k \in 1 .. n |->
           s[CHOOSE i \in I : Cardinality({j \in I : j <= i}) = k]]
    BY DEF Chosen
  <2>3. \A k \in 1 .. n : f[k] = place(k)
    OBVIOUS
  <2> HIDE DEF f, place, n
  <2>4. QED
    BY <2>1, <2>2, <2>3
<1>11. Chosen(s, I) \in Seq(T) /\ Len(Chosen(s, I)) = n
  <2> HIDE DEF f, rank, n
  <2>1. \A k \in 1 .. n : s[f[k]] \in T
    BY <1>6, ElementOfSeq
  <2>2. Chosen(s, I) \in [1 .. n -> T]
    BY <1>10, <2>1
  <2>3. QED
    BY <1>1, <2>2, FunctionIsSequence
<1>12. ASSUME NEW k \in 1 .. n
       PROVE  Chosen(s, I)[k] = s[f[k]] /\ Cardinality({j \in I : j <= f[k]}) = k
  <2>1. f[k] \in I /\ rank[f[k]] = k
    BY <1>6
  <2>2. rank[f[k]] = Cardinality(upTo(f[k]))
    BY <2>1, <1>2
  <2> HIDE DEF f, rank, n
  <2>3. QED
    BY <1>10, <2>1, <2>2
<1>13. QED
  <2> HIDE DEF f, rank, place
  <2>1. \A k \in 1 .. n : /\ Chosen(s, I)[k] = s[f[k]]
                         /\ Cardinality({j \in I : j <= f[k]}) = k
    BY <1>12
  <2>2. \A k, l \in 1 .. n : k < l => f[k] < f[l]
    BY <1>8
  <2>3. OrderOf(s, I, f)
    BY <1>9, <2>1, <2>2 DEF OrderOf
  <2>4. QED
    BY <1>1, <1>11, <2>3

\* It has as many entries of a kind as the places have.
LEMMA ChosenCount ==
  ASSUME NEW T, NEW s \in Seq(T), NEW I \in SUBSET (1 .. Len(s)), NEW D
  PROVE  Count(Chosen(s, I), D) = Cardinality({i \in I : s[i] \in D})
<1> DEFINE n == Cardinality(I)
           c == Chosen(s, I)
           mine == {i \in I : s[i] \in D}
<1>1. c \in Seq(T) /\ Len(c) = n /\ n \in Nat
  BY ChosenOrder
<1>2. PICK f : OrderOf(s, I, f)
  BY ChosenOrder
<1>o. f \in Bijection(1 .. n, I) /\ \A k \in 1 .. n : c[k] = s[f[k]]
  BY <1>2 DEF OrderOf
<1>3. DOMAIN c = 1 .. n
  BY <1>1, LenProperties
<1>4. /\ f \in [1 .. n -> I]
      /\ \A k, l \in 1 .. n : f[k] = f[l] => k = l
      /\ \A i \in I : \E k \in 1 .. n : f[k] = i
  BY <1>o DEF Bijection, Injection, Surjection, IsInjective
<1> HIDE DEF c, n
<1> DEFINE g == [k \in Places(c, D) |-> f[k]]
<1>5. g \in [Places(c, D) -> mine]
  BY <1>o, <1>3, <1>4 DEF Places
<1>6. ASSUME NEW k \in Places(c, D), NEW l \in Places(c, D), g[k] = g[l]
      PROVE  k = l
  BY <1>6, <1>3, <1>4 DEF Places
<1>7. ASSUME NEW i \in mine
      PROVE  \E k \in Places(c, D) : g[k] = i
  <2>1. PICK k \in 1 .. n : f[k] = i
    BY <1>4
  <2>2. k \in Places(c, D)
    BY <2>1, <1>o, <1>3 DEF Places
  <2>3. QED
    BY <2>1, <2>2
<1> HIDE DEF g, mine
<1>8. g \in Bijection(Places(c, D), mine)
  <2>1. IsInjective(g)
    BY <1>5, <1>6 DEF IsInjective
  <2>2. QED
    BY <2>1, <1>5, <1>7 DEF Bijection, Injection, Surjection
<1>9. IsFiniteSet(Places(c, D))
  BY <1>1, CountType
<1>10. Cardinality(mine) = Cardinality(Places(c, D))
  BY <1>8, <1>9, FS_Bijection DEF ExistsBijection
<1>11. QED
  BY <1>10 DEF Count, c, mine

\* What is chosen from the end of a queue and what is left there.
LEMMA ChosenParts ==
  ASSUME NEW T, NEW s \in Seq(T), NEW n \in 0 .. Len(s),
         NEW I \in SUBSET (n + 1 .. Len(s)), NEW D
  PROVE  Count(SubSeq(s, 1, n), D) + Count(Chosen(s, I), D)
            + Count(Chosen(s, (n + 1 .. Len(s)) \ I), D) = Count(s, D)
<1> DEFINE J == (n + 1 .. Len(s)) \ I
           mine == {i \in I : s[i] \in D}
           rest == {i \in J : s[i] \in D}
           head == SubSeq(s, 1, n)
<1>1. Len(s) \in Nat /\ n \in Nat /\ DOMAIN s = 1 .. Len(s)
  BY LenProperties
<1>2. I \in SUBSET (1 .. Len(s)) /\ J \in SUBSET (1 .. Len(s))
  BY <1>1
<1>3. /\ head \in Seq(T) /\ Len(head) = n /\ DOMAIN head = 1 .. n
      /\ \A i \in 1 .. n : head[i] = s[i]
  BY CountSplit, LenProperties
<1> HIDE DEF head
<1>4. Places(s, D) = (Places(head, D) \cup mine) \cup rest
  <2>1. Places(s, D) = {i \in 1 .. Len(s) : s[i] \in D}
    BY <1>1 DEF Places
  <2>2. Places(head, D) = {i \in 1 .. n : s[i] \in D}
    BY <1>3 DEF Places
  <2>3. 1 .. Len(s) = ((1 .. n) \cup I) \cup J
    <3>1. 1 .. Len(s) = (1 .. n) \cup (n + 1 .. Len(s))
      BY <1>1
    <3>2. n + 1 .. Len(s) = I \cup J
      OBVIOUS
    <3> HIDE DEF J
    <3>3. QED
      BY <3>1, <3>2
  <2> HIDE DEF J
  <2>4. QED
    BY <2>1, <2>2, <2>3
<1>5. Places(head, D) \cap mine = {} /\ (Places(head, D) \cup mine) \cap rest = {}
  <2>1. Places(head, D) \subseteq 1 .. n
    BY <1>3 DEF Places
  <2>2. (1 .. n) \cap I = {} /\ (1 .. n) \cap J = {} /\ I \cap J = {}
    BY <1>1
  <2> HIDE DEF J
  <2>3. QED
    BY <2>1, <2>2
<1>6. /\ IsFiniteSet(Places(head, D)) /\ IsFiniteSet(mine) /\ IsFiniteSet(rest)
      /\ Cardinality(Places(head, D)) \in Nat /\ Cardinality(mine) \in Nat
      /\ Cardinality(rest) \in Nat
  <2>1. IsFiniteSet(Places(s, D))
    BY CountType
  <2>2. /\ Places(head, D) \in SUBSET Places(s, D) /\ mine \in SUBSET Places(s, D)
        /\ rest \in SUBSET Places(s, D)
    BY <1>4
  <2> HIDE DEF mine, rest
  <2>3. IsFiniteSet(Places(head, D)) /\ IsFiniteSet(mine) /\ IsFiniteSet(rest)
    BY <2>1, <2>2, FS_Subset
  <2>4. QED
    BY <2>3, FS_CardinalityType
<1>7. Count(s, D) = Cardinality(Places(head, D)) + Cardinality(mine) + Cardinality(rest)
  <2> HIDE DEF mine, rest
  <2>1. /\ IsFiniteSet(Places(head, D) \cup mine)
        /\ Cardinality(Places(head, D) \cup mine) =
              Cardinality(Places(head, D)) + Cardinality(mine) - Cardinality({})
    BY <1>5, <1>6, FS_Union
  <2>2. Cardinality((Places(head, D) \cup mine) \cup rest) =
           Cardinality(Places(head, D) \cup mine) + Cardinality(rest) - Cardinality({})
    BY <2>1, <1>5, <1>6, FS_Union
  <2>3. Cardinality({}) = 0
    BY FS_EmptySet
  <2>4. QED
    BY <2>1, <2>2, <2>3, <1>4, <1>6 DEF Count
<1>8. Count(Chosen(s, I), D) = Cardinality(mine)
  BY <1>2, ChosenCount
<1>9. Count(Chosen(s, J), D) = Cardinality(rest)
  <2> HIDE DEF J
  <2>1. QED
    BY <1>2, ChosenCount
<1>10. QED
  BY <1>7, <1>8, <1>9 DEF Count, head

-----------------------------------------------------------------------------
(* Types. *)

LowerRequest == [addr : Line, type : Types \cup {"RFO"}, ids : SUBSET Ids,
                 respond : BOOLEAN]

Phases == {"outside", "returns", "fills", "initiate", "hits", "misses"}

CacheTyped ==
    /\ upper \in [Upper -> ChannelOf(Request, Response)]
    /\ upper_levels \in [1 .. Cardinality(Upper) -> Upper]
    /\ lower \in ChannelOf(LowerRequest, Response)
    /\ block \in [CacheSets -> [Way -> [addr : Line, dirty : BOOLEAN] \cup {NoBlock}]]
    /\ MSHR \in Seq(Fill)
    /\ inflight_fills \in Seq(Fill)
    /\ inflight_tag_check \in Seq(TagLookup)
    /\ translation_stash \in Seq(TagLookup)
    /\ todo \in Seq(TagLookup)
    /\ kept \in Seq(TagLookup)
    /\ internal_PQ \in Seq(TagLookup)
    /\ lower_translate \in ChannelOf(Pages, Pages)
    /\ avail \in BOOLEAN
    /\ phase \in Phases
    /\ budget \in 0 .. MaxFill + MaxTag
    /\ share \in Nat
    /\ source \in Nat
    /\ atLower \in [Line -> Nat]
    /\ atTLB \in [Pages -> Nat]
    /\ asked \in Seq(Upper)
    /\ others \in Nat
    /\ written \in SUBSET Line

\* What CacheAssumption says of the sizes, in the forms the proofs use.
LEMMA Bounds ==
  /\ {NumWay, MshrSize, MaxTag, MaxFill, HitLatency, UpperSize, LowerSize} \subseteq Nat \ {0}
  /\ NumWay \in Nat \ {0} /\ MshrSize \in Nat \ {0} /\ MaxTag \in Nat \ {0}
  /\ MaxFill \in Nat \ {0} /\ HitLatency \in Nat \ {0} /\ UpperSize \in Nat \ {0}
  /\ LowerSize \in Nat \ {0}
  /\ PqSize \in Nat /\ FillLatency \in Nat /\ MaxRequests \in Nat
  /\ MaxTag * HitLatency \in Nat /\ MaxTag * HitLatency >= MaxTag
  /\ Cardinality(Upper) \in Nat \ {0}
<1>1. /\ NumWay \in Nat \ {0} /\ MshrSize \in Nat \ {0} /\ MaxTag \in Nat \ {0}
      /\ MaxFill \in Nat \ {0} /\ HitLatency \in Nat \ {0} /\ UpperSize \in Nat \ {0}
      /\ LowerSize \in Nat \ {0}
      /\ PqSize \in Nat /\ FillLatency \in Nat /\ MaxRequests \in Nat
  BY CacheAssumption
<1>2. \A m, n \in Nat \ {0} : m * n \in Nat /\ m * n >= m
  OBVIOUS
<1>3. Cardinality(Upper) \in Nat \ {0}
  BY CacheAssumption, FS_CardinalityType, FS_EmptySet
<1>4. QED
  BY <1>1, <1>2, <1>3, CacheAssumption

\* The fields of the packets that the stages make of one another.
LEMMA ToFillType ==
  ASSUME NEW pkt \in TagLookup
  PROVE  ToFill(pkt) \in Fill
BY Bounds DEF ToFill, TagLookup, Fill

\* mshr_type::merge keeps the line, and both sides' owners.
LEMMA MergeType ==
  ASSUME NEW f \in Fill, NEW g \in Fill
  PROVE  /\ Merge(f, g) \in Fill
         /\ Merge(f, g).addr = f.addr
         /\ Merge(f, g).type = IF g.type = "PREFETCH" THEN f.type ELSE g.type
         /\ Merge(f, g).ids = f.ids \cup g.ids
         /\ Merge(f, g).to_return = f.to_return \cup g.to_return
BY DEF Merge, Fill

\* A request taken from a channel becomes a lookup.
LEMMA LookupType ==
  ASSUME NEW req \in Request, NEW u \in Upper
  PROVE  Lookup(req, u) \in TagLookup
BY Bounds DEF Lookup, Request, TagLookup

\* Telling the replacement policy of a lookup changes that mark and no other.
LEMMA ToldType ==
  ASSUME NEW pkt \in TagLookup
  PROVE  /\ Told(pkt) \in TagLookup
         /\ Told(pkt) = [pkt EXCEPT !.told = Told(pkt).told]
<1>1. Min({pkt.told + 1, 2}) \in 0 .. 2
  <2>1. pkt.told \in {0, 1, 2}
    BY DEF TagLookup
  <2>2. CASE pkt.told + 1 <= 2
    <3>1. pkt.told + 1 \in {pkt.told + 1, 2} /\ \A y \in {pkt.told + 1, 2} : pkt.told + 1 <= y
      BY <2>1, <2>2
    <3>2. QED
      BY <3>1, <2>1 DEF Min
  <2>3. CASE pkt.told = 2
    <3>1. 2 \in {pkt.told + 1, 2} /\ \A y \in {pkt.told + 1, 2} : 2 <= y
      BY <2>3
    <3>2. QED
      BY <3>1, <2>1 DEF Min
  <2>4. QED
    BY <2>1, <2>2, <2>3
<1>2. QED
  BY <1>1 DEF Told, TagLookup

\* A response goes to every channel that waits for the packet.
LEMMA RespondedType ==
  ASSUME NEW channels \in [Upper -> ChannelOf(Request, Response)], NEW pkt,
         pkt.addr \in Line, pkt.ids \in SUBSET Ids
  PROVE  /\ Responded(channels, pkt) \in [Upper -> ChannelOf(Request, Response)]
         /\ \A u \in Upper, q \in RequestQueues : Responded(channels, pkt)[u][q] = channels[u][q]
         /\ \A u \in Upper : Responded(channels, pkt)[u].returned =
               IF u \in pkt.to_return
                 THEN Append(channels[u].returned, [addr |-> pkt.addr, ids |-> pkt.ids])
                 ELSE channels[u].returned
<1> DEFINE x == [addr |-> pkt.addr, ids |-> pkt.ids]
<1>1. x \in Response
  BY DEF Response
<1> HIDE DEF x
<1>2. \A u \in Upper : Responded(channels, pkt)[u] =
         IF u \in pkt.to_return THEN Push(channels[u], "returned", x) ELSE channels[u]
  BY DEF Responded, x
<1>3. ASSUME NEW u \in Upper
      PROVE  /\ Push(channels[u], "returned", x) \in ChannelOf(Request, Response)
             /\ \A q \in RequestQueues : Push(channels[u], "returned", x)[q] = channels[u][q]
             /\ Push(channels[u], "returned", x).returned = Append(channels[u].returned, x)
  <2>1. channels[u] \in ChannelOf(Request, Response)
    OBVIOUS
  <2>2. QED
    BY <2>1, <1>1, Answered
<1>4. Responded(channels, pkt) = [u \in Upper |-> Responded(channels, pkt)[u]]
  BY DEF Responded
<1>5. \A u \in Upper : Responded(channels, pkt)[u] \in ChannelOf(Request, Response)
  BY <1>2, <1>3
<1>6. QED
  BY <1>2, <1>3, <1>4, <1>5 DEF x

\* It leaves the queues alone.
LEMMA RespondedQueues ==
  ASSUME NEW channels \in [Upper -> ChannelOf(Request, Response)], NEW pkt,
         pkt.addr \in Line, pkt.ids \in SUBSET Ids
  PROVE  \A u \in Upper, q \in RequestQueues : Responded(channels, pkt)[u][q] = channels[u][q]
<1>1. /\ Responded(channels, pkt) \in [Upper -> ChannelOf(Request, Response)]
      /\ \A u \in Upper, q \in RequestQueues : Responded(channels, pkt)[u][q] = channels[u][q]
      /\ \A u \in Upper : Responded(channels, pkt)[u].returned =
            IF u \in pkt.to_return
              THEN Append(channels[u].returned, [addr |-> pkt.addr, ids |-> pkt.ids])
              ELSE channels[u].returned
  BY RespondedType, ZenonT(40)
<1>2. QED
  BY <1>1

-----------------------------------------------------------------------------
(* Min, Max, and the queue operators built from them. *)

\* The least of some naturals.
LEMMA MinOf ==
  ASSUME NEW S \in SUBSET Nat, S # {}
  PROVE  Min(S) \in S /\ \A y \in S : Min(S) <= y
<1>1. \E x \in S : \A y \in S : x =< y
  BY SmallestOf
<1>2. QED
  BY <1>1 DEF Min

\* The lesser of two numbers.
LEMMA MinOfTwo ==
  ASSUME NEW m \in Int, NEW n \in Int
  PROVE  Min({m, n}) = IF m <= n THEN m ELSE n
<1>1. CASE m <= n
  <2>1. Min({m, n}) \in {m, n} /\ \A y \in {m, n} : Min({m, n}) <= y
    <3>1. \E x \in {m, n} : \A y \in {m, n} : x =< y
      BY <1>1
    <3>2. QED
      BY <3>1 DEF Min
  <2>2. QED
    BY <2>1, <1>1
<1>2. CASE ~(m <= n)
  <2>1. Min({m, n}) \in {m, n} /\ \A y \in {m, n} : Min({m, n}) <= y
    <3>1. \E x \in {m, n} : \A y \in {m, n} : x =< y
      BY <1>2
    <3>2. QED
      BY <3>1 DEF Min
  <2>2. QED
    BY <2>1, <1>2
<1>3. QED
  BY <1>1, <1>2

\* The greater of two numbers.
LEMMA MaxOfTwo ==
  ASSUME NEW m \in Int, NEW n \in Int
  PROVE  Max({m, n}) = IF m <= n THEN n ELSE m
<1>1. CASE m <= n
  <2>1. Max({m, n}) \in {m, n} /\ \A y \in {m, n} : Max({m, n}) >= y
    <3>1. \E x \in {m, n} : \A y \in {m, n} : x >= y
      BY <1>1
    <3>2. QED
      BY <3>1 DEF Max
  <2>2. QED
    BY <2>1, <1>1
<1>2. CASE ~(m <= n)
  <2>1. Max({m, n}) \in {m, n} /\ \A y \in {m, n} : Max({m, n}) >= y
    <3>1. \E x \in {m, n} : \A y \in {m, n} : x >= y
      BY <1>2
    <3>2. QED
      BY <3>1 DEF Max
  <2>2. QED
    BY <2>1, <1>2
<1>3. QED
  BY <1>1, <1>2

\* The greatest of some bounded naturals.
LEMMA MaxOf ==
  ASSUME NEW n \in Nat, NEW S \in SUBSET (0 .. n), S # {}
  PROVE  Max(S) \in S /\ \A y \in S : Max(S) >= y
<1> DEFINE Lacks == {n - x : x \in S}
<1>1. Lacks \subseteq Nat /\ Lacks # {}
  <2>1. PICK y : y \in S
    OBVIOUS
  <2>2. n - y \in Lacks
    BY <2>1
  <2>3. QED
    BY <2>2
<1>2. PICK x \in Lacks : \A y \in Lacks : x <= y
  <2> HIDE DEF Lacks
  <2>1. QED
    BY <1>1, SmallestOf
<1>3. PICK m \in S : x = n - m
  BY <1>2
<1>4. \A y \in S : m >= y
  <2> SUFFICES ASSUME NEW y \in S PROVE m >= y
    OBVIOUS
  <2>1. n - m <= n - y
    BY <1>2, <1>3
  <2>2. m \in Int /\ y \in Int
    OBVIOUS
  <2>3. QED
    BY <2>1, <2>2
<1>5. QED
  BY <1>4 DEF Max

\* The longest prefix of the first m places that is good throughout.
LEMMA LongestPrefix ==
  ASSUME NEW m \in Nat, NEW G
  PROVE  LET S == {0} \cup {k \in 1 .. m : \A i \in 1 .. k : i \in G}
         IN  /\ Max(S) \in 0 .. m
             /\ \A i \in 1 .. Max(S) : i \in G
             /\ Max(S) < m => Max(S) + 1 \notin G
<1> DEFINE S == {0} \cup {k \in 1 .. m : \A i \in 1 .. k : i \in G}
           p == Max(S)
<1>1. S \in SUBSET (0 .. m) /\ S # {}
  OBVIOUS
<1>2. p \in S /\ \A y \in S : p >= y
  <2> HIDE DEF S
  <2>1. QED
    BY <1>1, MaxOf
<1> HIDE DEF p
<1>3. p \in 0 .. m /\ \A i \in 1 .. p : i \in G
  BY <1>2
<1>4. ASSUME p < m, p + 1 \in G
      PROVE  FALSE
  <2>1. p + 1 \in 1 .. m
    BY <1>3, <1>4
  <2>2. \A i \in 1 .. p + 1 : i \in G
    BY <1>3, <1>4
  <2>3. p + 1 \in S
    BY <2>1, <2>2
  <2>4. QED
    BY <1>2, <1>3, <2>3
<1>5. QED
  BY <1>3, <1>4 DEF p

\* transform_while_n takes a prefix whose packets all pass.
LEMMA PassingTranslated ==
  ASSUME NEW T, NEW s \in Seq(T), NEW n \in Nat
  PROVE  /\ Passing(s, n, IsTranslated) \in 0 .. Len(s)
         /\ Passing(s, n, IsTranslated) <= n
         /\ \A i \in 1 .. Passing(s, n, IsTranslated) : s[i].translated
         /\ n = Len(s) /\ Passing(s, n, IsTranslated) < n
               => ~s[Passing(s, n, IsTranslated) + 1].translated
<1> DEFINE m == Min({n, Len(s)})
           G == {i \in 1 .. m : s[i].translated}
           S == {0} \cup {k \in 1 .. m : \A i \in 1 .. k : i \in G}
           p == Passing(s, n, IsTranslated)
<1>1. Len(s) \in Nat /\ m = IF n <= Len(s) THEN n ELSE Len(s)
  BY LenProperties, MinOfTwo
<1>2. m \in Nat /\ m <= n /\ m <= Len(s) /\ (n = Len(s) => m = n)
  BY <1>1
<1>3. p = Max(S)
  <2>1. S = {0} \cup {k \in 1 .. m : \A i \in 1 .. k : s[i].translated}
    <3>1. ASSUME NEW k \in 1 .. m, NEW i \in 1 .. k
          PROVE  i \in G <=> (s[i].translated)
      <4>1. i \in 1 .. m
        BY <1>2
      <4>2. QED
        BY <4>1
    <3> HIDE DEF G
    <3>2. QED
      BY <3>1
  <2>2. QED
    BY <2>1 DEF Passing, IsTranslated
<1>4. /\ p \in 0 .. m
      /\ \A i \in 1 .. p : i \in G
      /\ p < m => p + 1 \notin G
  <2> HIDE DEF G, m, p
  <2>1. QED
    BY <1>2, <1>3, LongestPrefix
<1> HIDE DEF m, p
<1>5. p < m => p + 1 \in 1 .. m
  BY <1>2, <1>4
<1>6. QED
  BY <1>2, <1>4, <1>5 DEF p

\* The requests that can_translate lets in lead their queue, and with no room in
\* the stash they are translated.
LEMMA PassingCanTranslate ==
  ASSUME NEW T, NEW s \in Seq(T), NEW n \in Nat
  PROVE  /\ Passing(s, n, CanTranslate) \in 0 .. Len(s)
         /\ Passing(s, n, CanTranslate) <= n
         /\ \A i \in 1 .. Passing(s, n, CanTranslate) : avail \/ s[i].translated
<1> DEFINE m == Min({n, Len(s)})
           G == {i \in 1 .. m : avail \/ s[i].translated}
           S == {0} \cup {k \in 1 .. m : \A i \in 1 .. k : i \in G}
           p == Passing(s, n, CanTranslate)
<1>1. Len(s) \in Nat /\ m = IF n <= Len(s) THEN n ELSE Len(s)
  BY LenProperties, MinOfTwo
<1>2. m \in Nat /\ m <= n /\ m <= Len(s)
  BY <1>1
<1>3. p = Max(S)
  <2>1. S = {0} \cup {k \in 1 .. m : \A i \in 1 .. k : avail \/ s[i].translated}
    <3>1. ASSUME NEW k \in 1 .. m, NEW i \in 1 .. k
          PROVE  i \in G <=> (avail \/ s[i].translated)
      <4>1. i \in 1 .. m
        BY <1>2
      <4>2. QED
        BY <4>1
    <3> HIDE DEF G
    <3>2. QED
      BY <3>1
  <2>2. QED
    BY <2>1 DEF Passing, CanTranslate
<1>4. p \in 0 .. m /\ \A i \in 1 .. p : i \in G
  <2> HIDE DEF G, m, p
  <2>1. QED
    BY <1>2, <1>3, LongestPrefix
<1> HIDE DEF m, p
<1>5. QED
  BY <1>2, <1>4 DEF p

\* The lookups that are checked lead their queue, and are translated.
LEMMA PassingReady ==
  ASSUME NEW T, NEW s \in Seq(T), NEW n \in Nat
  PROVE  /\ Passing(s, n, ReadyToCheck) \in 0 .. Len(s)
         /\ \A i \in 1 .. Passing(s, n, ReadyToCheck) : s[i].translated
<1> DEFINE m == Min({n, Len(s)})
           G == {i \in 1 .. m : s[i].wait = 0 /\ s[i].translated}
           S == {0} \cup {k \in 1 .. m : \A i \in 1 .. k : i \in G}
           p == Passing(s, n, ReadyToCheck)
<1>1. Len(s) \in Nat /\ m = IF n <= Len(s) THEN n ELSE Len(s)
  BY LenProperties, MinOfTwo
<1>2. m \in Nat /\ m <= n /\ m <= Len(s)
  BY <1>1
<1>3. p = Max(S)
  <2>1. S = {0} \cup {k \in 1 .. m : \A i \in 1 .. k : s[i].wait = 0 /\ s[i].translated}
    <3>1. ASSUME NEW k \in 1 .. m, NEW i \in 1 .. k
          PROVE  i \in G <=> (s[i].wait = 0 /\ s[i].translated)
      <4>1. i \in 1 .. m
        BY <1>2
      <4>2. QED
        BY <4>1
    <3> HIDE DEF G
    <3>2. QED
      BY <3>1
  <2>2. QED
    BY <2>1 DEF Passing, ReadyToCheck
<1>4. p \in 0 .. m /\ \A i \in 1 .. p : i \in G
  <2> HIDE DEF G, m, p
  <2>1. QED
    BY <1>2, <1>3, LongestPrefix
<1> HIDE DEF m, p
<1>5. QED
  BY <1>2, <1>4 DEF p

\* find_if on the address.
LEMMA IndexFound ==
  ASSUME NEW T, NEW s \in Seq(T), NEW a
  PROVE  /\ IndexOf(s, a) \in 0 .. Len(s)
         /\ IndexOf(s, a) # 0 => s[IndexOf(s, a)].addr = a
         /\ IndexOf(s, a) = 0 => \A i \in 1 .. Len(s) : s[i].addr # a
<1> DEFINE I == {i \in 1 .. Len(s) : s[i].addr = a}
<1>1. IndexOf(s, a) = IF I # {} THEN Min(I) ELSE 0
  BY DEF IndexOf, SelectInSeq
<1>2. Len(s) \in Nat
  BY LenProperties
<1>3. CASE I # {}
  <2>1. I \in SUBSET Nat
    BY <1>2
  <2>2. Min(I) \in I
    <3> HIDE DEF I
    <3>1. QED
      BY <1>3, <2>1, MinOf
  <2>3. QED
    BY <1>1, <1>2, <1>3, <2>2
<1>4. CASE I = {}
  BY <1>1, <1>2, <1>4
<1>5. QED
  BY <1>3, <1>4

-----------------------------------------------------------------------------
(* Lookups and fills that only change their bookkeeping. *)

\* Two lookups of the same request, whatever their progress.
Alike(x, y) == /\ x.addr = y.addr /\ x.type = y.type /\ x.ids = y.ids
               /\ x.to_return = y.to_return /\ x.skip = y.skip

\* The set does not look at the progress of a lookup, or only at its translation.
Blind(D) == \A x, y \in TagLookup : Alike(x, y) => (x \in D <=> y \in D)

IssueBlind(D) ==
    \A x, y \in TagLookup :
        Alike(x, y) /\ x.translated = y.translated => (x \in D <=> y \in D)

\* What the set does not look at does not change how many entries are in it.
LEMMA BlindAlike ==
  ASSUME NEW D, Blind(D), NEW s \in Seq(TagLookup), NEW t \in Seq(TagLookup),
         Len(s) = Len(t), \A i \in 1 .. Len(s) : Alike(s[i], t[i])
  PROVE  Count(s, D) = Count(t, D)
<1>1. \A i \in 1 .. Len(s) : s[i] \in TagLookup /\ t[i] \in TagLookup
  BY ElementOfSeq
<1>2. \A i \in 1 .. Len(s) : s[i] \in D <=> t[i] \in D
  BY <1>1 DEF Blind
<1>3. QED
  BY <1>2, CountAlike

\* One cycle passes.
LEMMA AgedLookups ==
  ASSUME NEW s \in Seq(TagLookup)
  PROVE  LET t == [i \in DOMAIN s |-> [s[i] EXCEPT !.wait = Soon(@)]]
         IN  /\ t \in Seq(TagLookup) /\ Len(t) = Len(s)
             /\ \A i \in 1 .. Len(s) :
                   /\ Alike(t[i], s[i]) /\ t[i].translated = s[i].translated
                   /\ t[i].issued = s[i].issued
<1> DEFINE t == [i \in DOMAIN s |-> [s[i] EXCEPT !.wait = Soon(@)]]
<1>1. Len(s) \in Nat /\ DOMAIN s = 1 .. Len(s) /\ \A i \in 1 .. Len(s) : s[i] \in TagLookup
  BY LenProperties, ElementOfSeq
<1>2. \A x \in TagLookup : Soon(x.wait) \in 0 .. HitLatency
  BY Bounds DEF TagLookup, Soon
<1>3. \A x \in TagLookup : [x EXCEPT !.wait = Soon(x.wait)] \in TagLookup
  BY <1>2 DEF TagLookup
<1>4. \A i \in 1 .. Len(s) : t[i] = [s[i] EXCEPT !.wait = Soon(s[i].wait)]
  BY <1>1
<1>5. t \in [1 .. Len(s) -> TagLookup]
  BY <1>1, <1>3
<1>6. t \in Seq(TagLookup) /\ Len(t) = Len(s)
  <2> HIDE DEF t
  <2>1. QED
    BY <1>1, <1>5, FunctionIsSequence
<1>7. \A i \in 1 .. Len(s) :
         /\ Alike(t[i], s[i]) /\ t[i].translated = s[i].translated
         /\ t[i].issued = s[i].issued
  <2> HIDE DEF t
  <2>1. QED
    BY <1>1, <1>4 DEF Alike, TagLookup
<1>8. QED
  BY <1>6, <1>7

\* As fills age, only their time changes.
LEMMA AgedFills ==
  ASSUME NEW s \in Seq(Fill)
  PROVE  LET t == [i \in DOMAIN s |-> [s[i] EXCEPT !.wait = Soon(@)]]
         IN  /\ t \in Seq(Fill) /\ Len(t) = Len(s)
             /\ \A i \in 1 .. Len(s) :
                   /\ t[i].addr = s[i].addr /\ t[i].type = s[i].type
                   /\ t[i].ids = s[i].ids /\ t[i].to_return = s[i].to_return
<1> DEFINE t == [i \in DOMAIN s |-> [s[i] EXCEPT !.wait = Soon(@)]]
<1>1. Len(s) \in Nat /\ DOMAIN s = 1 .. Len(s) /\ \A i \in 1 .. Len(s) : s[i] \in Fill
  BY LenProperties, ElementOfSeq
<1>2. \A x \in Fill : Soon(x.wait) \in 0 .. FillLatency
  BY Bounds DEF Fill, Soon
<1>3. \A x \in Fill : [x EXCEPT !.wait = Soon(x.wait)] \in Fill
  BY <1>2 DEF Fill
<1>4. \A i \in 1 .. Len(s) : t[i] = [s[i] EXCEPT !.wait = Soon(s[i].wait)]
  BY <1>1
<1>5. t \in [1 .. Len(s) -> Fill]
  BY <1>1, <1>3
<1>6. t \in Seq(Fill) /\ Len(t) = Len(s)
  <2> HIDE DEF t
  <2>1. QED
    BY <1>1, <1>5, FunctionIsSequence
<1>7. \A i \in 1 .. Len(s) :
         /\ t[i].addr = s[i].addr /\ t[i].type = s[i].type
         /\ t[i].ids = s[i].ids /\ t[i].to_return = s[i].to_return
  <2> HIDE DEF t
  <2>1. QED
    BY <1>1, <1>4 DEF Fill
<1>8. QED
  BY <1>6, <1>7

\* Lookups that start over.
LEMMA RestartType ==
  ASSUME NEW s \in Seq(TagLookup)
  PROVE  /\ Restart(s) \in Seq(TagLookup) /\ Len(Restart(s)) = Len(s)
         /\ \A i \in 1 .. Len(s) :
               /\ Alike(Restart(s)[i], s[i])
               /\ Restart(s)[i].translated = s[i].translated
               /\ Restart(s)[i].issued = s[i].issued
<1>1. Len(s) \in Nat /\ DOMAIN s = 1 .. Len(s) /\ \A i \in 1 .. Len(s) : s[i] \in TagLookup
  BY LenProperties, ElementOfSeq
<1>2. \A x \in TagLookup : [x EXCEPT !.wait = HitLatency] \in TagLookup
  <2>1. HitLatency \in 0 .. HitLatency
    BY Bounds
  <2>2. QED
    BY <2>1 DEF TagLookup
<1>3. \A i \in 1 .. Len(s) : Restart(s)[i] = [s[i] EXCEPT !.wait = HitLatency]
  BY <1>1 DEF Restart
<1>4. Restart(s) \in [1 .. Len(s) -> TagLookup]
  BY <1>1, <1>2 DEF Restart
<1>5. Restart(s) \in Seq(TagLookup) /\ Len(Restart(s)) = Len(s)
  BY <1>1, <1>4, FunctionIsSequence
<1>6. QED
  BY <1>1, <1>3, <1>5 DEF Alike, TagLookup

\* The lookups of a page learn its translation.
LEMMA TranslatedType ==
  ASSUME NEW s \in Seq(TagLookup), NEW page
  PROVE  /\ TranslatedAll(s, page) \in Seq(TagLookup)
         /\ Len(TranslatedAll(s, page)) = Len(s)
         /\ \A i \in 1 .. Len(s) :
               /\ Alike(TranslatedAll(s, page)[i], s[i])
               /\ TranslatedAll(s, page)[i].issued = s[i].issued
               /\ TranslatedAll(s, page)[i].translated =
                     (s[i].translated \/ PageOf[s[i].addr] = page)
<1>1. Len(s) \in Nat /\ DOMAIN s = 1 .. Len(s) /\ \A i \in 1 .. Len(s) : s[i] \in TagLookup
  BY LenProperties, ElementOfSeq
<1>2. ASSUME NEW x \in TagLookup
      PROVE  /\ Translated(x, page) \in TagLookup /\ Alike(Translated(x, page), x)
             /\ Translated(x, page).issued = x.issued
             /\ Translated(x, page).translated = (x.translated \/ PageOf[x.addr] = page)
  <2>1. CASE PageOf[x.addr] = page
    <3>1. Translated(x, page) = [x EXCEPT !.translated = TRUE]
      BY <2>1 DEF Translated
    <3>2. QED
      BY <2>1, <3>1 DEF TagLookup, Alike
  <2>2. CASE PageOf[x.addr] # page
    <3>1. Translated(x, page) = x
      BY <2>2 DEF Translated
    <3>2. x.translated \in BOOLEAN
      BY DEF TagLookup
    <3>3. QED
      BY <2>2, <3>1, <3>2 DEF Alike
  <2>3. QED
    BY <2>1, <2>2
<1>3. \A i \in 1 .. Len(s) : TranslatedAll(s, page)[i] = Translated(s[i], page)
  BY <1>1 DEF TranslatedAll
<1>4. TranslatedAll(s, page) \in [1 .. Len(s) -> TagLookup]
  BY <1>1, <1>2 DEF TranslatedAll
<1>5. TranslatedAll(s, page) \in Seq(TagLookup) /\ Len(TranslatedAll(s, page)) = Len(s)
  BY <1>1, <1>4, FunctionIsSequence
<1>6. QED
  BY <1>1, <1>2, <1>3, <1>5

\* Translations are asked for.
LEMMA IssuedType ==
  ASSUME NEW s \in Seq(TagLookup)
  PROVE  /\ IssuedOf(s) \in Seq(TagLookup) /\ Len(IssuedOf(s)) = Len(s)
         /\ \A i \in 1 .. Len(s) :
               /\ Alike(IssuedOf(s)[i], s[i])
               /\ IssuedOf(s)[i].translated = s[i].translated
               /\ IssuedOf(s)[i].issued = (s[i].issued \/ i \in ToIssue(s))
               /\ IssuedOf(s)[i].wait = s[i].wait
<1>1. Len(s) \in Nat /\ DOMAIN s = 1 .. Len(s) /\ \A i \in 1 .. Len(s) : s[i] \in TagLookup
  BY LenProperties, ElementOfSeq
<1>2. \A i \in 1 .. Len(s) :
         IssuedOf(s)[i] = [s[i] EXCEPT !.issued = s[i].issued \/ i \in ToIssue(s)]
  BY <1>1 DEF IssuedOf
<1>3. \A x \in TagLookup, b \in BOOLEAN : [x EXCEPT !.issued = b] \in TagLookup
  BY DEF TagLookup
<1>4. \A i \in 1 .. Len(s) :
         /\ (s[i].issued \/ i \in ToIssue(s)) \in BOOLEAN
         /\ [s[i] EXCEPT !.issued = s[i].issued \/ i \in ToIssue(s)] \in TagLookup
  BY <1>1, <1>3
<1>5. IssuedOf(s) \in [1 .. Len(s) -> TagLookup]
  BY <1>1, <1>4 DEF IssuedOf
<1>6. IssuedOf(s) \in Seq(TagLookup) /\ Len(IssuedOf(s)) = Len(s)
  BY <1>1, <1>5, FunctionIsSequence
<1>7. \A i \in 1 .. Len(s) :
         /\ Alike(IssuedOf(s)[i], s[i])
         /\ IssuedOf(s)[i].translated = s[i].translated
         /\ IssuedOf(s)[i].issued = (s[i].issued \/ i \in ToIssue(s))
         /\ IssuedOf(s)[i].wait = s[i].wait
  <2> SUFFICES ASSUME NEW i \in 1 .. Len(s)
               PROVE  /\ Alike(IssuedOf(s)[i], s[i])
                      /\ IssuedOf(s)[i].translated = s[i].translated
                      /\ IssuedOf(s)[i].issued = (s[i].issued \/ i \in ToIssue(s))
                      /\ IssuedOf(s)[i].wait = s[i].wait
    OBVIOUS
  <2>1. PICK x : x = s[i]
    OBVIOUS
  <2>2. PICK b : b = (s[i].issued \/ i \in ToIssue(s))
    OBVIOUS
  <2>3. x \in TagLookup /\ IssuedOf(s)[i] = [x EXCEPT !.issued = b]
    BY <1>1, <1>2, <2>1, <2>2
  <2>4. /\ Alike([x EXCEPT !.issued = b], x)
        /\ [x EXCEPT !.issued = b].translated = x.translated
        /\ [x EXCEPT !.issued = b].issued = b
        /\ [x EXCEPT !.issued = b].wait = x.wait
    BY <2>3 DEF Alike, TagLookup
  <2>5. QED
    BY <2>1, <2>2, <2>3, <2>4
<1>8. QED
  BY <1>6, <1>7

\* finish_translation reorders the stash: the lookups translated before, then
\* those of the page, then the others, and loses none.
PartsOf(s, page, n, A, B, C) ==
    /\ n \in 0 .. Len(s)
    /\ A \in Seq(TagLookup) /\ B \in Seq(TagLookup) /\ C \in Seq(TagLookup)
    /\ Restarted(s, page) = (A \o B) \o C
    /\ Len(A) + Len(B) + Len(C) = Len(s)
    /\ \A D : Blind(D) => Count(A, D) + Count(B, D) + Count(C, D) = Count(s, D)
    /\ \A i \in 1 .. Len(A) : A[i].translated
    /\ \A i \in 1 .. Len(B) : B[i].translated
    /\ n < Len(s) => ~s[n + 1].translated
    /\ \A i \in 1 .. Len(C) : \E j \in n + 1 .. Len(s) :
          C[i] = s[j] /\ (s[j].translated \/ PageOf[s[j].addr] # page)

\* Those three parts are what the stash becomes.
LEMMA RestartedParts ==
  ASSUME NEW s \in Seq(TagLookup), NEW page
  PROVE  \E n, A, B, C : PartsOf(s, page, n, A, B, C)
<1> DEFINE n == Passing(s, Len(s), IsTranslated)
           late == n + 1 .. Len(s)
           mine == {i \in late : ~s[i].translated /\ PageOf[s[i].addr] = page}
           A == SubSeq(s, 1, n)
           B == TranslatedAll(Chosen(s, mine), page)
           C == Chosen(s, late \ mine)
<1>1. Len(s) \in Nat
  BY LenProperties
<1>2. /\ n \in 0 .. Len(s)
      /\ \A i \in 1 .. n : s[i].translated
      /\ n < Len(s) => ~s[n + 1].translated
  BY <1>1, PassingTranslated
<1>3. Restarted(s, page) = (A \o B) \o C
  BY DEF Restarted
<1> HIDE DEF n
<1>4. /\ A \in Seq(TagLookup) /\ Len(A) = n
      /\ \A i \in 1 .. n : A[i] = s[i]
  BY <1>2, CountSplit
<1>5. mine \in SUBSET late /\ mine \in SUBSET (1 .. Len(s)) /\ late \ mine \in SUBSET (1 .. Len(s))
  BY <1>1, <1>2
<1>6. /\ Chosen(s, mine) \in Seq(TagLookup) /\ C \in Seq(TagLookup)
      /\ Len(Chosen(s, mine)) = Cardinality(mine) /\ Len(C) = Cardinality(late \ mine)
  <2> HIDE DEF mine, late
  <2>1. QED
    BY <1>5, ChosenOrder
<1>7. /\ B \in Seq(TagLookup) /\ Len(B) = Len(Chosen(s, mine))
      /\ \A i \in 1 .. Len(B) :
            /\ Alike(B[i], Chosen(s, mine)[i])
            /\ B[i].translated =
                  (Chosen(s, mine)[i].translated \/ PageOf[Chosen(s, mine)[i].addr] = page)
  <2> HIDE DEF mine
  <2>1. QED
    BY SMTT(30), <1>6, TranslatedType
<1>8. ASSUME NEW D
      PROVE  Count(A, D) + Count(Chosen(s, mine), D) + Count(C, D) = Count(s, D)
  <2> HIDE DEF mine
  <2>1. QED
    BY <1>2, <1>5, ChosenParts
<1>9. ASSUME NEW D, Blind(D)
      PROVE  Count(A, D) + Count(B, D) + Count(C, D) = Count(s, D)
  <2>1. Count(B, D) = Count(Chosen(s, mine), D)
    <3> HIDE DEF mine, B
    <3>1. QED
      BY <1>6, <1>7, <1>9, BlindAlike
  <2> HIDE DEF A, B, C, mine
  <2>2. QED
    BY <2>1, <1>8
<1>10. Len(A) + Len(B) + Len(C) = Len(s)
  <2>1. Count(A, TagLookup) = Len(A) /\ Count(C, TagLookup) = Len(C)
        /\ Count(Chosen(s, mine), TagLookup) = Len(Chosen(s, mine))
        /\ Count(s, TagLookup) = Len(s)
    <3> HIDE DEF A, C, mine
    <3>1. QED
      BY <1>4, <1>6, CountAll, ElementOfSeq
  <2> HIDE DEF A, B, C, mine
  <2>2. QED
    BY <2>1, <1>7, <1>8
<1>11. ASSUME NEW i \in 1 .. Len(B)
       PROVE  B[i].translated
  <2>1. PICK f : OrderOf(s, mine, f)
    <3> HIDE DEF mine
    <3>1. QED
      BY <1>5, ChosenOrder
  <2>2. i \in 1 .. Cardinality(mine)
    BY <1>6, <1>7
  <2>3. Chosen(s, mine)[i] = s[f[i]] /\ f[i] \in mine
    <3> HIDE DEF mine
    <3>1. QED
      BY <2>1, <2>2 DEF OrderOf, Bijection, Injection, Surjection
  <2>4. PageOf[Chosen(s, mine)[i].addr] = page
    BY <2>3
  <2> HIDE DEF B, mine
  <2>5. QED
    BY <1>7, <2>4
<1>12. ASSUME NEW i \in 1 .. Len(C)
       PROVE  \E j \in n + 1 .. Len(s) :
                 C[i] = s[j] /\ (s[j].translated \/ PageOf[s[j].addr] # page)
  <2> DEFINE rest == late \ mine
  <2>1. PICK f : OrderOf(s, rest, f)
    <3> HIDE DEF rest
    <3>1. rest \in SUBSET (1 .. Len(s))
      BY <1>5 DEF rest
    <3>2. QED
      BY <3>1, ChosenOrder
  <2>2. i \in 1 .. Cardinality(rest)
    BY <1>6
  <2>3. C[i] = s[f[i]] /\ f[i] \in rest
    <3>1. C = Chosen(s, rest)
      OBVIOUS
    <3> HIDE DEF rest, C
    <3>2. QED
      BY <3>1, <2>1, <2>2 DEF OrderOf, Bijection, Injection, Surjection
  <2>4. f[i] \in late /\ (s[f[i]].translated \/ PageOf[s[f[i]].addr] # page)
    BY <2>3
  <2> HIDE DEF C, rest, mine
  <2>5. QED
    BY <2>3, <2>4
<1>13. \A i \in 1 .. Len(A) : A[i].translated
  <2> HIDE DEF A
  <2>1. QED
    BY <1>2, <1>4
<1>14. QED
  <2> HIDE DEF A, B, C
  <2>1. \A D : Blind(D) => Count(A, D) + Count(B, D) + Count(C, D) = Count(s, D)
    BY <1>9
  <2>2. \A i \in 1 .. Len(B) : B[i].translated
    BY <1>11
  <2>3. \A i \in 1 .. Len(C) : \E j \in n + 1 .. Len(s) :
           C[i] = s[j] /\ (s[j].translated \/ PageOf[s[j].addr] # page)
    BY <1>12
  <2>4. PartsOf(s, page, n, A, B, C)
    BY <1>2, <1>3, <1>4, <1>6, <1>7, <1>10, <1>13, <2>1, <2>2, <2>3 DEF PartsOf
  <2>5. QED
    BY <2>4

\* The stash holds the same lookups after a translation as before, but for their
\* progress.
LEMMA RestartedType ==
  ASSUME NEW s \in Seq(TagLookup), NEW page
  PROVE  /\ Restarted(s, page) \in Seq(TagLookup)
         /\ Len(Restarted(s, page)) = Len(s)
         /\ \A D : Blind(D) => Count(Restarted(s, page), D) = Count(s, D)
<1>1. PICK n, A, B, C : PartsOf(s, page, n, A, B, C)
  BY RestartedParts
<1>2. /\ A \in Seq(TagLookup) /\ B \in Seq(TagLookup) /\ C \in Seq(TagLookup)
      /\ Restarted(s, page) = (A \o B) \o C
      /\ Len(A) + Len(B) + Len(C) = Len(s)
      /\ \A D : Blind(D) => Count(A, D) + Count(B, D) + Count(C, D) = Count(s, D)
  BY <1>1 DEF PartsOf
<1> DEFINE AB == A \o B
<1>3. AB \in Seq(TagLookup) /\ Len(AB) = Len(A) + Len(B)
  BY <1>2, ConcatProperties
<1>4. \A D : Count(AB, D) = Count(A, D) + Count(B, D)
  BY <1>2, CountJoined
<1> HIDE DEF AB
<1>5. AB \o C \in Seq(TagLookup) /\ Len(AB \o C) = Len(AB) + Len(C)
  BY <1>2, <1>3, ConcatProperties
<1>6. \A D : Count(AB \o C, D) = Count(AB, D) + Count(C, D)
  BY <1>2, <1>3, CountJoined
<1>7. Restarted(s, page) = AB \o C
  BY <1>2 DEF AB
<1>8. /\ Restarted(s, page) \in Seq(TagLookup)
      /\ Len(Restarted(s, page)) = Len(s)
  BY <1>2, <1>3, <1>5, <1>7, LenProperties
<1>9. ASSUME NEW D, Blind(D)
      PROVE  Count(Restarted(s, page), D) = Count(s, D)
  BY <1>2, <1>4, <1>6, <1>7, <1>9
<1>10. QED
  BY <1>8, <1>9

\* Each entry chosen comes from one of the places, and each place is chosen.
LEMMA ChosenFrom ==
  ASSUME NEW T, NEW s \in Seq(T), NEW I \in SUBSET (1 .. Len(s))
  PROVE  /\ \A k \in 1 .. Len(Chosen(s, I)) : \E i \in I : Chosen(s, I)[k] = s[i]
         /\ \A i \in I : \E k \in 1 .. Len(Chosen(s, I)) : Chosen(s, I)[k] = s[i]
<1>1. PICK f : OrderOf(s, I, f)
  BY ChosenOrder
<1>2. Len(Chosen(s, I)) = Cardinality(I)
  BY ChosenOrder
<1>3. /\ \A k \in 1 .. Cardinality(I) : f[k] \in I /\ Chosen(s, I)[k] = s[f[k]]
      /\ \A i \in I : \E k \in 1 .. Cardinality(I) : f[k] = i
  BY <1>1 DEF OrderOf, Bijection, Injection, Surjection
<1> DEFINE c == Chosen(s, I)
<1>4. Len(c) = Cardinality(I)
  BY <1>2
<1>5. ASSUME NEW k \in 1 .. Len(c)
      PROVE  \E i \in I : c[k] = s[i]
  <2>1. f[k] \in I /\ c[k] = s[f[k]]
    BY <1>3, <1>4
  <2> HIDE DEF c
  <2>2. QED
    BY <2>1
<1>6. ASSUME NEW i \in I
      PROVE  \E k \in 1 .. Len(c) : c[k] = s[i]
  <2>1. PICK k \in 1 .. Cardinality(I) : f[k] = i
    BY <1>3
  <2>2. c[k] = s[i]
    BY <2>1, <1>3
  <2> HIDE DEF c
  <2>3. QED
    BY <2>2, <1>4
<1>7. QED
  <2> HIDE DEF c
  <2>1. /\ \A k \in 1 .. Len(c) : \E i \in I : c[k] = s[i]
        /\ \A i \in I : \E k \in 1 .. Len(c) : c[k] = s[i]
    BY <1>5, <1>6
  <2>2. QED
    BY <2>1 DEF c

\* issue_translation asks only while the TLB accepts, and asks for the page of
\* every lookup it marks.
LEMMA IssueRoom ==
  ASSUME NEW s \in Seq(TagLookup), lower_translate \in ChannelOf(Pages, Pages)
  PROVE  /\ ToIssue(s) \in SUBSET (1 .. Len(s))
         /\ PagesOf(s) \in Seq(Pages)
         /\ Len(lower_translate.RQ) <= LowerSize
               => Len(lower_translate.RQ) + Len(PagesOf(s)) <= LowerSize
         /\ \A i \in ToIssue(s) : \E k \in 1 .. Len(PagesOf(s)) :
               PagesOf(s)[k] = PageOf[s[i].addr]
<1> DEFINE I == ToIssue(s)
           U == Untranslated(s)
           K == LowerSize - Len(lower_translate.RQ)
           c == Chosen(s, I)
<1>1. /\ DOMAIN s = 1 .. Len(s) /\ Len(s) \in Nat
      /\ lower_translate.RQ \in Seq(Pages) /\ Len(lower_translate.RQ) \in Nat
      /\ K \in Int
  <2>1. lower_translate.RQ \in Seq(Pages)
    BY DEF ChannelOf
  <2>2. QED
    BY <2>1, LenProperties, Bounds
<1>2. /\ U \in SUBSET (1 .. Len(s)) /\ I \in SUBSET U
      /\ \A i \in I : Cardinality({j \in U : j < i}) < K
  BY <1>1 DEF ToIssue, Untranslated
<1>3. I \in SUBSET (1 .. Len(s))
  BY <1>2
<1> HIDE DEF I, U
<1>4. PICK f : OrderOf(s, I, f)
  BY <1>3, ChosenOrder
<1>5. /\ c \in Seq(TagLookup) /\ Len(c) = Cardinality(I) /\ Cardinality(I) \in Nat
      /\ DOMAIN c = 1 .. Cardinality(I)
  BY <1>3, ChosenOrder, LenProperties
<1>6. /\ \A k \in 1 .. Cardinality(I) :
             f[k] \in I /\ c[k] = s[f[k]] /\ Cardinality({j \in I : j <= f[k]}) = k
      /\ \A i \in I : \E k \in 1 .. Cardinality(I) : f[k] = i
  BY <1>4 DEF OrderOf, Bijection, Injection, Surjection
<1>7. /\ PagesOf(s) \in Seq(Pages) /\ Len(PagesOf(s)) = Cardinality(I)
      /\ \A k \in 1 .. Cardinality(I) : PagesOf(s)[k] = PageOf[c[k].addr]
  <2>1. PagesOf(s) = [k \in 1 .. Cardinality(I) |-> PageOf[c[k].addr]]
    BY <1>5 DEF PagesOf, I
  <2>2. ASSUME NEW k \in 1 .. Cardinality(I)
        PROVE  PageOf[c[k].addr] \in Pages
    <3>1. c[k] \in TagLookup
      BY <1>5, ElementOfSeq
    <3>2. c[k].addr \in Line
      BY <3>1 DEF TagLookup
    <3>3. QED
      BY <3>2 DEF Pages
  <2> HIDE DEF c
  <2>3. PagesOf(s) \in [1 .. Cardinality(I) -> Pages]
    BY <2>1, <2>2
  <2>4. QED
    BY <2>1, <2>3, <1>5, FunctionIsSequence
<1>8. \A i \in I : \E k \in 1 .. Len(PagesOf(s)) : PagesOf(s)[k] = PageOf[s[i].addr]
  <2> SUFFICES ASSUME NEW i \in I
               PROVE  \E k \in 1 .. Len(PagesOf(s)) : PagesOf(s)[k] = PageOf[s[i].addr]
    OBVIOUS
  <2> HIDE DEF c
  <2>1. PICK k \in 1 .. Cardinality(I) : f[k] = i
    BY <1>6
  <2>2. PagesOf(s)[k] = PageOf[s[i].addr]
    BY <2>1, <1>6, <1>7
  <2>3. QED
    BY <2>2, <1>7
<1>9. ASSUME K >= 0
      PROVE  Cardinality(I) <= K
  <2>1. CASE Cardinality(I) = 0
    BY <2>1, <1>9, <1>1
  <2>2. CASE Cardinality(I) # 0
    <3> DEFINE n == Cardinality(I)
               i == f[n]
               before == {j \in U : j < i}
               upTo == {j \in I : j <= i}
    <3>1. n \in 1 .. Cardinality(I)
      BY <1>5, <2>2
    <3>2. i \in I /\ Cardinality(upTo) = n
      BY <3>1, <1>6
    <3>3. IsFiniteSet(U) /\ IsFiniteSet(I)
      BY <1>1, <1>2, <1>3, FirstNumbers, FS_Subset
    <3>4. i \in Nat /\ (\A j \in I : j \in Nat) /\ (\A j \in U : j \in Nat)
      <4>1. \A j \in 1 .. Len(s) : j \in Nat
        BY <1>1
      <4>2. \A j \in I : j \in Nat
        BY <4>1, <1>3
      <4>3. \A j \in U : j \in Nat
        BY <4>1, <1>2
      <4> HIDE DEF i
      <4>4. QED
        BY <4>2, <4>3, <3>2
    <3>5. upTo \ {i} \in SUBSET before
      <4>1. \A j \in I : j \in U
        BY <1>2
      <4>2. \A j \in upTo \ {i} : j \in U /\ j < i
        BY <3>4, <4>1
      <4>3. QED
        BY <4>2
    <3>6. i \in upTo
      BY <3>2, <3>4
    <3>7. before \in SUBSET U /\ upTo \in SUBSET I
      OBVIOUS
    <3>8. Cardinality(before) < K
      BY <3>2, <1>2
    <3> HIDE DEF before, upTo, i
    <3>9. IsFiniteSet(before) /\ IsFiniteSet(upTo)
      BY <3>3, <3>7, FS_Subset
    <3>10. Cardinality(upTo \ {i}) = n - 1
      BY <3>2, <3>6, <3>9, FS_RemoveElement
    <3>11. Cardinality(upTo \ {i}) <= Cardinality(before)
      BY <3>5, <3>9, FS_Subset
    <3>12. Cardinality(before) \in Nat
      BY <3>9, FS_CardinalityType
    <3>13. QED
      BY <3>8, <3>10, <3>11, <3>12, <1>1, <1>5
  <2>3. QED
    BY <2>1, <2>2
<1>10. ASSUME Len(lower_translate.RQ) <= LowerSize
       PROVE  Len(lower_translate.RQ) + Len(PagesOf(s)) <= LowerSize
  <2>1. K >= 0
    BY <1>10, <1>1, Bounds
  <2>2. Cardinality(I) <= K
    BY <2>1, <1>9
  <2>3. QED
    BY <2>2, <1>1, <1>5, <1>7, Bounds
<1>11. QED
  BY <1>3, <1>7, <1>8, <1>10 DEF I

\* StartTagChecks shares the lookups out: some are checked, some stay in flight,
\* and those that are ready but not translated join the stash.
TagChecksParts(stay, new) ==
    LET issued == IssuedOf(inflight_tag_check \o translation_stash)
    IN  /\ stay \in Seq(TagLookup) /\ new \in Seq(TagLookup)
        /\ translation_stash' = stay \o new
        /\ Len(stay) = Len(translation_stash)
        /\ \A i \in 1 .. Len(stay) : stay[i].translated = translation_stash[i].translated
        /\ \A i \in 1 .. Len(new) : ~new[i].translated
        /\ \A i \in 1 .. Len(todo') : todo'[i].translated
        /\ \A i \in 1 .. Len(inflight_tag_check') :
              \E j \in 1 .. Len(issued) : inflight_tag_check'[i] = issued[j]
        /\ \A i \in 1 .. Len(stay) : \E j \in 1 .. Len(issued) : stay[i] = issued[j]
        /\ \A i \in 1 .. Len(new) : \E j \in 1 .. Len(issued) : new[i] = issued[j]

\* Starting the tag checks shares the lookups out between the pipeline, the list to
\* do and the stash, and loses none.
LEMMA TagChecksShared ==
  ASSUME inflight_tag_check \in Seq(TagLookup), translation_stash \in Seq(TagLookup),
         StartTagChecks
  PROVE  /\ inflight_tag_check' \in Seq(TagLookup)
         /\ todo' \in Seq(TagLookup)
         /\ translation_stash' \in Seq(TagLookup)
         /\ \A D : IssueBlind(D) =>
               Count(inflight_tag_check', D) + Count(todo', D) + Count(translation_stash', D)
                  = Count(inflight_tag_check, D) + Count(translation_stash, D)
         /\ \E stay, new : TagChecksParts(stay, new)
<1> DEFINE lookups == inflight_tag_check \o translation_stash
           issued == IssuedOf(lookups)
           m == Len(inflight_tag_check)
           inflight == SubSeq(issued, 1, m)
           stay == SubSeq(issued, m + 1, Len(issued))
           places == DOMAIN inflight_tag_check
           waiting == {i \in places : issued[i].wait = 0 /\ ~issued[i].translated}
           checks == Chosen(inflight, places \ waiting)
           new == Chosen(inflight, waiting)
           n == Passing(checks, MaxTag, ReadyToCheck)
<1>1. /\ todo' = SubSeq(checks, 1, n)
      /\ inflight_tag_check' = SubSeq(checks, n + 1, Len(checks))
      /\ translation_stash' = SubSeq(issued, Len(inflight) + 1, Len(issued)) \o new
  BY DEF StartTagChecks
<1>2. /\ lookups \in Seq(TagLookup) /\ Len(lookups) = m + Len(translation_stash)
      /\ \A i \in 1 .. m + Len(translation_stash) : lookups[i] =
            IF i <= m THEN inflight_tag_check[i] ELSE translation_stash[i - m]
      /\ m \in Nat /\ Len(translation_stash) \in Nat /\ places = 1 .. m
  BY ConcatProperties, LenProperties
<1>3. /\ issued \in Seq(TagLookup) /\ Len(issued) = Len(lookups)
      /\ \A i \in 1 .. Len(lookups) :
            Alike(issued[i], lookups[i]) /\ issued[i].translated = lookups[i].translated
  <2> HIDE DEF lookups
  <2>1. QED
    BY <1>2, IssuedType
<1>c. ASSUME NEW D, IssueBlind(D)
      PROVE  Count(issued, D) = Count(inflight_tag_check, D) + Count(translation_stash, D)
  <2>1. Count(lookups, D) = Count(inflight_tag_check, D) + Count(translation_stash, D)
    BY CountJoined
  <2> HIDE DEF lookups, issued
  <2>2. \A i \in 1 .. Len(lookups) : lookups[i] \in TagLookup /\ issued[i] \in TagLookup
    BY <1>2, <1>3, ElementOfSeq
  <2>3. \A i \in 1 .. Len(lookups) : issued[i] \in D <=> lookups[i] \in D
    BY <2>2, <1>3, <1>c DEF IssueBlind
  <2>4. Count(issued, D) = Count(lookups, D)
    BY SMTT(30), <2>3, <1>2, <1>3, CountAlike
  <2>5. QED
    BY <2>1, <2>4
<1>d. \A i \in 1 .. Len(translation_stash) : issued[m + i].translated = translation_stash[i].translated
  <2> SUFFICES ASSUME NEW i \in 1 .. Len(translation_stash)
               PROVE  issued[m + i].translated = translation_stash[i].translated
    OBVIOUS
  <2> HIDE DEF lookups, issued, m
  <2>1. m + i \in 1 .. Len(lookups) /\ m + i \in 1 .. m + Len(translation_stash)
        /\ ~(m + i <= m) /\ (m + i) - m = i
    BY <1>2
  <2>2. QED
    BY <2>1, <1>2, <1>3
<1> HIDE DEF lookups, issued, m
<1>4. m \in 0 .. Len(issued)
  BY <1>2, <1>3
<1>5. /\ inflight \in Seq(TagLookup) /\ Len(inflight) = m
      /\ stay \in Seq(TagLookup) /\ Len(stay) = Len(translation_stash)
      /\ \A i \in 1 .. m : inflight[i] = issued[i]
      /\ \A i \in 1 .. Len(translation_stash) : stay[i] = issued[m + i]
      /\ \A D : Count(issued, D) = Count(inflight, D) + Count(stay, D)
  <2>1. /\ inflight \in Seq(TagLookup) /\ Len(inflight) = m
        /\ stay \in Seq(TagLookup) /\ Len(stay) = Len(issued) - m
        /\ \A i \in 1 .. m : inflight[i] = issued[i]
        /\ \A i \in 1 .. Len(issued) - m : stay[i] = issued[m + i]
    BY <1>3, <1>4, CountSplit
  <2>2. \A D : Count(issued, D) = Count(inflight, D) + Count(stay, D)
    BY <1>3, <1>4, CountSplit
  <2>3. Len(issued) - m = Len(translation_stash)
    BY <1>2, <1>3
  <2> HIDE DEF inflight, stay
  <2>4. QED
    BY <2>1, <2>2, <2>3
<1>6. /\ waiting \in SUBSET (1 .. Len(inflight))
      /\ places \ waiting \in SUBSET (1 .. Len(inflight))
  BY <1>2, <1>5
<1>w. \A i \in waiting : inflight[i] = issued[i] /\ ~inflight[i].translated
  <2> HIDE DEF inflight
  <2>1. QED
    BY <1>2, <1>5
<1>p. places \ waiting = (0 + 1 .. Len(inflight)) \ waiting
  BY <1>2, <1>5
<1> HIDE DEF inflight, stay, waiting, places
<1>7. /\ checks \in Seq(TagLookup) /\ new \in Seq(TagLookup)
      /\ \A D : Count(checks, D) + Count(new, D) = Count(inflight, D)
  <2>1. checks \in Seq(TagLookup) /\ new \in Seq(TagLookup)
    BY <1>5, <1>6, ChosenOrder
  <2>2. ASSUME NEW D
        PROVE  Count(checks, D) + Count(new, D) = Count(inflight, D)
    <3>1. Count(SubSeq(inflight, 1, 0), D) + Count(new, D) + Count(checks, D) = Count(inflight, D)
      <4>1. 0 \in 0 .. Len(inflight) /\ waiting \in SUBSET (0 + 1 .. Len(inflight))
        BY <1>2, <1>5, <1>6
      <4>2. Count(SubSeq(inflight, 1, 0), D) + Count(Chosen(inflight, waiting), D)
               + Count(Chosen(inflight, (0 + 1 .. Len(inflight)) \ waiting), D)
            = Count(inflight, D)
        BY <4>1, <1>5, ChosenParts
      <4>3. QED
        BY <4>2, <1>p
    <3>2. SubSeq(inflight, 1, 0) = << >>
      BY SubSeqEmpty
    <3>3. Count(SubSeq(inflight, 1, 0), D) = 0
      BY <3>2, CountEmpty
    <3>4. Count(checks, D) \in Nat /\ Count(new, D) \in Nat /\ Count(inflight, D) \in Nat
      BY <2>1, <1>5, CountType
    <3> DEFINE x == Count(SubSeq(inflight, 1, 0), D)
    <3>6. x = 0 /\ x + Count(new, D) + Count(checks, D) = Count(inflight, D)
      BY <3>1, <3>3
    <3> HIDE DEF checks, new, x
    <3>5. QED
      BY <3>6, <3>4
  <2>3. QED
    BY <2>1, <2>2
<1>8. n \in 0 .. Len(checks) /\ \A i \in 1 .. n : checks[i].translated
  <2> HIDE DEF checks
  <2>1. QED
    BY <1>7, PassingReady, Bounds
<1>9. /\ todo' \in Seq(TagLookup) /\ Len(todo') = n
      /\ \A i \in 1 .. n : todo'[i] = checks[i]
      /\ inflight_tag_check' \in Seq(TagLookup)
      /\ Len(inflight_tag_check') = Len(checks) - n
      /\ \A i \in 1 .. Len(checks) - n : inflight_tag_check'[i] = checks[n + i]
      /\ \A D : Count(checks, D) = Count(todo', D) + Count(inflight_tag_check', D)
  <2> HIDE DEF checks, n
  <2>1. /\ SubSeq(checks, 1, n) \in Seq(TagLookup) /\ Len(SubSeq(checks, 1, n)) = n
        /\ \A i \in 1 .. n : SubSeq(checks, 1, n)[i] = checks[i]
        /\ SubSeq(checks, n + 1, Len(checks)) \in Seq(TagLookup)
        /\ Len(SubSeq(checks, n + 1, Len(checks))) = Len(checks) - n
        /\ \A i \in 1 .. Len(checks) - n : SubSeq(checks, n + 1, Len(checks))[i] = checks[n + i]
    BY <1>7, <1>8, CountSplit
  <2>2. \A D : Count(checks, D) = Count(SubSeq(checks, 1, n), D)
                                     + Count(SubSeq(checks, n + 1, Len(checks)), D)
    BY <1>7, <1>8, CountSplit
  <2>3. QED
    BY <1>1, <2>1, <2>2
<1>10. translation_stash' = stay \o new
  BY <1>1, <1>5 DEF stay
<1> HIDE DEF new, n
<1>11. /\ translation_stash' \in Seq(TagLookup)
       /\ \A D : Count(translation_stash', D) = Count(stay, D) + Count(new, D)
  BY <1>5, <1>7, <1>10, ConcatProperties, CountJoined
<1>12. ASSUME NEW D, IssueBlind(D)
       PROVE  Count(inflight_tag_check', D) + Count(todo', D) + Count(translation_stash', D)
                  = Count(inflight_tag_check, D) + Count(translation_stash, D)
  <2>1. /\ Count(inflight_tag_check', D) \in Nat /\ Count(todo', D) \in Nat
        /\ Count(stay, D) \in Nat /\ Count(new, D) \in Nat
    BY <1>5, <1>7, <1>9, CountType
  <2>2. Count(checks, D) = Count(todo', D) + Count(inflight_tag_check', D)
    BY <1>9
  <2>3. Count(checks, D) + Count(new, D) = Count(inflight, D)
    BY <1>7
  <2>4. Count(issued, D) = Count(inflight, D) + Count(stay, D)
    BY <1>5
  <2>5. Count(translation_stash', D) = Count(stay, D) + Count(new, D)
    BY <1>11
  <2>6. Count(issued, D) = Count(inflight_tag_check, D) + Count(translation_stash, D)
    BY <1>12, <1>c
  <2> HIDE DEF checks
  <2>7. QED
    BY <2>1, <2>2, <2>3, <2>4, <2>5, <2>6
<1>13. \A k \in 1 .. Len(checks) : \E j \in 1 .. Len(issued) : checks[k] = issued[j]
  <2>1. \A k \in 1 .. Len(checks) : \E i \in places \ waiting : checks[k] = inflight[i]
    BY <1>5, <1>6, ChosenFrom
  <2>2. \A i \in places \ waiting : inflight[i] = issued[i] /\ i \in 1 .. Len(issued)
    BY <1>4, <1>5, <1>6
  <2> HIDE DEF checks
  <2>3. QED
    BY <2>1, <2>2
<1>14. \A k \in 1 .. Len(new) : ~new[k].translated /\ \E j \in 1 .. Len(issued) : new[k] = issued[j]
  <2>1. \A k \in 1 .. Len(new) : \E i \in waiting : new[k] = inflight[i]
    BY <1>5, <1>6, ChosenFrom DEF new
  <2>2. \A i \in waiting : i \in 1 .. Len(issued)
    BY <1>4, <1>5, <1>6
  <2>3. QED
    BY <2>1, <2>2, <1>w
<1>15. TagChecksParts(stay, new)
  <2> HIDE DEF checks
  <2>1. \A i \in 1 .. Len(todo') : todo'[i].translated
    BY <1>8, <1>9
  <2>2. \A i \in 1 .. Len(inflight_tag_check') :
              \E j \in 1 .. Len(issued) : inflight_tag_check'[i] = issued[j]
    <3> SUFFICES ASSUME NEW i \in 1 .. Len(inflight_tag_check')
                 PROVE  \E j \in 1 .. Len(issued) : inflight_tag_check'[i] = issued[j]
      OBVIOUS
    <3>1. n + i \in 1 .. Len(checks) /\ inflight_tag_check'[i] = checks[n + i]
      <4>1. Len(checks) \in Nat
        BY <1>7, LenProperties
      <4>2. QED
        BY <4>1, <1>8, <1>9
    <3>2. QED
      BY <3>1, <1>13
  <2>3. \A i \in 1 .. Len(stay) : \E j \in 1 .. Len(issued) : stay[i] = issued[j]
    <3> SUFFICES ASSUME NEW i \in 1 .. Len(stay)
                 PROVE  \E j \in 1 .. Len(issued) : stay[i] = issued[j]
      OBVIOUS
    <3>1. m + i \in 1 .. Len(issued)
      BY <1>2, <1>3, <1>5
    <3>2. QED
      BY <3>1, <1>5
  <2>4. \A i \in 1 .. Len(stay) : stay[i].translated = translation_stash[i].translated
    BY <1>5, <1>d
  <2>5. QED
    BY <2>1, <2>2, <2>3, <2>4, <1>5, <1>7, <1>10, <1>14 DEF TagChecksParts, issued, lookups
<1>16. QED
  <2> HIDE DEF checks
  <2>1. QED
    BY <1>9, <1>11, <1>12, <1>15

-----------------------------------------------------------------------------
(* Every step keeps the types. *)

\* The empty cache is well typed.
LEMMA InitTyped == CacheInit => CacheTyped
<1> SUFFICES ASSUME CacheInit PROVE CacheTyped
  OBVIOUS
<1>1. \A S, R : EmptyChannel \in ChannelOf(S, R)
  BY EmptySeq DEF EmptyChannel, ChannelOf
<1>2. upper_levels \in [1 .. Cardinality(Upper) -> Upper]
  BY DEF CacheInit, QuietInit
<1>3. upper \in [Upper -> ChannelOf(Request, Response)]
  BY <1>1 DEF CacheInit, QuietInit
<1>4. /\ \A S : << >> \in Seq(S)
  BY EmptySeq
<1>5. budget \in 0 .. MaxFill + MaxTag
  BY Bounds DEF CacheInit, QuietInit
<1>6. QED
  BY <1>1, <1>2, <1>3, <1>4, <1>5 DEF CacheInit, QuietInit, CacheTyped, Phases

\* An MSHR becomes a fill: the answered one is swapped with the first and leaves.
LEMMA FinishPacketMoves ==
  ASSUME CacheTyped, FinishPacket
  PROVE  LET m == IndexOf(MSHR, lower.returned[1].addr)
             f == [MSHR[m] EXCEPT !.wait = FillLatency]
         IN  /\ m \in 1 .. Len(MSHR) /\ MSHR[m].addr = lower.returned[1].addr
             /\ f \in Fill /\ f.addr = MSHR[m].addr /\ f.type = MSHR[m].type
             /\ f.ids = MSHR[m].ids /\ f.to_return = MSHR[m].to_return
             /\ inflight_fills' = Append(inflight_fills, f)
             /\ MSHR' \in Seq(Fill) /\ Len(MSHR') = Len(MSHR) - 1
             /\ \A D : Count(MSHR', D) + One(MSHR[m] \in D) = Count(MSHR, D)
<1> DEFINE m == IndexOf(MSHR, lower.returned[1].addr)
           f == [MSHR[m] EXCEPT !.wait = FillLatency]
           swapped == [MSHR EXCEPT ![m] = MSHR[1]]
<1>1. lower.returned # << >> /\ lower.returned \in Seq(Response)
  BY DEF CacheTyped, ChannelOf, FinishPacket
<1>2. Head(lower.returned) = lower.returned[1]
  BY <1>1, CountTail
<1>3. m # 0 /\ inflight_fills' = Append(inflight_fills, f) /\ MSHR' = Tail(swapped)
  BY <1>2 DEF FinishPacket
<1>4. MSHR \in Seq(Fill)
  BY DEF CacheTyped
<1>5. m \in 1 .. Len(MSHR) /\ MSHR[m].addr = lower.returned[1].addr /\ Len(MSHR) \in Nat
  BY <1>3, <1>4, IndexFound, LenProperties
<1> HIDE DEF m
<1>6. 1 \in 1 .. Len(MSHR) /\ MSHR[1] \in Fill /\ MSHR[m] \in Fill
  BY <1>4, <1>5, ElementOfSeq
<1>7. /\ f \in Fill /\ f.addr = MSHR[m].addr /\ f.type = MSHR[m].type
      /\ f.ids = MSHR[m].ids /\ f.to_return = MSHR[m].to_return
  <2>1. FillLatency \in 0 .. FillLatency
    BY Bounds
  <2>2. QED
    BY <1>6, <2>1 DEF Fill
<1>8. /\ swapped \in Seq(Fill) /\ Len(swapped) = Len(MSHR)
      /\ swapped[1] = MSHR[1]
  <2>1. /\ swapped \in Seq(Fill) /\ Len(swapped) = Len(MSHR)
        /\ \A i \in 1 .. Len(MSHR) : swapped[i] = IF i = m THEN MSHR[1] ELSE MSHR[i]
    BY <1>4, <1>5, <1>6, CountReplaced
  <2> HIDE DEF swapped
  <2>2. QED
    BY <2>1, <1>6
<1>9. \A D : Count(swapped, D) + One(MSHR[m] \in D) = Count(MSHR, D) + One(MSHR[1] \in D)
  BY <1>4, <1>5, <1>6, CountReplaced
<1>10. swapped # << >>
  <2> HIDE DEF swapped
  <2>1. QED
    BY <1>8, <1>6
<1>11. /\ Tail(swapped) \in Seq(Fill) /\ Len(Tail(swapped)) = Len(swapped) - 1
       /\ Head(swapped) = swapped[1]
       /\ \A D : Count(swapped, D) = One(Head(swapped) \in D) + Count(Tail(swapped), D)
  <2> HIDE DEF swapped
  <2>1. /\ Tail(swapped) \in Seq(Fill) /\ Len(Tail(swapped)) = Len(swapped) - 1
        /\ Head(swapped) = swapped[1]
    BY <1>8, <1>10, CountTail
  <2>2. \A D : Count(swapped, D) = One(Head(swapped) \in D) + Count(Tail(swapped), D)
    BY <1>8, <1>10, CountTail
  <2>3. QED
    BY <2>1, <2>2
<1>12. ASSUME NEW D
       PROVE  Count(MSHR', D) + One(MSHR[m] \in D) = Count(MSHR, D)
  <2>1. Count(swapped, D) + One(MSHR[m] \in D) = Count(MSHR, D) + One(MSHR[1] \in D)
    BY <1>9
  <2>2. Count(swapped, D) = One(MSHR[1] \in D) + Count(MSHR', D)
    BY <1>3, <1>8, <1>11
  <2>3. Count(MSHR', D) \in Nat /\ Count(MSHR, D) \in Nat /\ Count(swapped, D) \in Nat
    <3> HIDE DEF swapped
    <3>1. QED
      BY <1>3, <1>4, <1>8, <1>11, CountType
  <2>4. One(MSHR[1] \in D) \in Nat /\ One(MSHR[m] \in D) \in Nat
    BY DEF One
  <2> HIDE DEF swapped
  <2>5. QED
    BY <2>1, <2>2, <2>3, <2>4
<1>13. MSHR' \in Seq(Fill) /\ Len(MSHR') = Len(MSHR) - 1
  <2> HIDE DEF swapped
  <2>1. QED
    BY <1>3, <1>8, <1>11
<1>14. QED
  BY <1>3, <1>5, <1>7, <1>12, <1>13 DEF m

\* handle_fill takes the first fill, answers its uppers and writes its victim back.
LEMMA HandleFillMoves ==
  ASSUME CacheTyped, NEW w \in Way \cup {Bypass}, HandleFill(w)
  PROVE  LET f == inflight_fills[1]
             v == Victim(f, w)
         IN  /\ f \in Fill /\ f = Head(inflight_fills) /\ w \in FillWay(f)
             /\ inflight_fills # << >>
             /\ inflight_fills' \in Seq(Fill)
             /\ Len(inflight_fills') = Len(inflight_fills) - 1
             /\ \A D : Count(inflight_fills, D) = One(f \in D) + Count(inflight_fills', D)
             /\ \/ /\ NeedsWriteback(v) /\ v \in [addr : Line, dirty : BOOLEAN]
                   /\ Writeback(v) \in LowerRequest
                   /\ Len(lower.WQ) < LowerSize
                   /\ lower' = Push(lower, "WQ", Writeback(v))
                   /\ written' = written \ {v.addr}
                \/ /\ ~NeedsWriteback(v)
                   /\ UNCHANGED <<lower, written>>
             /\ \/ w \in Way /\ block' = [block EXCEPT ![SetOf[f.addr]][w] = FillBlock(f)]
                \/ w = Bypass /\ block' = block
             /\ FillBlock(f) \in [addr : Line, dirty : BOOLEAN]
             /\ upper' = Responded(upper, f)
<1> DEFINE f == inflight_fills[1]
           v == Victim(f, w)
<1>1. inflight_fills \in Seq(Fill) /\ inflight_fills # << >>
  BY DEF CacheTyped, HandleFill, NextFillReady
<1>2. /\ Tail(inflight_fills) \in Seq(Fill) /\ Len(Tail(inflight_fills)) = Len(inflight_fills) - 1
      /\ f \in Fill /\ f = Head(inflight_fills)
  BY <1>1, CountTail
<1>3. \A D : Count(inflight_fills, D) = One(f \in D) + Count(Tail(inflight_fills), D)
  BY <1>1, <1>2, CountTail
<1>4. inflight_fills' = Tail(inflight_fills) /\ w \in FillWay(f) /\ upper' = Responded(upper, f)
  BY <1>2 DEF HandleFill
<1>5. SetOf[f.addr] \in CacheSets /\ f.addr \in Line
  BY <1>2, CacheAssumption DEF Fill
<1>6. NeedsWriteback(v) => v \in [addr : Line, dirty : BOOLEAN]
  <2>1. w = Bypass => v = NoBlock
    BY DEF Victim
  <2>2. w # Bypass => w \in Way /\ v = block[SetOf[f.addr]][w]
    BY DEF Victim
  <2>3. block \in [CacheSets -> [Way -> [addr : Line, dirty : BOOLEAN] \cup {NoBlock}]]
    BY DEF CacheTyped
  <2>4. w # Bypass => v \in [addr : Line, dirty : BOOLEAN] \cup {NoBlock}
    <3> HIDE DEF v, f
    <3>1. QED
      BY <2>2, <2>3, <1>5
  <2> HIDE DEF v
  <2>5. QED
    BY <2>1, <2>4 DEF NeedsWriteback
<1>7. NeedsWriteback(v) => Writeback(v) \in LowerRequest
  <2> HIDE DEF v
  <2>1. QED
    BY <1>6 DEF Writeback, LowerRequest, Types
<1>8. \/ /\ NeedsWriteback(v) /\ Len(lower.WQ) < LowerSize
         /\ lower' = Push(lower, "WQ", Writeback(v)) /\ written' = written \ {v.addr}
      \/ ~NeedsWriteback(v) /\ UNCHANGED <<lower, written>>
  <2>1. v = Victim(Head(inflight_fills), w)
    BY <1>2
  <2> HIDE DEF v, f
  <2>2. QED
    BY <2>1 DEF HandleFill, HasRoom
<1>9. \/ w \in Way /\ block' = [block EXCEPT ![SetOf[f.addr]][w] = FillBlock(f)]
      \/ w = Bypass /\ block' = block
  <2>1. block' = IF w = Bypass THEN block
                   ELSE [block EXCEPT ![SetOf[f.addr]][w] = FillBlock(f)]
    BY <1>2 DEF HandleFill
  <2> HIDE DEF f
  <2>2. QED
    BY <2>1
<1>10. FillBlock(f) \in [addr : Line, dirty : BOOLEAN]
  BY <1>5 DEF FillBlock
<1> HIDE DEF f, v
<1>11. QED
  BY <1>1, <1>2, <1>3, <1>4, <1>6, <1>7, <1>8, <1>9, <1>10 DEF f, v

\* A handler of the tag checks takes the first lookup of todo.
LEMMA FirstOfTodo ==
  ASSUME CacheTyped, todo # << >>
  PROVE  /\ Head(todo) = todo[1] /\ todo[1] \in TagLookup /\ Len(todo) \in Nat \ {0}
         /\ Tail(todo) \in Seq(TagLookup) /\ Len(Tail(todo)) = Len(todo) - 1
         /\ \A i \in 1 .. Len(todo) - 1 : Tail(todo)[i] = todo[i + 1]
         /\ \A D : Count(todo, D) = One(todo[1] \in D) + Count(Tail(todo), D)
<1>1. todo \in Seq(TagLookup)
  BY DEF CacheTyped
<1>2. /\ Head(todo) = todo[1] /\ todo[1] \in TagLookup /\ Len(todo) \in Nat \ {0}
      /\ Tail(todo) \in Seq(TagLookup) /\ Len(Tail(todo)) = Len(todo) - 1
      /\ \A i \in 1 .. Len(todo) - 1 : Tail(todo)[i] = todo[i + 1]
  BY <1>1, CountTail
<1>3. \A D : Count(todo, D) = One(todo[1] \in D) + Count(Tail(todo), D)
  BY <1>1, <1>2, CountTail
<1>4. QED
  BY <1>2, <1>3

\* A lookup that misses and is not the first merges with an MSHR or a fill.
MergesIn(entries, entries2, m, pkt) ==
    LET g == Merge(entries[m], ToFill(pkt))
    IN  /\ m \in 1 .. Len(entries) /\ entries[m] \in Fill /\ entries[m].addr = pkt.addr
        /\ g \in Fill /\ g.addr = pkt.addr
        /\ g.type = (IF pkt.type = "PREFETCH" THEN entries[m].type ELSE pkt.type)
        /\ g.ids = entries[m].ids \cup pkt.ids
        /\ g.to_return = entries[m].to_return \cup pkt.to_return
        /\ entries2 \in Seq(Fill) /\ Len(entries2) = Len(entries)
        /\ \A i \in 1 .. Len(entries) : entries2[i] = IF i = m THEN g ELSE entries[i]
        /\ \A D : Count(entries2, D) + One(entries[m] \in D) = Count(entries, D) + One(g \in D)

\* A lookup merged into the entry of its line changes that entry and no other.
LEMMA MergedIn ==
  ASSUME NEW entries \in Seq(Fill), NEW pkt \in TagLookup, IndexOf(entries, pkt.addr) # 0
  PROVE  LET m == IndexOf(entries, pkt.addr)
         IN  MergesIn(entries, [entries EXCEPT ![m] = Merge(entries[m], ToFill(pkt))], m, pkt)
<1> DEFINE m == IndexOf(entries, pkt.addr)
           g == Merge(entries[m], ToFill(pkt))
           entries2 == [entries EXCEPT ![m] = g]
<1>1. m \in 1 .. Len(entries) /\ entries[m].addr = pkt.addr
  BY IndexFound, LenProperties
<1> HIDE DEF m
<1>2. entries[m] \in Fill /\ ToFill(pkt) \in Fill
  BY <1>1, ElementOfSeq, ToFillType
<1>3. /\ g \in Fill /\ g.addr = entries[m].addr
      /\ g.type = (IF ToFill(pkt).type = "PREFETCH" THEN entries[m].type ELSE ToFill(pkt).type)
      /\ g.ids = entries[m].ids \cup ToFill(pkt).ids
      /\ g.to_return = entries[m].to_return \cup ToFill(pkt).to_return
  BY <1>2, MergeType
<1>4. /\ ToFill(pkt).type = pkt.type /\ ToFill(pkt).ids = pkt.ids
      /\ ToFill(pkt).to_return = pkt.to_return
  BY DEF ToFill
<1> HIDE DEF g
<1>5. /\ entries2 \in Seq(Fill) /\ Len(entries2) = Len(entries)
      /\ \A i \in 1 .. Len(entries) : entries2[i] = IF i = m THEN g ELSE entries[i]
  BY <1>1, <1>3, CountReplaced
<1>6. \A D : Count(entries2, D) + One(entries[m] \in D) = Count(entries, D) + One(g \in D)
  BY <1>1, <1>3, CountReplaced
<1> HIDE DEF entries2
<1>7. MergesIn(entries, entries2, m, pkt)
  BY <1>1, <1>2, <1>3, <1>4, <1>5, <1>6 DEF MergesIn, g
<1>8. QED
  BY <1>7 DEF entries2, g, m

\* StartInitiate restarts the translated lookups at the front of the stash.
InitiateParts(n, moved) ==
    /\ n \in 0 .. Len(translation_stash)
    /\ moved \in Seq(TagLookup) /\ Len(moved) = n
    /\ \A i \in 1 .. n : /\ Alike(moved[i], translation_stash[i])
                         /\ moved[i].translated = translation_stash[i].translated
                         /\ moved[i].issued = translation_stash[i].issued
                         /\ translation_stash[i].translated
    /\ inflight_tag_check' = inflight_tag_check \o moved
    /\ Len(inflight_tag_check') = Len(inflight_tag_check) + n
    /\ inflight_tag_check' \in Seq(TagLookup)
    /\ translation_stash' = SubSeq(translation_stash, n + 1, Len(translation_stash))
    /\ translation_stash' \in Seq(TagLookup)
    /\ budget' \in 0 .. MaxTag
    /\ Len(inflight_tag_check') + budget' <= MaxTag * HitLatency
    /\ \A D : Blind(D) =>
          Count(inflight_tag_check', D) + Count(translation_stash', D)
             = Count(inflight_tag_check, D) + Count(translation_stash, D)

\* initiate_tag_check moves the first translated lookups of the stash to the end
\* of the pipeline.
LEMMA InitiateMoves ==
  ASSUME CacheTyped, StartInitiate, Len(inflight_tag_check) <= MaxTag * HitLatency
  PROVE  \E n, moved : InitiateParts(n, moved)
<1> DEFINE n == Passing(translation_stash, TagCheckRoom, IsTranslated)
           stayed == SubSeq(translation_stash, 1, n)
           moved == Restart(stayed)
           later == SubSeq(translation_stash, n + 1, Len(translation_stash))
           free == MaxTag * HitLatency - Len(inflight_tag_check)
<1>1. /\ inflight_tag_check \in Seq(TagLookup) /\ translation_stash \in Seq(TagLookup)
      /\ Len(inflight_tag_check) \in Nat /\ Len(translation_stash) \in Nat
  BY LenProperties DEF CacheTyped
<1>2. TagCheckRoom \in 0 .. MaxTag /\ TagCheckRoom <= free
  <2>1. free \in Nat
    BY <1>1, Bounds
  <2> HIDE DEF free
  <2>2. Max({0, free}) = free
    BY <2>1, MaxOfTwo
  <2>3. TagCheckRoom = Min({MaxTag, Max({0, free})})
    BY DEF TagCheckRoom, free
  <2>4. TagCheckRoom = IF MaxTag <= free THEN MaxTag ELSE free
    <3>1. MaxTag \in Int /\ free \in Int
      BY <2>1, Bounds
    <3>2. TagCheckRoom = Min({MaxTag, free})
      BY <2>2, <2>3
    <3>3. QED
      BY <3>1, <3>2, MinOfTwo
  <2>5. QED
    BY <2>1, <2>4, Bounds
<1>3. /\ inflight_tag_check' = inflight_tag_check \o moved
      /\ translation_stash' = later
      /\ budget' = TagCheckRoom - n
  BY DEF StartInitiate
<1>4. /\ n \in 0 .. Len(translation_stash) /\ n <= TagCheckRoom
      /\ \A i \in 1 .. n : translation_stash[i].translated
  BY <1>1, <1>2, PassingTranslated
<1> HIDE DEF n
<1>5. /\ stayed \in Seq(TagLookup) /\ Len(stayed) = n
      /\ \A i \in 1 .. n : stayed[i] = translation_stash[i]
      /\ later \in Seq(TagLookup)
  BY <1>1, <1>4, CountSplit
<1>6. \A D : Count(translation_stash, D) = Count(stayed, D) + Count(later, D)
  BY <1>1, <1>4, CountSplit
<1> HIDE DEF stayed, later
<1>7. /\ moved \in Seq(TagLookup) /\ Len(moved) = n
      /\ \A i \in 1 .. n : /\ Alike(moved[i], stayed[i])
                           /\ moved[i].translated = stayed[i].translated
                           /\ moved[i].issued = stayed[i].issued
  BY <1>5, RestartType
<1> HIDE DEF moved
<1>8. /\ inflight_tag_check' \in Seq(TagLookup)
      /\ Len(inflight_tag_check') = Len(inflight_tag_check) + n
      /\ \A D : Count(inflight_tag_check', D) = Count(inflight_tag_check, D) + Count(moved, D)
  BY <1>1, <1>3, <1>7, ConcatProperties, CountJoined
<1>9. budget' \in 0 .. MaxTag /\ Len(inflight_tag_check') + budget' <= MaxTag * HitLatency
  BY <1>1, <1>2, <1>3, <1>4, <1>8, Bounds
<1>10. ASSUME NEW D, Blind(D)
       PROVE  Count(inflight_tag_check', D) + Count(translation_stash', D)
                 = Count(inflight_tag_check, D) + Count(translation_stash, D)
  <2>1. Count(moved, D) = Count(stayed, D)
    BY <1>5, <1>7, <1>10, BlindAlike
  <2>2. /\ Count(inflight_tag_check, D) \in Nat /\ Count(stayed, D) \in Nat
        /\ Count(later, D) \in Nat
    BY <1>1, <1>5, CountType
  <2>3. Count(inflight_tag_check', D) = Count(inflight_tag_check, D) + Count(moved, D)
    BY <1>8
  <2>4. Count(translation_stash, D) = Count(stayed, D) + Count(translation_stash', D)
    BY <1>3, <1>6
  <2>5. Count(translation_stash', D) \in Nat
    BY <1>3, <2>2
  <2>6. QED
    BY <2>1, <2>2, <2>3, <2>4, <2>5
<1>11. InitiateParts(n, moved)
  BY <1>3, <1>4, <1>5, <1>7, <1>8, <1>9, <1>10 DEF InitiateParts, later
<1>12. QED
  BY <1>11

\* initiate_tag_check takes packets from one queue of one upper level.
UpperParts(u, q, n, taken) ==
    /\ u \in Upper /\ q \in RequestQueues
    /\ n \in 1 .. Len(upper[u][q]) /\ n <= budget
    /\ upper[u][q] \in Seq(Request)
    /\ taken \in Seq(TagLookup) /\ Len(taken) = n
    /\ \A i \in 1 .. n : /\ taken[i] = Lookup(upper[u][q][i], u)
                         /\ upper[u][q][i] \in Request
                         /\ avail \/ taken[i].translated
    /\ inflight_tag_check' = inflight_tag_check \o taken
    /\ inflight_tag_check' \in Seq(TagLookup)
    /\ Len(inflight_tag_check') = Len(inflight_tag_check) + n
    /\ upper' \in [Upper -> ChannelOf(Request, Response)]
    /\ \A v \in Upper, p \in RequestQueues :
          upper'[v][p] = IF v = u /\ p = q
                           THEN SubSeq(upper[u][q], n + 1, Len(upper[u][q]))
                           ELSE upper[v][p]
    /\ \A v \in Upper : upper'[v].returned = upper[v].returned
    /\ budget' = budget - n

\* From one queue of one upper level the first n requests move to the end of the
\* pipeline, each as a lookup.
LEMMA UpperMoves ==
  ASSUME CacheTyped, NEW k \in 1 .. NumSources, InitiateFromUpper(k)
  PROVE  \E u, q, n, taken : UpperParts(u, q, n, taken)
<1> DEFINE u == SourceUpper(k)
           q == SourceQueue(k)
           n == Takable(k)
           reqs == upper[u][q]
           taken == [i \in 1 .. n |-> Lookup(Waiting(k)[i], u)]
           rest == SubSeq(reqs, n + 1, Len(reqs))
<1>1. u \in Upper
  <2>1. Cardinality(Upper) \in Nat /\ k \in 1 .. 3 * Cardinality(Upper)
    BY Bounds DEF NumSources
  <2>2. \A c \in Nat : \A j \in 1 .. 3 * c : ((j - 1) \div 3) + 1 \in 1 .. c
    OBVIOUS
  <2>3. ((k - 1) \div 3) + 1 \in 1 .. Cardinality(Upper)
    BY <2>1, <2>2
  <2>4. QED
    BY <2>3 DEF SourceUpper, CacheTyped
<1>2. q \in RequestQueues
  <2>1. k \in Nat /\ k >= 1
    BY Bounds DEF NumSources
  <2>2. (k - 1) % 3 \in 0 .. 2
    BY <2>1
  <2>3. ((k - 1) % 3) + 1 \in {1, 2, 3}
    BY <2>2
  <2>4. QED
    BY <2>3 DEF SourceQueue, RequestQueues
<1>3. reqs \in Seq(Request) /\ Waiting(k) = reqs
  BY <1>1, <1>2 DEF CacheTyped, ChannelOf, RequestQueues, Waiting
<1>4. Min({share, budget}) \in Nat /\ Min({share, budget}) <= budget /\ budget \in Nat
  <2>1. share \in Nat /\ budget \in Nat
    BY Bounds DEF CacheTyped
  <2>2. Min({share, budget}) = IF share <= budget THEN share ELSE budget
    BY <2>1, MinOfTwo
  <2>3. QED
    BY <2>1, <2>2
<1>5. n > 0 /\ budget' = budget - n
  BY DEF InitiateFromUpper
<1>6. /\ n \in 0 .. Len(reqs) /\ n <= Min({share, budget})
      /\ \A i \in 1 .. n : avail \/ reqs[i].translated
  <2>1. n = Passing(reqs, Min({share, budget}), CanTranslate)
    BY <1>3 DEF Takable
  <2> HIDE DEF n, reqs
  <2>2. QED
    BY <2>1, <1>3, <1>4, PassingCanTranslate
<1>7. inflight_tag_check' = inflight_tag_check \o taken
      /\ upper' = [upper EXCEPT ![u][q] = rest]
  BY DEF InitiateFromUpper, Waiting
<1> HIDE DEF n, u, q
<1>8. Len(reqs) \in Nat /\ n \in 1 .. Len(reqs) /\ n <= budget /\ n \in Nat
  <2>1. Len(reqs) \in Nat
    BY <1>3, LenProperties
  <2>2. QED
    BY <2>1, <1>4, <1>5, <1>6
<1>9. \A i \in 1 .. n : /\ taken[i] = Lookup(reqs[i], u) /\ reqs[i] \in Request
                        /\ Lookup(reqs[i], u) \in TagLookup
                        /\ Lookup(reqs[i], u).translated = reqs[i].translated
  <2>1. \A i \in 1 .. n : reqs[i] \in Request
    BY <1>3, <1>8, ElementOfSeq
  <2>2. \A i \in 1 .. n : Lookup(reqs[i], u) \in TagLookup
    BY <2>1, <1>1, LookupType
  <2>3. \A i \in 1 .. n : taken[i] = Lookup(reqs[i], u)
    BY <1>3
  <2>4. \A i \in 1 .. n : Lookup(reqs[i], u).translated = reqs[i].translated
    BY DEF Lookup
  <2>5. QED
    BY <2>1, <2>2, <2>3, <2>4
<1>10. taken \in Seq(TagLookup) /\ Len(taken) = n
  <2>1. taken \in [1 .. n -> TagLookup]
    <3>1. taken = [i \in 1 .. n |-> Lookup(reqs[i], u)]
      BY <1>3
    <3> HIDE DEF taken
    <3>2. QED
      BY <3>1, <1>9
  <2> HIDE DEF taken
  <2>2. QED
    BY <2>1, <1>8, FunctionIsSequence
<1>11. rest \in Seq(Request)
  BY <1>3, <1>6, CountSplit
<1> HIDE DEF taken
<1>12. /\ inflight_tag_check' \in Seq(TagLookup)
       /\ Len(inflight_tag_check') = Len(inflight_tag_check) + n
  BY <1>7, <1>10, ConcatProperties DEF CacheTyped
<1>13. /\ upper' \in [Upper -> ChannelOf(Request, Response)]
       /\ \A v \in Upper, p \in RequestQueues :
             upper'[v][p] = IF v = u /\ p = q THEN rest ELSE upper[v][p]
       /\ \A v \in Upper : upper'[v].returned = upper[v].returned
  <2> HIDE DEF rest
  <2>1. upper \in [Upper -> ChannelOf(Request, Response)]
    BY DEF CacheTyped
  <2>2. upper' = [upper EXCEPT ![u] = [upper[u] EXCEPT ![q] = rest]]
    BY <1>7
  <2>3. /\ [upper[u] EXCEPT ![q] = rest] \in ChannelOf(Request, Response)
        /\ \A p \in RequestQueues :
              [upper[u] EXCEPT ![q] = rest][p] = IF p = q THEN rest ELSE upper[u][p]
        /\ [upper[u] EXCEPT ![q] = rest].returned = upper[u].returned
    BY <2>1, <1>1, <1>2, <1>11 DEF ChannelOf, RequestQueues
  <2> DEFINE c == [upper[u] EXCEPT ![q] = rest]
  <2> HIDE DEF c
  <2>4. upper' = [upper EXCEPT ![u] = c]
    BY <2>2 DEF c
  <2>5. /\ c \in ChannelOf(Request, Response)
        /\ \A p \in RequestQueues : c[p] = IF p = q THEN rest ELSE upper[u][p]
        /\ c.returned = upper[u].returned
    BY <2>3 DEF c
  <2>6. QED
    BY <2>1, <2>4, <2>5, <1>1
<1>14. UpperParts(u, q, n, taken)
  BY <1>1, <1>2, <1>3, <1>5, <1>6, <1>7, <1>8, <1>9, <1>10, <1>12, <1>13 DEF UpperParts
<1>15. QED
  BY <1>14

\* The cache's own prefetches start like the lookups of the stash.
PrefetchParts(n, moved) ==
    /\ n \in 1 .. Len(internal_PQ) /\ n <= budget
    /\ moved \in Seq(TagLookup) /\ Len(moved) = n
    /\ \A i \in 1 .. n : /\ Alike(moved[i], internal_PQ[i])
                         /\ moved[i].translated = internal_PQ[i].translated
                         /\ moved[i].issued = internal_PQ[i].issued
                         /\ avail \/ moved[i].translated
    /\ inflight_tag_check' = inflight_tag_check \o moved
    /\ inflight_tag_check' \in Seq(TagLookup)
    /\ Len(inflight_tag_check') = Len(inflight_tag_check) + n
    /\ internal_PQ' = SubSeq(internal_PQ, n + 1, Len(internal_PQ))
    /\ internal_PQ' \in Seq(TagLookup) /\ Len(internal_PQ') = Len(internal_PQ) - n
    /\ budget' = budget - n

\* The first n prefetches of the cache's own move to the end of the pipeline.
LEMMA PrefetchMoves ==
  ASSUME CacheTyped, InitiateFromPrefetches
  PROVE  \E n, moved : PrefetchParts(n, moved)
<1> DEFINE n == PrefetchesTakable
           first == SubSeq(internal_PQ, 1, n)
           moved == Restart(first)
           rest == SubSeq(internal_PQ, n + 1, Len(internal_PQ))
<1>1. /\ internal_PQ \in Seq(TagLookup) /\ inflight_tag_check \in Seq(TagLookup)
      /\ Len(internal_PQ) \in Nat /\ budget \in Nat
  BY Bounds, LenProperties DEF CacheTyped
<1>2. /\ n > 0 /\ budget' = budget - n
      /\ inflight_tag_check' = inflight_tag_check \o moved
      /\ internal_PQ' = rest
  BY DEF InitiateFromPrefetches
<1>3. /\ n \in 0 .. Len(internal_PQ) /\ n <= budget
      /\ \A i \in 1 .. n : avail \/ internal_PQ[i].translated
  BY <1>1, PassingCanTranslate DEF PrefetchesTakable
<1> HIDE DEF n
<1>4. /\ first \in Seq(TagLookup) /\ Len(first) = n
      /\ \A i \in 1 .. n : first[i] = internal_PQ[i]
      /\ rest \in Seq(TagLookup) /\ Len(rest) = Len(internal_PQ) - n
  BY <1>1, <1>3, CountSplit
<1> HIDE DEF first, rest
<1>5. /\ moved \in Seq(TagLookup) /\ Len(moved) = n
      /\ \A i \in 1 .. n : /\ Alike(moved[i], first[i])
                           /\ moved[i].translated = first[i].translated
                           /\ moved[i].issued = first[i].issued
  BY <1>4, RestartType
<1> HIDE DEF moved
<1>6. /\ inflight_tag_check' \in Seq(TagLookup)
      /\ Len(inflight_tag_check') = Len(inflight_tag_check) + n
  BY <1>1, <1>2, <1>5, ConcatProperties
<1>7. PrefetchParts(n, moved)
  BY SMTT(30), <1>1, <1>2, <1>3, <1>4, <1>5, <1>6 DEF PrefetchParts, rest
<1>8. QED
  BY <1>7

-----------------------------------------------------------------------------
(* The sizes the code relies on. *)

\* While operate() is not at the tag checks, no lookup is between two sequences;
\* what a cycle may still start is reserved in the pool.
Sized ==
    /\ \A u \in Upper, q \in RequestQueues : Len(upper[u][q]) <= UpperSize
    /\ \A q \in RequestQueues : Len(lower[q]) <= LowerSize
    /\ Len(MSHR) <= MshrSize
    /\ Len(internal_PQ) <= PqSize
    /\ Len(lower_translate.RQ) <= LowerSize
    /\ phase \notin {"hits", "misses"} => todo = << >> /\ kept = << >>
    /\ Len(inflight_tag_check) + Len(todo) + Len(kept)
          + (IF phase = "initiate" THEN budget ELSE 0) <= MaxTag * HitLatency

TypeInv == CacheTyped /\ Sized

\* The lookups counted over all the places they may be in.
LEMMA LookupsMany ==
  ASSUME CacheTyped
  PROVE  /\ Checks \in Seq(TagLookup) /\ Lookups \in Seq(TagLookup)
         /\ Len(Checks) = Len(inflight_tag_check) + Len(todo) + Len(kept)
         /\ \A D : Count(Checks, D) = Count(inflight_tag_check, D) + Count(todo, D) + Count(kept, D)
         /\ \A D : Count(Lookups, D) = Count(inflight_tag_check, D) + Count(todo, D)
                      + Count(kept, D) + Count(translation_stash, D)
<1> DEFINE some == inflight_tag_check \o todo
<1>1. /\ inflight_tag_check \in Seq(TagLookup) /\ todo \in Seq(TagLookup)
      /\ kept \in Seq(TagLookup) /\ translation_stash \in Seq(TagLookup)
  BY DEF CacheTyped
<1>2. /\ some \in Seq(TagLookup) /\ Len(some) = Len(inflight_tag_check) + Len(todo)
      /\ \A D : Count(some, D) = Count(inflight_tag_check, D) + Count(todo, D)
  BY <1>1, ConcatProperties, CountJoined
<1>3. Checks = some \o kept
  BY DEF Checks
<1> HIDE DEF some
<1>4. /\ Checks \in Seq(TagLookup) /\ Len(Checks) = Len(some) + Len(kept)
      /\ \A D : Count(Checks, D) = Count(some, D) + Count(kept, D)
  <2>1. \A D : Count(some \o kept, D) = Count(some, D) + Count(kept, D)
    BY <1>1, <1>2, CountJoined
  <2>2. some \o kept \in Seq(TagLookup) /\ Len(some \o kept) = Len(some) + Len(kept)
    BY <1>1, <1>2, ConcatProperties
  <2>3. QED
    BY <1>3, <2>1, <2>2
<1>5. /\ Lookups \in Seq(TagLookup)
      /\ \A D : Count(Lookups, D) = Count(Checks, D) + Count(translation_stash, D)
  BY <1>1, <1>4, ConcatProperties, CountJoined DEF Lookups
<1>6. QED
  BY <1>2, <1>4, <1>5

\* The inductive invariant implies the property checked.
LEMMA TypeInvImplies == TypeInv => CacheTypeOK
<1> SUFFICES ASSUME TypeInv PROVE CacheTypeOK
  OBVIOUS
<1>1. CacheTyped /\ Sized
  BY DEF TypeInv
<1>2. Lookups \in Seq(TagLookup) /\ Len(Checks) <= MaxTag * HitLatency
  <2>1. Len(Checks) = Len(inflight_tag_check) + Len(todo) + Len(kept)
    BY <1>1, LookupsMany
  <2>2. /\ Len(inflight_tag_check) \in Nat /\ Len(todo) \in Nat /\ Len(kept) \in Nat
        /\ budget \in Nat
    BY <1>1, LenProperties, Bounds DEF CacheTyped
  <2>3. QED
    BY <2>1, <2>2, <1>1, LookupsMany, Bounds DEF Sized
<1>3. \A u \in Upper, q \in RequestQueues :
         upper[u][q] \in Seq(Request) /\ upper[u].returned \in Seq(Response)
  BY <1>1 DEF CacheTyped, ChannelOf, RequestQueues
<1>4. \A u \in Upper : upper[u].returned \in Seq(Response)
  BY <1>3 DEF RequestQueues
<1>5. lower.returned \in Seq(Response)
  BY <1>1 DEF CacheTyped, ChannelOf
<1>6. QED
  BY <1>1, <1>2, <1>3, <1>4, <1>5 DEF CacheTyped, Sized, CacheTypeOK, Phases

\* Every step keeps the variables in their sets.
LEMMA TypedStep ==
  ASSUME TypeInv, CacheNext
  PROVE  CacheTyped'
<1>1. CacheTyped /\ Len(inflight_tag_check) <= MaxTag * HitLatency
  <2>1. /\ Len(inflight_tag_check) \in Nat /\ Len(todo) \in Nat /\ Len(kept) \in Nat
        /\ budget \in Nat
    BY LenProperties, Bounds DEF TypeInv, CacheTyped
  <2>2. QED
    BY <2>1, Bounds DEF TypeInv, Sized
<1>2. CASE StartCycle
  <2>1. inflight_fills' \in Seq(Fill)
    BY <1>1, <1>2, AgedFills DEF StartCycle, CacheTyped
  <2>2. inflight_tag_check' \in Seq(TagLookup)
    BY <1>1, <1>2, AgedLookups DEF StartCycle, CacheTyped
  <2>3. QED
    BY <1>1, <1>2, <2>1, <2>2 DEF StartCycle, CacheTyped, translateVars, Phases
<1>3. CASE FinishPacket
  <2>1. inflight_fills' \in Seq(Fill) /\ MSHR' \in Seq(Fill)
    <3> DEFINE m == IndexOf(MSHR, lower.returned[1].addr)
               f == [MSHR[m] EXCEPT !.wait = FillLatency]
    <3>1. f \in Fill /\ inflight_fills' = Append(inflight_fills, f) /\ MSHR' \in Seq(Fill)
      BY <1>1, <1>3, FinishPacketMoves
    <3> HIDE DEF f
    <3>2. QED
      BY <1>1, <3>1, AppendProperties DEF CacheTyped
  <2>2. lower' \in ChannelOf(LowerRequest, Response)
    BY <1>1, <1>3, AnswerRead DEF FinishPacket, CacheTyped
  <2>3. QED
    BY <1>1, <1>3, <2>1, <2>2 DEF FinishPacket, CacheTyped, translateVars, operateVars
<1>4. CASE FinishTranslation
  <2> DEFINE page == Head(lower_translate.returned)
  <2>1. translation_stash' = Restarted(translation_stash, page)
        /\ inflight_tag_check' = TranslatedAll(inflight_tag_check, page)
    BY <1>4 DEF FinishTranslation
  <2> HIDE DEF page
  <2>2. translation_stash' \in Seq(TagLookup) /\ inflight_tag_check' \in Seq(TagLookup)
    BY <1>1, <2>1, RestartedType, TranslatedType DEF CacheTyped
  <2>3. lower_translate' \in ChannelOf(Pages, Pages)
    BY <1>1, <1>4, AnswerRead DEF FinishTranslation, CacheTyped
  <2>4. QED
    BY <1>1, <1>4, <2>2, <2>3 DEF FinishTranslation, CacheTyped, operateVars
<1>5. CASE StartFills
  <2>1. budget' \in 0 .. MaxFill + MaxTag
    BY <1>5, Bounds DEF StartFills
  <2>2. QED
    BY <1>1, <1>5, <2>1 DEF StartFills, CacheTyped, translateVars, Phases
<1>6. ASSUME NEW w \in Way \cup {Bypass}, HandleFill(w)
      PROVE  CacheTyped'
  <2> DEFINE f == inflight_fills[1]
  <2>1. f \in Fill /\ f.addr \in Line /\ f.ids \in SUBSET Ids
    BY <1>1, <1>6, HandleFillMoves DEF Fill
  <2>2. upper' \in [Upper -> ChannelOf(Request, Response)]
    <3>1. upper' = Responded(upper, f)
      BY <1>1, <1>6, HandleFillMoves
    <3> HIDE DEF f
    <3>2. QED
      BY <1>1, <2>1, <3>1, RespondedType DEF CacheTyped
  <2>3. inflight_fills' \in Seq(Fill)
    BY <1>1, <1>6, HandleFillMoves
  <2>4. lower' \in ChannelOf(LowerRequest, Response) /\ written' \in SUBSET Line
    <3> DEFINE v == Victim(f, w)
    <3>1. \/ /\ Writeback(v) \in LowerRequest /\ lower' = Push(lower, "WQ", Writeback(v))
             /\ written' = written \ {v.addr}
          \/ UNCHANGED <<lower, written>>
      BY <1>1, <1>6, HandleFillMoves
    <3>2. "WQ" \in RequestQueues
      BY DEF RequestQueues
    <3> HIDE DEF v
    <3>3. QED
      BY <1>1, <3>1, <3>2, Pushed DEF CacheTyped
  <2>5. block' \in [CacheSets -> [Way -> [addr : Line, dirty : BOOLEAN] \cup {NoBlock}]]
    <3> DEFINE B == [addr : Line, dirty : BOOLEAN] \cup {NoBlock}
               b == FillBlock(f)
    <3>1. /\ w \in Way /\ block' = [block EXCEPT ![SetOf[f.addr]][w] = b]
          \/ block' = block
      BY <1>1, <1>6, HandleFillMoves
    <3>2. b \in B
      BY <1>1, <1>6, HandleFillMoves
    <3>3. block \in [CacheSets -> [Way -> B]] /\ SetOf[f.addr] \in CacheSets
      BY <1>1, <2>1, CacheAssumption DEF CacheTyped
    <3> HIDE DEF B, b, f
    <3>4. block' \in [CacheSets -> [Way -> B]]
      BY <3>1, <3>2, <3>3
    <3>5. QED
      BY <3>4 DEF B
  <2>6. budget' \in 0 .. MaxFill + MaxTag
    BY <1>1, <1>6, Bounds DEF HandleFill, NextFillReady, CacheTyped
  <2> HIDE DEF f
  <2>7. QED
    BY <1>1, <1>6, <2>2, <2>3, <2>4, <2>5, <2>6 DEF HandleFill, CacheTyped, translateVars
<1>7. CASE StartInitiate
  <2>1. PICK n, moved : InitiateParts(n, moved)
    BY <1>1, <1>7, InitiateMoves
  <2>2. /\ inflight_tag_check' \in Seq(TagLookup) /\ translation_stash' \in Seq(TagLookup)
        /\ budget' \in 0 .. MaxTag
    BY <2>1 DEF InitiateParts
  <2>3. budget' \in 0 .. MaxFill + MaxTag
    BY <2>2, Bounds
  <2>4. share' \in Nat
    <3> DEFINE d == budget' \div Cardinality(Upper)
    <3>1. share' = Max({d, 1})
      BY <1>7 DEF StartInitiate
    <3>2. \A b \in Nat, c \in Nat \ {0} : b \div c \in Nat
      OBVIOUS
    <3>3. d \in Nat
      BY <2>2, <3>2, Bounds
    <3> HIDE DEF d
    <3>4. Max({d, 1}) = IF d <= 1 THEN 1 ELSE d
      BY <3>3, MaxOfTwo
    <3>5. QED
      BY <3>1, <3>3, <3>4
  <2>5. avail' \in BOOLEAN /\ source' \in Nat /\ phase' \in Phases
    BY <1>7 DEF StartInitiate, Phases
  <2>6. upper_levels' \in [1 .. Cardinality(Upper) -> Upper]
    <3>1. upper_levels' = Rotated(upper_levels)
      BY <1>7 DEF StartInitiate
    <3>2. upper_levels \in Seq(Upper) /\ Len(upper_levels) = Cardinality(Upper)
      <4>1. upper_levels \in [1 .. Cardinality(Upper) -> Upper] /\ Cardinality(Upper) \in Nat
        BY <1>1, Bounds DEF CacheTyped
      <4>2. QED
        BY <4>1, FunctionIsSequence
    <3>3. CASE Len(upper_levels) > 1
      <4>1. upper_levels # << >>
        BY <3>2, <3>3
      <4>2. /\ Tail(upper_levels) \in Seq(Upper) /\ Head(upper_levels) \in Upper
            /\ Len(Tail(upper_levels)) = Len(upper_levels) - 1 /\ Len(upper_levels) \in Nat
        BY <3>2, <4>1, CountTail
      <4> DEFINE t == Tail(upper_levels)
                 h == Head(upper_levels)
      <4> HIDE DEF t, h
      <4>3. Append(t, h) \in Seq(Upper) /\ Len(Append(t, h)) = Len(t) + 1
        BY <4>2, AppendProperties DEF t, h
      <4>4. upper_levels' = Append(t, h)
        BY <3>1, <3>3 DEF Rotated, t, h
      <4>5. upper_levels' \in Seq(Upper) /\ Len(upper_levels') = Cardinality(Upper)
        BY <4>2, <4>3, <4>4, <3>2 DEF t
      <4>6. QED
        BY <4>5, LenProperties
    <3>4. CASE ~(Len(upper_levels) > 1)
      <4>1. upper_levels' = upper_levels
        BY <3>1, <3>4 DEF Rotated
      <4>2. QED
        BY <1>1, <4>1 DEF CacheTyped
    <3>5. QED
      BY <3>3, <3>4
  <2>7. QED
    BY <1>1, <1>7, <2>2, <2>3, <2>4, <2>5, <2>6 DEF StartInitiate, CacheTyped
<1>8. ASSUME NEW k \in 1 .. NumSources, InitiateFromUpper(k)
      PROVE  CacheTyped'
  <2>1. PICK u, q, n, taken : UpperParts(u, q, n, taken)
    BY <1>1, <1>8, UpperMoves
  <2>2. /\ inflight_tag_check' \in Seq(TagLookup)
        /\ upper' \in [Upper -> ChannelOf(Request, Response)]
    BY <2>1 DEF UpperParts
  <2>3. budget' \in 0 .. MaxFill + MaxTag
    <3>1. n \in Nat /\ n <= budget /\ budget' = budget - n
      <4>1. n \in 1 .. Len(upper[u][q]) /\ upper[u][q] \in Seq(Request)
            /\ n <= budget /\ budget' = budget - n
        BY <2>1 DEF UpperParts
      <4>2. QED
        BY <4>1, LenProperties
    <3>2. QED
      BY <1>1, <3>1, Bounds DEF CacheTyped
  <2>4. source' \in Nat
    <3>1. source' = k + 1
      BY <1>8 DEF InitiateFromUpper
    <3>2. k \in Nat
      BY Bounds DEF NumSources
    <3>3. QED
      BY <3>1, <3>2
  <2>5. QED
    BY <1>1, <1>8, <2>2, <2>3, <2>4 DEF InitiateFromUpper, CacheTyped, translateVars
<1>9. CASE InitiateFromPrefetches
  <2>1. PICK n, moved : PrefetchParts(n, moved)
    BY <1>1, <1>9, PrefetchMoves
  <2>2. inflight_tag_check' \in Seq(TagLookup) /\ internal_PQ' \in Seq(TagLookup)
    BY <2>1 DEF PrefetchParts
  <2>3. budget' \in 0 .. MaxFill + MaxTag
    <3>1. n \in 1 .. Len(internal_PQ) /\ n <= budget /\ budget' = budget - n
      BY <2>1 DEF PrefetchParts
    <3>2. Len(internal_PQ) \in Nat
      BY <1>1, LenProperties DEF CacheTyped
    <3>3. QED
      BY <1>1, <3>1, <3>2, Bounds DEF CacheTyped
  <2>4. source' \in Nat
    BY <1>9, Bounds DEF InitiateFromPrefetches, NumSources
  <2>5. QED
    BY <1>1, <1>9, <2>2, <2>3, <2>4 DEF InitiateFromPrefetches, CacheTyped, translateVars
<1>10. CASE StartTagChecks
  <2>1. /\ inflight_tag_check' \in Seq(TagLookup) /\ todo' \in Seq(TagLookup)
        /\ translation_stash' \in Seq(TagLookup)
    BY <1>1, <1>10, TagChecksShared DEF CacheTyped
  <2>2. lower_translate' \in ChannelOf(Pages, Pages)
    <3> DEFINE lookups == inflight_tag_check \o translation_stash
               s == lower_translate.RQ \o PagesOf(lookups)
    <3>1. lookups \in Seq(TagLookup)
      BY <1>1, ConcatProperties DEF CacheTyped
    <3>2. lower_translate \in ChannelOf(Pages, Pages)
      BY <1>1 DEF CacheTyped
    <3>3. lower_translate' = [lower_translate EXCEPT !.RQ = s]
      BY <1>10 DEF StartTagChecks
    <3> HIDE DEF lookups
    <3>4. PagesOf(lookups) \in Seq(Pages)
      BY <3>1, <3>2, IssueRoom
    <3>5. s \in Seq(Pages)
      BY <3>2, <3>4, ConcatProperties DEF ChannelOf
    <3> HIDE DEF s
    <3>6. QED
      BY <3>2, <3>3, <3>5 DEF ChannelOf
  <2>3. budget' \in 0 .. MaxFill + MaxTag /\ share' \in Nat /\ source' \in Nat
        /\ avail' \in BOOLEAN /\ phase' \in Phases
    <3>1. budget' = 0 /\ share' = 0 /\ source' = 0 /\ avail' = FALSE /\ phase' = "hits"
      BY <1>10 DEF StartTagChecks
    <3>2. 0 \in 0 .. MaxFill + MaxTag
      BY Bounds
    <3>3. QED
      BY <3>1, <3>2 DEF Phases
  <2>4. QED
    BY <1>1, <1>10, <2>1, <2>2, <2>3 DEF StartTagChecks, CacheTyped
<1>11. CASE TryHit
  <2> DEFINE pkt == todo[1]
             w == Min(HitWays(pkt.addr))
  <2>1. /\ pkt = Head(todo) /\ pkt \in TagLookup /\ todo' \in Seq(TagLookup)
    BY <1>1, <1>11, FirstOfTodo DEF TryHit
  <2>2. /\ upper' = Responded(upper, pkt) /\ block' = Touched(pkt, w)
        /\ written' = (IF pkt.type = "WRITE" THEN written \cup {pkt.addr} ELSE written)
        /\ HitWays(pkt.addr) # {}
    BY <1>11, <2>1 DEF TryHit
  <2>3. pkt.addr \in Line /\ pkt.ids \in SUBSET Ids /\ SetOf[pkt.addr] \in CacheSets
    BY <2>1, CacheAssumption DEF TagLookup
  <2>4. upper' \in [Upper -> ChannelOf(Request, Response)]
    <3> HIDE DEF pkt
    <3>1. QED
      BY <1>1, <2>2, <2>3, RespondedType DEF CacheTyped
  <2>5. written' \in SUBSET Line
    <3> HIDE DEF pkt
    <3>1. QED
      BY <1>1, <2>2, <2>3 DEF CacheTyped
  <2>6. w \in Way /\ block[SetOf[pkt.addr]][w] # NoBlock
    <3>1. HitWays(pkt.addr) \in SUBSET Nat
      BY DEF HitWays, Way
    <3>2. w \in HitWays(pkt.addr)
      BY <2>2, <3>1, MinOf
    <3>3. QED
      BY <3>2 DEF HitWays
  <2>7. block' \in [CacheSets -> [Way -> [addr : Line, dirty : BOOLEAN] \cup {NoBlock}]]
    <3> DEFINE R == [addr : Line, dirty : BOOLEAN]
               B == R \cup {NoBlock}
               s == SetOf[pkt.addr]
               b == block[s][w]
               b2 == [b EXCEPT !.dirty = b.dirty \/ pkt.type = "WRITE"]
    <3>1. block \in [CacheSets -> [Way -> B]] /\ s \in CacheSets /\ w \in Way
      BY <1>1, <2>3, <2>6 DEF CacheTyped
    <3>2. b \in R
      <4> HIDE DEF s, w
      <4>1. b \in B
        BY <3>1
      <4>2. QED
        BY <4>1, <2>6 DEF s
    <3>3. b2 \in B
      <4> HIDE DEF b
      <4>1. (b.dirty \/ pkt.type = "WRITE") \in BOOLEAN
        OBVIOUS
      <4>2. b2 \in R
        BY <3>2, <4>1
      <4>3. QED
        BY <4>2
    <3>4. block' = [block EXCEPT ![s][w] = b2]
      BY <2>2 DEF Touched
    <3> HIDE DEF B, b2, s, w
    <3>5. block' \in [CacheSets -> [Way -> B]]
      BY <3>1, <3>3, <3>4
    <3>6. QED
      BY <3>5 DEF B
  <2> HIDE DEF pkt, w
  <2>8. QED
    BY <1>1, <1>11, <2>1, <2>4, <2>5, <2>7 DEF TryHit, CacheTyped, translateVars
<1>12. CASE TryMiss
  <2>1. todo' \in Seq(TagLookup) /\ todo[1] \in TagLookup /\ kept' = Append(kept, Told(todo[1]))
    BY <1>1, <1>12, FirstOfTodo DEF TryMiss
  <2>2. kept' \in Seq(TagLookup)
    <3>1. Told(todo[1]) \in TagLookup
      BY <2>1, ToldType
    <3>2. QED
      BY <1>1, <2>1, <3>1, AppendProperties DEF CacheTyped
  <2>3. QED
    BY <1>1, <1>12, <2>1, <2>2 DEF TryMiss, CacheTyped, translateVars
<1>13. CASE StartMisses
  <2>1. << >> \in Seq(TagLookup)
    BY EmptySeq
  <2>2. QED
    BY <1>1, <1>13, <2>1 DEF StartMisses, CacheTyped, translateVars, Phases
<1>14. CASE HandleWrite
  <2>1. todo' \in Seq(TagLookup) /\ todo[1] \in TagLookup /\ Head(todo) = todo[1]
    BY <1>1, <1>14, FirstOfTodo DEF HandleWrite
  <2>2. inflight_fills' \in Seq(Fill)
    <3>1. ToFill(todo[1]) \in Fill
      BY <2>1, ToFillType
    <3>2. QED
      BY <1>1, <1>14, <2>1, <3>1, AppendProperties DEF HandleWrite, CacheTyped
  <2>3. written' \in SUBSET Line
    <3>1. todo[1].addr \in Line
      BY <2>1 DEF TagLookup
    <3>2. QED
      BY <1>1, <1>14, <2>1, <3>1 DEF HandleWrite, CacheTyped
  <2>4. QED
    BY <1>1, <1>14, <2>1, <2>2, <2>3 DEF HandleWrite, CacheTyped, translateVars
<1>15. CASE MergeMiss
  <2> DEFINE pkt == todo[1]
             m == InMSHR(pkt)
             f == InFills(pkt)
  <2>1. todo' \in Seq(TagLookup) /\ pkt \in TagLookup /\ Head(todo) = pkt
    BY <1>1, <1>15, FirstOfTodo DEF MergeMiss, NextMiss
  <2>2. MSHR \in Seq(Fill) /\ inflight_fills \in Seq(Fill)
    BY <1>1 DEF CacheTyped
  <2>3. \/ /\ m # 0 /\ MSHR' = [MSHR EXCEPT ![m] = Merge(MSHR[m], ToFill(pkt))]
           /\ UNCHANGED inflight_fills
        \/ /\ f # 0
           /\ inflight_fills' = [inflight_fills EXCEPT ![f] = Merge(inflight_fills[f], ToFill(pkt))]
           /\ UNCHANGED MSHR
    BY <1>15, <2>1 DEF MergeMiss
  <2>4. MSHR' \in Seq(Fill) /\ inflight_fills' \in Seq(Fill)
    <3>1. m # 0 => [MSHR EXCEPT ![m] = Merge(MSHR[m], ToFill(pkt))] \in Seq(Fill)
      BY <2>1, <2>2, MergedIn DEF MergesIn, InMSHR
    <3>2. f # 0 => [inflight_fills EXCEPT ![f] = Merge(inflight_fills[f], ToFill(pkt))] \in Seq(Fill)
      BY <2>1, <2>2, MergedIn DEF MergesIn, InFills
    <3>3. QED
      BY <2>2, <2>3, <3>1, <3>2
  <2>5. written' \in SUBSET Line
    <3>1. pkt.addr \in Line
      BY <2>1 DEF TagLookup
    <3>2. QED
      BY <1>1, <1>15, <2>1, <3>1 DEF MergeMiss, CacheTyped
  <2>6. QED
    BY <1>1, <1>15, <2>1, <2>4, <2>5 DEF MergeMiss, CacheTyped, translateVars
<1>16. CASE ForwardMiss
  <2> DEFINE pkt == todo[1]
  <2>1. /\ todo' \in Seq(TagLookup) /\ pkt \in TagLookup /\ Head(todo) = pkt
    BY <1>1, <1>16, FirstOfTodo DEF ForwardMiss, NewMiss, NextMiss
  <2>2. /\ lower' = Push(lower, ForwardQueue(pkt), Forward(pkt))
        /\ MSHR' = (IF pkt.skip THEN MSHR ELSE Append(MSHR, ToFill(pkt)))
        /\ written' = (IF pkt.type = "WRITE" THEN written \cup {pkt.addr} ELSE written)
    BY <1>16, <2>1 DEF ForwardMiss
  <2>3. Forward(pkt) \in LowerRequest /\ ForwardQueue(pkt) \in RequestQueues
    <3>1. /\ pkt.addr \in Line /\ pkt.type \in Types /\ pkt.ids \in SUBSET Ids
          /\ pkt.skip \in BOOLEAN
      BY <2>1 DEF TagLookup
    <3> HIDE DEF pkt
    <3>2. QED
      BY <3>1 DEF Forward, LowerRequest, ForwardQueue, RequestQueues
  <2>4. lower' \in ChannelOf(LowerRequest, Response)
    BY <1>1, <2>2, <2>3, Pushed DEF CacheTyped
  <2>5. MSHR' \in Seq(Fill)
    <3>1. ToFill(pkt) \in Fill
      BY <2>1, ToFillType
    <3>2. QED
      BY <1>1, <2>2, <3>1, AppendProperties DEF CacheTyped
  <2>6. written' \in SUBSET Line
    BY <1>1, <2>1, <2>2 DEF CacheTyped, TagLookup
  <2>7. QED
    BY <1>1, <1>16, <2>1, <2>4, <2>5, <2>6 DEF ForwardMiss, CacheTyped, translateVars
<1>17. CASE StallMiss
  <2>1. todo' \in Seq(TagLookup) /\ todo[1] \in TagLookup /\ kept' = Append(kept, todo[1])
    BY <1>1, <1>17, FirstOfTodo DEF StallMiss, NewMiss, NextMiss
  <2>2. kept' \in Seq(TagLookup)
    BY <1>1, <2>1, AppendProperties DEF CacheTyped
  <2>3. QED
    BY <1>1, <1>17, <2>1, <2>2 DEF StallMiss, CacheTyped, translateVars
<1>18. CASE EndCycle
  <2>1. inflight_tag_check' \in Seq(TagLookup)
    BY <1>1, <1>18, ConcatProperties DEF EndCycle, CacheTyped
  <2>2. << >> \in Seq(TagLookup)
    BY EmptySeq
  <2>3. QED
    BY <1>1, <1>18, <2>1, <2>2 DEF EndCycle, CacheTyped, translateVars, Phases
<1>19. ASSUME NEW u \in Upper, Receive(u)
       PROVE  CacheTyped'
  <2> DEFINE c == [upper[u] EXCEPT !.returned = << >>]
  <2>1. upper \in [Upper -> ChannelOf(Request, Response)] /\ << >> \in Seq(Response)
    BY <1>1, EmptySeq DEF CacheTyped
  <2>2. c \in ChannelOf(Request, Response)
    BY <2>1 DEF ChannelOf
  <2>3. upper' = [upper EXCEPT ![u] = c]
    BY <1>19 DEF Receive
  <2> HIDE DEF c
  <2>4. upper' \in [Upper -> ChannelOf(Request, Response)]
    BY <2>1, <2>2, <2>3
  <2>5. QED
    BY <1>1, <1>19, <2>4 DEF Receive, CacheTyped, translateVars, operateVars
<1>20. ASSUME NEW u \in Upper, NEW q \in RequestQueues, NEW type \in Types, NEW a \in Line,
              Ask(u, q, type, a)
       PROVE  CacheTyped'
  <2> DEFINE x == [addr |-> a, type |-> type, respond |-> TRUE,
                   ids |-> {Len(asked) + 1}, translated |-> ~Translates]
             c == Push(upper[u], q, x)
  <2>1. Len(asked) + 1 \in Ids
    <3>1. asked \in Seq(Upper) /\ others \in Nat /\ Len(asked) + others < MaxRequests
      BY <1>1, <1>20 DEF CacheTyped, Ask, MoreRequests
    <3>2. Len(asked) \in Nat
      BY <3>1, LenProperties
    <3>3. QED
      BY <3>1, <3>2, Bounds DEF Ids
  <2>2. x \in Request
    BY <2>1 DEF Request
  <2>3. upper \in [Upper -> ChannelOf(Request, Response)] /\ upper' = [upper EXCEPT ![u] = c]
    BY <1>1, <1>20 DEF CacheTyped, Ask
  <2>4. c \in ChannelOf(Request, Response)
    <3> HIDE DEF x
    <3>1. upper[u] \in ChannelOf(Request, Response)
      BY <2>3
    <3>2. QED
      BY <2>2, <3>1, Pushed
  <2> HIDE DEF c
  <2>5. upper' \in [Upper -> ChannelOf(Request, Response)]
    BY <2>3, <2>4
  <2>6. asked' \in Seq(Upper)
    BY <1>1, <1>20, AppendProperties DEF Ask, CacheTyped
  <2>7. QED
    BY <1>1, <1>20, <2>5, <2>6 DEF Ask, CacheTyped, translateVars, operateVars
<1>21. ASSUME NEW u \in Upper, NEW q \in RequestQueues, NEW type \in Types, NEW a \in Line,
              Send(u, q, type, a)
       PROVE  CacheTyped'
  <2> DEFINE x == [addr |-> a, type |-> type, respond |-> FALSE,
                   ids |-> {}, translated |-> ~Translates]
             c == Push(upper[u], q, x)
  <2>1. x \in Request
    BY DEF Request
  <2>2. upper \in [Upper -> ChannelOf(Request, Response)] /\ upper' = [upper EXCEPT ![u] = c]
    BY <1>1, <1>21 DEF CacheTyped, Send
  <2>3. c \in ChannelOf(Request, Response)
    <3> HIDE DEF x
    <3>1. upper[u] \in ChannelOf(Request, Response)
      BY <2>2
    <3>2. QED
      BY <2>1, <3>1, Pushed
  <2> HIDE DEF c
  <2>4. upper' \in [Upper -> ChannelOf(Request, Response)]
    BY <2>2, <2>3
  <2>5. others' \in Nat
    BY <1>1, <1>21 DEF Send, CacheTyped
  <2>6. QED
    BY <1>1, <1>21, <2>4, <2>5 DEF Send, CacheTyped, translateVars, operateVars
<1>22. ASSUME NEW a \in Line, NEW fillThisLevel \in BOOLEAN, PrefetchLine(a, fillThisLevel)
       PROVE  CacheTyped'
  <2> DEFINE x == [addr |-> a, type |-> "PREFETCH", ids |-> {}, to_return |-> {},
                   skip |-> ~fillThisLevel, wait |-> HitLatency, told |-> 0,
                   translated |-> ~(Translates /\ VirtualPrefetch), issued |-> FALSE]
  <2>1. x \in TagLookup
    BY Bounds DEF TagLookup, Types
  <2>2. internal_PQ' = Append(internal_PQ, x) /\ others' \in Nat
    BY <1>1, <1>22 DEF PrefetchLine, CacheTyped
  <2> HIDE DEF x
  <2>3. internal_PQ' \in Seq(TagLookup)
    BY <1>1, <2>1, <2>2, AppendProperties DEF CacheTyped
  <2>4. QED
    BY <1>1, <1>22, <2>2, <2>3 DEF PrefetchLine, CacheTyped, translateVars, operateVars
<1>23. ASSUME NEW a \in Line, LowerAnswer(a)
       PROVE  CacheTyped'
  <2> DEFINE x == [addr |-> a, ids |-> {}]
  <2>1. x \in Response
    BY DEF Response
  <2>2. lower' = Push(lower, "returned", x)
    BY <1>23 DEF LowerAnswer
  <2> HIDE DEF x
  <2>3. lower' \in ChannelOf(LowerRequest, Response)
    BY <1>1, <2>1, <2>2, Answered DEF CacheTyped
  <2>4. atLower' \in [Line -> Nat]
    <3>1. atLower[a] - 1 \in Nat
      BY <1>1, <1>23 DEF LowerAnswer, CacheTyped
    <3>2. QED
      BY <1>1, <1>23, <3>1 DEF LowerAnswer, CacheTyped
  <2>5. QED
    BY <1>1, <1>23, <2>3, <2>4 DEF LowerAnswer, CacheTyped, translateVars, operateVars
<1>24. ASSUME NEW q \in RequestQueues, LowerTake(q)
       PROVE  CacheTyped'
  <2>1. lower \in ChannelOf(LowerRequest, Response) /\ lower[q] # << >> /\ lower' = Pop(lower, q)
    BY <1>1, <1>24 DEF LowerTake, CacheTyped
  <2>2. lower' \in ChannelOf(LowerRequest, Response) /\ lower[q] \in Seq(LowerRequest)
    BY <2>1, Popped
  <2>3. atLower' \in [Line -> Nat]
    <3> DEFINE h == Head(lower[q])
    <3>1. h \in LowerRequest
      BY <2>1, <2>2, CountTail
    <3>2. atLower' = IF h.respond THEN [atLower EXCEPT ![h.addr] = atLower[h.addr] + 1]
                                  ELSE atLower
      BY <1>24 DEF LowerTake
    <3>3. h.addr \in Line
      BY <3>1 DEF LowerRequest
    <3> HIDE DEF h
    <3>4. QED
      BY <1>1, <3>2, <3>3 DEF CacheTyped
  <2>4. QED
    BY <1>1, <1>24, <2>2, <2>3 DEF LowerTake, CacheTyped, translateVars, operateVars
<1>25. CASE TranslateTake
  <2>1. "RQ" \in RequestQueues
    BY DEF RequestQueues
  <2>2. lower_translate' \in ChannelOf(Pages, Pages) /\ lower_translate["RQ"] \in Seq(Pages)
    BY <1>1, <1>25, <2>1, Popped DEF TranslateTake, CacheTyped
  <2>3. atTLB' \in [Pages -> Nat]
    <3> DEFINE page == Head(lower_translate.RQ)
    <3>1. page \in Pages
      BY <1>25, <2>2, CountTail DEF TranslateTake
    <3>2. atTLB' = [atTLB EXCEPT ![page] = atTLB[page] + 1] \/ atTLB' = atTLB
      BY <1>25 DEF TranslateTake
    <3>3. atTLB \in [Pages -> Nat]
      BY <1>1 DEF CacheTyped
    <3> HIDE DEF page
    <3>4. atTLB[page] + 1 \in Nat
      BY <3>1, <3>3
    <3>5. QED
      BY <3>1, <3>2, <3>3, <3>4
  <2>4. QED
    BY <1>1, <1>25, <2>2, <2>3 DEF TranslateTake, CacheTyped, operateVars
<1>26. ASSUME NEW page \in Pages, TranslateAnswer(page)
       PROVE  CacheTyped'
  <2>1. lower_translate' \in ChannelOf(Pages, Pages)
    BY <1>1, <1>26, Answered DEF TranslateAnswer, CacheTyped
  <2>2. atTLB' \in [Pages -> Nat]
    <3>1. atTLB[page] - 1 \in Nat
      BY <1>1, <1>26 DEF TranslateAnswer, CacheTyped
    <3>2. QED
      BY <1>1, <1>26, <3>1 DEF TranslateAnswer, CacheTyped
  <2>3. QED
    BY <1>1, <1>26, <2>1, <2>2 DEF TranslateAnswer, CacheTyped, operateVars
<1>27. QED
  BY <1>2, <1>3, <1>4, <1>5, <1>6, <1>7, <1>8, <1>9, <1>10, <1>11, <1>12, <1>13, <1>14,
     <1>15, <1>16, <1>17, <1>18, <1>19, <1>20, <1>21, <1>22, <1>23, <1>24, <1>25, <1>26
     DEF CacheNext, Operate, Environment

\* EXCEPT for the steps below, nothing the sizes speak of grows.
LEMMA SizedStep ==
  ASSUME TypeInv, CacheNext
  PROVE  Sized'
<1>1. CacheTyped /\ Sized /\ CacheTyped'
  BY TypedStep DEF TypeInv
<1>2. /\ Len(inflight_tag_check) \in Nat /\ Len(todo) \in Nat /\ Len(kept) \in Nat
      /\ budget \in Nat /\ budget' \in Nat /\ Len(MSHR) \in Nat /\ Len(internal_PQ) \in Nat
      /\ MaxTag * HitLatency \in Nat
  BY <1>1, LenProperties, Bounds DEF CacheTyped
<1>s. ASSUME UNCHANGED <<upper, lower, MSHR, internal_PQ, lower_translate>>,
             phase' \notin {"hits", "misses"} => todo' = << >> /\ kept' = << >>,
             Len(inflight_tag_check') + Len(todo') + Len(kept')
                + (IF phase' = "initiate" THEN budget' ELSE 0) <= MaxTag * HitLatency
      PROVE  Sized'
  BY <1>1, <1>s DEF Sized
\* The lookups stay where they are.
<1>l. ASSUME UNCHANGED <<inflight_tag_check, todo, kept, budget, phase>>,
             \A u \in Upper, q \in RequestQueues : Len(upper'[u][q]) <= UpperSize,
             \A q \in RequestQueues : Len(lower'[q]) <= LowerSize,
             Len(MSHR') <= MshrSize,
             Len(internal_PQ') <= PqSize,
             Len(lower_translate'.RQ) <= LowerSize
      PROVE  Sized'
  BY <1>1, <1>l DEF Sized
<1>3. CASE StartCycle
  <2>1. Len(inflight_tag_check') = Len(inflight_tag_check)
    BY <1>1, <1>3, AgedLookups DEF StartCycle, CacheTyped
  <2>2. phase = "outside" /\ phase' = "returns" /\ UNCHANGED <<todo, kept>>
        /\ UNCHANGED <<upper, lower, MSHR, internal_PQ, lower_translate>>
    BY <1>3 DEF StartCycle, translateVars
  <2>3. QED
    BY <1>1, <1>2, <1>s, <2>1, <2>2 DEF Sized
<1>4. CASE FinishPacket
  <2>1. Len(MSHR') = Len(MSHR) - 1
    BY <1>1, <1>4, FinishPacketMoves
  <2>2. \A q \in RequestQueues : lower'[q] = lower[q]
    <3>1. /\ lower \in ChannelOf(LowerRequest, Response) /\ lower.returned # << >>
          /\ lower' = Pop(lower, "returned")
      BY <1>1, <1>4 DEF FinishPacket, CacheTyped
    <3>2. QED
      BY <3>1, AnswerRead
  <2>3. UNCHANGED <<upper, internal_PQ, lower_translate, inflight_tag_check, todo, kept, budget, phase>>
    BY <1>4 DEF FinishPacket, translateVars, operateVars
  <2>4. QED
    BY SMTT(30), <1>1, <1>2, <2>1, <2>2, <2>3, Bounds DEF Sized
<1>5. CASE FinishTranslation
  <2>1. Len(inflight_tag_check') = Len(inflight_tag_check)
    BY <1>1, <1>5, TranslatedType DEF FinishTranslation, CacheTyped
  <2>2. "RQ" \in RequestQueues
    BY DEF RequestQueues
  <2>3. lower_translate'.RQ = lower_translate.RQ
    <3>1. /\ lower_translate \in ChannelOf(Pages, Pages) /\ lower_translate.returned # << >>
          /\ lower_translate' = Pop(lower_translate, "returned")
      BY <1>1, <1>5 DEF FinishTranslation, CacheTyped
    <3>2. \A q \in RequestQueues : lower_translate'[q] = lower_translate[q]
      BY <3>1, AnswerRead
    <3>3. QED
      BY <3>2, <2>2
  <2>4. UNCHANGED <<upper, lower, MSHR, internal_PQ, todo, kept, budget, phase>>
    BY <1>5 DEF FinishTranslation, operateVars
  <2>5. QED
    BY <1>1, <2>1, <2>3, <2>4 DEF Sized
<1>6. CASE StartFills
  <2>1. /\ phase = "returns" /\ phase' = "fills" /\ UNCHANGED <<inflight_tag_check, todo, kept>>
        /\ UNCHANGED <<upper, lower, MSHR, internal_PQ, lower_translate>>
    BY <1>6 DEF StartFills, translateVars
  <2>2. QED
    BY <1>1, <1>2, <1>s, <2>1 DEF Sized
<1>7. ASSUME NEW w \in Way \cup {Bypass}, HandleFill(w)
      PROVE  Sized'
  <2> DEFINE f == inflight_fills[1]
             v == Victim(f, w)
  <2>1. /\ f \in Fill
        /\ upper' = Responded(upper, f)
        /\ \/ /\ Writeback(v) \in LowerRequest
              /\ Len(lower.WQ) < LowerSize
              /\ lower' = Push(lower, "WQ", Writeback(v))
           \/ lower' = lower
    BY <1>1, <1>7, HandleFillMoves
  <2>2. \A u \in Upper, q \in RequestQueues : upper'[u][q] = upper[u][q]
    <3>1. f.addr \in Line /\ f.ids \in SUBSET Ids
      BY <2>1 DEF Fill
    <3> HIDE DEF f
    <3>2. upper \in [Upper -> ChannelOf(Request, Response)] /\ upper' = Responded(upper, f)
      BY <1>1, <2>1 DEF CacheTyped
    <3>3. \A u \in Upper, q \in RequestQueues : Responded(upper, f)[u][q] = upper[u][q]
      BY <3>1, <3>2, RespondedQueues
    <3>4. QED
      BY <3>2, <3>3
  <2>3. \A q \in RequestQueues : Len(lower'[q]) <= LowerSize
    <3> DEFINE x == Writeback(v)
    <3>1. CASE lower' = lower
      BY <1>1, <3>1 DEF Sized
    <3>2. CASE x \in LowerRequest /\ Len(lower.WQ) < LowerSize /\ lower' = Push(lower, "WQ", x)
      <4> HIDE DEF x
      <4>1. "WQ" \in RequestQueues /\ lower \in ChannelOf(LowerRequest, Response)
        BY <1>1 DEF RequestQueues, CacheTyped
      <4>2. /\ \A p \in RequestQueues :
                  lower'[p] = IF p = "WQ" THEN Append(lower["WQ"], x) ELSE lower[p]
            /\ lower["WQ"] \in Seq(LowerRequest)
        BY <4>1, <3>2, Pushed
      <4>3. Len(Append(lower["WQ"], x)) = Len(lower["WQ"]) + 1 /\ Len(lower["WQ"]) \in Nat
        BY <4>2, <3>2, AppendProperties, LenProperties
      <4>4. Len(Append(lower["WQ"], x)) <= LowerSize
        BY <4>3, <3>2, Bounds
      <4>5. QED
        BY <4>2, <4>4, <1>1 DEF Sized
    <3> HIDE DEF x
    <3>3. QED
      BY <2>1, <3>1, <3>2 DEF x
  <2>4. /\ UNCHANGED <<lower_translate, MSHR, internal_PQ, inflight_tag_check, todo, kept, phase>>
        /\ phase = "fills"
    BY <1>7 DEF HandleFill, NextFillReady, translateVars
  <2>5. QED
    BY <1>1, <2>2, <2>3, <2>4 DEF Sized
<1>8. CASE StartInitiate
  <2>1. PICK n, moved : InitiateParts(n, moved)
    BY <1>1, <1>8, InitiateMoves, <1>2 DEF Sized
  <2>2. Len(inflight_tag_check') + budget' <= MaxTag * HitLatency
    BY <2>1 DEF InitiateParts
  <2>3. /\ phase = "fills" /\ phase' = "initiate" /\ UNCHANGED <<todo, kept>>
        /\ UNCHANGED <<upper, lower, MSHR, internal_PQ, lower_translate>>
    BY <1>8 DEF StartInitiate, FillsOver
  <2>4. todo = << >> /\ kept = << >> /\ Len(todo) = 0 /\ Len(kept) = 0
    BY <1>1, <2>3 DEF Sized
  <2>5. Len(inflight_tag_check') \in Nat
    BY <1>1, LenProperties DEF CacheTyped
  <2>6. QED
    BY <1>2, <1>s, <2>2, <2>3, <2>4, <2>5
<1>9. ASSUME NEW k \in 1 .. NumSources, InitiateFromUpper(k)
      PROVE  Sized'
  <2>1. PICK u, q, n, taken : UpperParts(u, q, n, taken)
    BY <1>1, <1>9, UpperMoves
  <2>2. /\ u \in Upper /\ q \in RequestQueues
        /\ n \in 1 .. Len(upper[u][q]) /\ upper[u][q] \in Seq(Request)
        /\ Len(inflight_tag_check') = Len(inflight_tag_check) + n
        /\ budget' = budget - n
        /\ \A v \in Upper, p \in RequestQueues :
              upper'[v][p] = IF v = u /\ p = q
                               THEN SubSeq(upper[u][q], n + 1, Len(upper[u][q]))
                               ELSE upper[v][p]
    BY <2>1 DEF UpperParts
  <2>3. /\ Len(upper[u][q]) \in Nat /\ n \in Nat
        /\ Len(SubSeq(upper[u][q], n + 1, Len(upper[u][q]))) = Len(upper[u][q]) - n
    <3>1. Len(upper[u][q]) \in Nat /\ n \in 0 .. Len(upper[u][q])
      BY <2>2, LenProperties
    <3>2. QED
      BY <2>2, <3>1, CountSplit
  <2>4. \A v \in Upper, p \in RequestQueues : Len(upper'[v][p]) <= UpperSize
    <3>1. Len(SubSeq(upper[u][q], n + 1, Len(upper[u][q]))) <= UpperSize
      BY SMTT(30), <2>2, <2>3, <1>1, Bounds DEF Sized
    <3>2. QED
      BY <2>2, <3>1, <1>1 DEF Sized
  <2>5. /\ UNCHANGED <<lower, lower_translate, MSHR, internal_PQ, todo, kept, phase>>
        /\ phase = "initiate"
    BY <1>9 DEF InitiateFromUpper, translateVars
  <2>6. Len(inflight_tag_check') + Len(todo') + Len(kept') + budget' <= MaxTag * HitLatency
    BY <1>1, <1>2, <2>2, <2>3, <2>5 DEF Sized
  <2>7. QED
    BY <1>1, <2>4, <2>5, <2>6 DEF Sized
<1>10. CASE InitiateFromPrefetches
  <2>1. PICK n, moved : PrefetchParts(n, moved)
    BY <1>1, <1>10, PrefetchMoves
  <2>2. /\ n \in 1 .. Len(internal_PQ) /\ Len(internal_PQ') = Len(internal_PQ) - n
        /\ Len(inflight_tag_check') = Len(inflight_tag_check) + n
        /\ budget' = budget - n
    BY <2>1 DEF PrefetchParts
  <2>3. /\ UNCHANGED <<upper, lower, lower_translate, MSHR, todo, kept, phase>>
        /\ phase = "initiate"
    BY <1>10 DEF InitiateFromPrefetches, translateVars
  <2>4. Len(inflight_tag_check') + Len(todo') + Len(kept') + budget' <= MaxTag * HitLatency
    BY <1>1, <1>2, <2>2, <2>3 DEF Sized
  <2>5. Len(internal_PQ') <= PqSize
    BY <1>1, <1>2, <2>2, Bounds DEF Sized
  <2>6. QED
    BY <1>1, <2>3, <2>4, <2>5 DEF Sized
<1>11. CASE StartTagChecks
  <2>1. Len(inflight_tag_check') + Len(todo') <= Len(inflight_tag_check)
    <3> DEFINE
          r == Len(translation_stash') - Len(translation_stash)
    <3>1. /\ inflight_tag_check \in Seq(TagLookup) /\ translation_stash \in Seq(TagLookup)
          /\ inflight_tag_check' \in Seq(TagLookup) /\ todo' \in Seq(TagLookup)
          /\ translation_stash' \in Seq(TagLookup)
      BY <1>1 DEF CacheTyped
    <3>2. IssueBlind(TagLookup)
      BY DEF IssueBlind
    <3>3. Count(inflight_tag_check', TagLookup) + Count(todo', TagLookup)
             + Count(translation_stash', TagLookup)
          = Count(inflight_tag_check, TagLookup) + Count(translation_stash, TagLookup)
      BY <1>11, <3>1, <3>2, TagChecksShared
    <3>4. \A s \in Seq(TagLookup) : Count(s, TagLookup) = Len(s) /\ Len(s) \in Nat
      BY CountAll, ElementOfSeq, LenProperties
    <3>5. PICK stay, new : TagChecksParts(stay, new)
      BY <1>11, <3>1, TagChecksShared
    <3>6. /\ stay \in Seq(TagLookup) /\ new \in Seq(TagLookup)
          /\ translation_stash' = stay \o new /\ Len(stay) = Len(translation_stash)
      BY <3>5 DEF TagChecksParts
    <3>7. Len(translation_stash') = Len(translation_stash) + Len(new) /\ Len(new) \in Nat
      <4>1. Len(stay \o new) = Len(stay) + Len(new) /\ Len(new) \in Nat
        BY <3>6, ConcatProperties, LenProperties
      <4>2. QED
        BY <4>1, <3>6
    <3>8. Len(inflight_tag_check') + Len(todo') + Len(translation_stash')
             = Len(inflight_tag_check) + Len(translation_stash)
      BY <3>1, <3>3, <3>4
    <3>9. /\ Len(inflight_tag_check') \in Nat /\ Len(todo') \in Nat
          /\ Len(translation_stash) \in Nat
      BY <3>1, <3>4
    <3>10. QED
      BY <1>2, <3>7, <3>8, <3>9
  <2>2. Len(lower_translate'.RQ) <= LowerSize
    <3> DEFINE lookups == inflight_tag_check \o translation_stash
               s == lower_translate.RQ \o PagesOf(lookups)
    <3>1. lookups \in Seq(TagLookup)
      BY <1>1, ConcatProperties DEF CacheTyped
    <3>2. lower_translate \in ChannelOf(Pages, Pages) /\ Len(lower_translate.RQ) <= LowerSize
      BY <1>1 DEF CacheTyped, Sized
    <3>3. lower_translate' = [lower_translate EXCEPT !.RQ = s]
      BY <1>11 DEF StartTagChecks
    <3> HIDE DEF lookups
    <3>4. PagesOf(lookups) \in Seq(Pages) /\ Len(lower_translate.RQ) + Len(PagesOf(lookups)) <= LowerSize
      BY <3>1, <3>2, IssueRoom
    <3>5. Len(s) = Len(lower_translate.RQ) + Len(PagesOf(lookups))
      BY <3>2, <3>4, ConcatProperties DEF ChannelOf
    <3> HIDE DEF s
    <3>6. lower_translate'.RQ = s
      BY <3>2, <3>3 DEF ChannelOf
    <3>7. QED
      BY <3>4, <3>5, <3>6
  <2>3. /\ phase = "initiate" /\ phase' = "hits" /\ UNCHANGED kept
        /\ UNCHANGED <<upper, lower, MSHR, internal_PQ>>
    BY <1>11 DEF StartTagChecks
  <2>4. Len(inflight_tag_check') + Len(todo') + Len(kept') <= MaxTag * HitLatency
    <3>1. /\ Len(inflight_tag_check') \in Nat /\ Len(todo') \in Nat
      BY <1>1, LenProperties DEF CacheTyped
    <3>2. Len(inflight_tag_check) + Len(todo) + Len(kept) + budget <= MaxTag * HitLatency
      BY <1>1, <2>3 DEF Sized
    <3>3. QED
      BY <1>2, <2>1, <2>3, <3>1, <3>2
  <2>5. QED
    BY <1>1, <1>2, <2>2, <2>3, <2>4 DEF Sized
<1>12. CASE TryHit
  <2>1. /\ Len(todo') = Len(todo) - 1 /\ todo[1] \in TagLookup
        /\ upper' = Responded(upper, todo[1])
    BY <1>1, <1>12, FirstOfTodo DEF TryHit
  <2>2. \A u \in Upper, q \in RequestQueues : upper'[u][q] = upper[u][q]
    <3> DEFINE pkt == todo[1]
    <3>1. pkt.addr \in Line /\ pkt.ids \in SUBSET Ids
      BY <2>1 DEF TagLookup
    <3> HIDE DEF pkt
    <3>2. upper' = Responded(upper, pkt)
      BY <2>1 DEF pkt
    <3>3. upper \in [Upper -> ChannelOf(Request, Response)]
      BY <1>1 DEF CacheTyped
    <3>4. \A u \in Upper, q \in RequestQueues : Responded(upper, pkt)[u][q] = upper[u][q]
      BY <3>1, <3>3, RespondedQueues
    <3>5. QED
      BY <3>2, <3>4
  <2>3. /\ phase = "hits" /\ UNCHANGED <<phase, lower, MSHR, internal_PQ, lower_translate,
                                          inflight_tag_check, kept>>
    BY <1>12 DEF TryHit, translateVars
  <2>4. QED
    BY SMTT(30), <1>1, <1>2, <2>1, <2>2, <2>3 DEF Sized
<1>13. CASE TryMiss
  <2>1. Len(todo') = Len(todo) - 1
    BY <1>1, <1>13, FirstOfTodo DEF TryMiss
  <2>2. Len(kept') = Len(kept) + 1
    <3>1. todo[1] \in TagLookup /\ kept' = Append(kept, Told(todo[1]))
      BY <1>1, <1>13, FirstOfTodo DEF TryMiss
    <3>2. Told(todo[1]) \in TagLookup
      BY <3>1, ToldType
    <3>3. QED
      BY <1>1, <3>1, <3>2, AppendProperties DEF CacheTyped
  <2>3. /\ phase = "hits" /\ UNCHANGED <<phase, upper, lower, MSHR, internal_PQ, lower_translate,
                                          inflight_tag_check>>
    BY <1>13 DEF TryMiss, translateVars
  <2>4. QED
    BY <1>1, <1>2, <2>1, <2>2, <2>3 DEF Sized
<1>14. CASE StartMisses
  <2>1. /\ phase = "hits" /\ phase' = "misses" /\ todo = << >> /\ todo' = kept /\ kept' = << >>
        /\ UNCHANGED <<upper, lower, MSHR, internal_PQ, lower_translate, inflight_tag_check>>
    BY <1>14 DEF StartMisses, translateVars
  <2>2. Len(<< >>) = 0
    OBVIOUS
  <2>3. QED
    BY <1>1, <1>2, <1>s, <2>1, <2>2 DEF Sized
<1>15. CASE HandleWrite
  <2>1. Len(todo') = Len(todo) - 1
    BY <1>1, <1>15, FirstOfTodo DEF HandleWrite
  <2>2. /\ phase = "misses" /\ UNCHANGED <<phase, upper, lower, MSHR, internal_PQ, lower_translate,
                                            inflight_tag_check, kept>>
    BY <1>15 DEF HandleWrite, translateVars
  <2>3. QED
    BY <1>1, <1>2, <2>1, <2>2 DEF Sized
<1>16. CASE MergeMiss
  <2> DEFINE pkt == todo[1]
             m == InMSHR(pkt)
  <2>1. Len(todo') = Len(todo) - 1 /\ pkt = Head(todo) /\ pkt \in TagLookup
    BY <1>1, <1>16, FirstOfTodo DEF MergeMiss, NextMiss
  <2>2. /\ phase = "misses" /\ UNCHANGED <<phase, upper, lower, internal_PQ, lower_translate,
                                            inflight_tag_check, kept>>
    BY <1>16 DEF MergeMiss, NextMiss, translateVars
  <2>3. \/ m # 0 /\ MSHR' = [MSHR EXCEPT ![m] = Merge(MSHR[m], ToFill(pkt))]
        \/ UNCHANGED MSHR
    BY <1>16, <2>1 DEF MergeMiss
  <2>4. Len(MSHR') = Len(MSHR)
    <3>1. MSHR \in Seq(Fill)
      BY <1>1 DEF CacheTyped
    <3>2. m # 0 => Len([MSHR EXCEPT ![m] = Merge(MSHR[m], ToFill(pkt))]) = Len(MSHR)
      BY <3>1, <2>1, MergedIn DEF MergesIn, InMSHR
    <3>3. QED
      BY <2>3, <3>2
  <2> HIDE DEF pkt
  <2>5. QED
    BY <1>1, <1>2, <2>1, <2>2, <2>4 DEF Sized
<1>17. CASE ForwardMiss
  <2> DEFINE pkt == todo[1]
             q == ForwardQueue(pkt)
             x == Forward(pkt)
  <2>1. Len(todo') = Len(todo) - 1 /\ pkt = Head(todo) /\ pkt \in TagLookup
    BY <1>1, <1>17, FirstOfTodo DEF ForwardMiss, NewMiss, NextMiss
  <2>2. /\ phase = "misses" /\ UNCHANGED <<phase, upper, internal_PQ, lower_translate,
                                            inflight_tag_check, kept>>
        /\ Len(MSHR) < MshrSize /\ Len(lower[q]) < LowerSize
        /\ lower' = Push(lower, q, x)
        /\ MSHR' = IF pkt.skip THEN MSHR ELSE Append(MSHR, ToFill(pkt))
    BY <1>17, <2>1 DEF ForwardMiss, NewMiss, NextMiss, CanForward, HasRoom, translateVars
  <2>3. x \in LowerRequest /\ q \in RequestQueues
    <3>1. /\ pkt.addr \in Line /\ pkt.type \in Types /\ pkt.ids \in SUBSET Ids
          /\ pkt.skip \in BOOLEAN
      BY <2>1 DEF TagLookup
    <3> HIDE DEF pkt
    <3>2. QED
      BY <3>1 DEF Forward, LowerRequest, ForwardQueue, RequestQueues
  <2>4. Len(MSHR') <= MshrSize
    <3>1. ToFill(pkt) \in Fill
      BY <2>1, ToFillType
    <3>2. Len(Append(MSHR, ToFill(pkt))) = Len(MSHR) + 1
      BY <1>1, <3>1, AppendProperties DEF CacheTyped
    <3>3. QED
      BY <1>2, <2>2, <3>2, Bounds
  <2>5. \A p \in RequestQueues : Len(lower'[p]) <= LowerSize
    <3> HIDE DEF x, q
    <3>1. lower \in ChannelOf(LowerRequest, Response)
      BY <1>1 DEF CacheTyped
    <3>2. /\ \A p \in RequestQueues : lower'[p] = IF p = q THEN Append(lower[q], x) ELSE lower[p]
          /\ lower[q] \in Seq(LowerRequest)
      BY <3>1, <2>2, <2>3, Pushed
    <3>3. Len(Append(lower[q], x)) = Len(lower[q]) + 1 /\ Len(lower[q]) \in Nat
      BY <3>2, <2>3, AppendProperties, LenProperties
    <3>4. Len(Append(lower[q], x)) <= LowerSize
      BY <3>3, <2>2, Bounds
    <3>5. QED
      BY <3>2, <3>4, <1>1 DEF Sized
  <2> HIDE DEF pkt, q, x
  <2>6. QED
    BY <1>1, <1>2, <2>1, <2>2, <2>4, <2>5 DEF Sized
<1>18. CASE StallMiss
  <2>1. Len(todo') = Len(todo) - 1 /\ todo[1] \in TagLookup /\ kept' = Append(kept, todo[1])
    BY <1>1, <1>18, FirstOfTodo DEF StallMiss, NewMiss, NextMiss
  <2>2. Len(kept') = Len(kept) + 1
    BY <1>1, <2>1, AppendProperties DEF CacheTyped
  <2>3. /\ phase = "misses" /\ UNCHANGED <<phase, upper, lower, MSHR, internal_PQ, lower_translate,
                                            inflight_tag_check>>
    BY <1>18 DEF StallMiss, NewMiss, NextMiss, translateVars
  <2>4. QED
    BY <1>1, <1>2, <2>1, <2>2, <2>3 DEF Sized
<1>19. CASE EndCycle
  <2>1. Len(inflight_tag_check') = Len(kept) + Len(inflight_tag_check)
    BY <1>1, <1>19, ConcatProperties DEF EndCycle, CacheTyped
  <2>2. /\ phase = "misses" /\ phase' = "outside" /\ todo = << >> /\ todo' = << >> /\ kept' = << >>
        /\ UNCHANGED <<upper, lower, MSHR, internal_PQ, lower_translate>>
    BY <1>19 DEF EndCycle, translateVars
  <2>3. Len(<< >>) = 0
    OBVIOUS
  <2>4. QED
    BY <1>1, <1>2, <1>s, <2>1, <2>2, <2>3 DEF Sized
<1>20. ASSUME NEW u \in Upper, Receive(u)
       PROVE  Sized'
  <2> DEFINE c == [upper[u] EXCEPT !.returned = << >>]
  <2>1. upper \in [Upper -> ChannelOf(Request, Response)]
    BY <1>1 DEF CacheTyped
  <2>2. \A q \in RequestQueues : c[q] = upper[u][q]
    <3>1. upper[u] \in ChannelOf(Request, Response)
      BY <2>1
    <3>2. QED
      BY <3>1 DEF ChannelOf, RequestQueues
  <2>3. upper' = [upper EXCEPT ![u] = c]
    BY <1>20 DEF Receive
  <2> HIDE DEF c
  <2>4. \A v \in Upper, q \in RequestQueues : upper'[v][q] = upper[v][q]
    BY <2>1, <2>2, <2>3
  <2>5. UNCHANGED <<lower, MSHR, internal_PQ, lower_translate, inflight_tag_check, todo, kept,
                    budget, phase>>
    BY <1>20 DEF Receive, translateVars, operateVars
  <2>6. QED
    BY <1>1, <2>4, <2>5 DEF Sized
<1>21. ASSUME NEW u \in Upper, NEW q \in RequestQueues, NEW x, Len(upper[u][q]) < UpperSize,
              upper' = [upper EXCEPT ![u] = Push(upper[u], q, x)],
              UNCHANGED <<lower, MSHR, internal_PQ, lower_translate, inflight_tag_check, todo, kept,
                          budget, phase>>
       PROVE  Sized'
  <2> DEFINE s == Append(upper[u][q], x)
             c == [upper[u] EXCEPT ![q] = s]
  <2>1. upper \in [Upper -> ChannelOf(Request, Response)]
    BY <1>1 DEF CacheTyped
  <2>2. upper[u] \in ChannelOf(Request, Response) /\ upper[u][q] \in Seq(Request)
    BY <2>1 DEF ChannelOf, RequestQueues
  <2>3. Len(s) = Len(upper[u][q]) + 1 /\ Len(upper[u][q]) \in Nat
    BY <2>2, LenProperties
  <2>4. upper' = [upper EXCEPT ![u] = c]
    BY <1>21 DEF Push
  <2> HIDE DEF s
  <2>5. \A p \in RequestQueues : c[p] = IF p = q THEN s ELSE upper[u][p]
    BY <2>2 DEF ChannelOf, RequestQueues
  <2> HIDE DEF c
  <2>6. \A v \in Upper, p \in RequestQueues :
           upper'[v][p] = IF v = u /\ p = q THEN s ELSE upper[v][p]
    BY <2>1, <2>4, <2>5
  <2>7. Len(s) <= UpperSize
    BY <1>21, <2>3, Bounds
  <2>8. QED
    BY <1>1, <1>21, <2>6, <2>7 DEF Sized
<1>22. ASSUME NEW u \in Upper, NEW q \in RequestQueues, NEW type \in Types, NEW a \in Line,
              Ask(u, q, type, a) \/ Send(u, q, type, a)
       PROVE  Sized'
  <2>1. UNCHANGED <<lower, MSHR, internal_PQ, lower_translate, inflight_tag_check, todo, kept,
                    budget, phase>>
    BY <1>22 DEF Ask, Send, translateVars, operateVars
  <2>2. Len(upper[u][q]) < UpperSize
    BY <1>22 DEF Ask, Send, HasRoom
  <2>3. \E x : upper' = [upper EXCEPT ![u] = Push(upper[u], q, x)]
    BY <1>22 DEF Ask, Send
  <2>4. QED
    BY <1>21, <2>1, <2>2, <2>3
<1>23. ASSUME NEW a \in Line, NEW fillThisLevel \in BOOLEAN, PrefetchLine(a, fillThisLevel)
       PROVE  Sized'
  <2>1. Len(internal_PQ) < PqSize /\ \E x : internal_PQ' = Append(internal_PQ, x)
    BY <1>23 DEF PrefetchLine, PrefetchRoom
  <2>2. Len(internal_PQ') = Len(internal_PQ) + 1
    BY <1>1, <2>1 DEF CacheTyped
  <2>3. UNCHANGED <<upper, lower, MSHR, lower_translate, inflight_tag_check, todo, kept,
                    budget, phase>>
    BY <1>23 DEF PrefetchLine, translateVars, operateVars
  <2>4. Len(internal_PQ') <= PqSize
    BY <1>2, <2>1, <2>2, Bounds
  <2>5. QED
    BY <1>1, <2>3, <2>4 DEF Sized
<1>24. ASSUME NEW a \in Line, LowerAnswer(a)
       PROVE  Sized'
  <2> DEFINE x == [addr |-> a, ids |-> {}]
  <2>1. x \in Response /\ lower' = Push(lower, "returned", x)
    BY <1>24 DEF Response, LowerAnswer
  <2> HIDE DEF x
  <2>2. \A q \in RequestQueues : lower'[q] = lower[q]
    <3>1. lower \in ChannelOf(LowerRequest, Response)
      BY <1>1 DEF CacheTyped
    <3>2. \A q \in RequestQueues : Push(lower, "returned", x)[q] = lower[q]
      BY <2>1, <3>1, Answered
    <3>3. QED
      BY <2>1, <3>2
  <2>3. UNCHANGED <<upper, MSHR, internal_PQ, lower_translate, inflight_tag_check, todo, kept,
                    budget, phase>>
    BY <1>24 DEF LowerAnswer, translateVars, operateVars
  <2>4. QED
    BY <1>1, <2>2, <2>3 DEF Sized
<1>25. ASSUME NEW q \in RequestQueues, LowerTake(q)
       PROVE  Sized'
  <2>1. lower \in ChannelOf(LowerRequest, Response) /\ lower[q] # << >> /\ lower' = Pop(lower, q)
    BY <1>1, <1>25 DEF LowerTake, CacheTyped
  <2>2. /\ \A p \in RequestQueues : lower'[p] = IF p = q THEN Tail(lower[q]) ELSE lower[p]
        /\ lower[q] \in Seq(LowerRequest)
    BY <2>1, Popped
  <2>3. Len(Tail(lower[q])) <= LowerSize
    <3>1. Len(Tail(lower[q])) = Len(lower[q]) - 1 /\ Len(lower[q]) \in Nat
      BY <2>1, <2>2, CountTail
    <3>2. Len(lower[q]) <= LowerSize
      BY <1>1 DEF Sized
    <3>3. QED
      BY <3>1, <3>2, Bounds
  <2>4. UNCHANGED <<upper, MSHR, internal_PQ, lower_translate, inflight_tag_check, todo, kept,
                    budget, phase>>
    BY <1>25 DEF LowerTake, translateVars, operateVars
  <2>5. QED
    BY <1>1, <2>2, <2>3, <2>4 DEF Sized
<1>26. CASE TranslateTake
  <2>1. "RQ" \in RequestQueues /\ lower_translate \in ChannelOf(Pages, Pages)
        /\ lower_translate["RQ"] # << >> /\ lower_translate' = Pop(lower_translate, "RQ")
    BY <1>1, <1>26 DEF TranslateTake, RequestQueues, CacheTyped
  <2>2. lower_translate'["RQ"] = Tail(lower_translate["RQ"]) /\ lower_translate["RQ"] \in Seq(Pages)
    BY <2>1, Popped
  <2>3. Len(lower_translate'.RQ) <= LowerSize
    <3>1. Len(lower_translate'["RQ"]) = Len(lower_translate["RQ"]) - 1
          /\ Len(lower_translate["RQ"]) \in Nat
      BY <2>1, <2>2, CountTail
    <3>2. Len(lower_translate["RQ"]) <= LowerSize
      BY <1>1 DEF Sized
    <3>3. QED
      BY <3>1, <3>2, Bounds
  <2>4. UNCHANGED <<upper, lower, MSHR, internal_PQ, inflight_tag_check, todo, kept,
                    budget, phase>>
    BY <1>26 DEF TranslateTake, operateVars
  <2>5. QED
    BY <1>1, <2>3, <2>4 DEF Sized
<1>27. ASSUME NEW page \in Pages, TranslateAnswer(page)
       PROVE  Sized'
  <2>1. "RQ" \in RequestQueues
    BY DEF RequestQueues
  <2>2. lower_translate'["RQ"] = lower_translate["RQ"]
    BY SMTT(30), <1>1, <1>27, <2>1, Answered DEF TranslateAnswer, CacheTyped
  <2>3. UNCHANGED <<upper, lower, MSHR, internal_PQ, inflight_tag_check, todo, kept,
                    budget, phase>>
    BY <1>27 DEF TranslateAnswer, operateVars
  <2>4. QED
    BY <1>1, <2>2, <2>3 DEF Sized
<1>28. QED
  BY <1>3, <1>4, <1>5, <1>6, <1>7, <1>8, <1>9, <1>10, <1>11, <1>12, <1>13, <1>14, <1>15,
     <1>16, <1>17, <1>18, <1>19, <1>20, <1>22, <1>23, <1>24, <1>25, <1>26, <1>27
     DEF CacheNext, Operate, Environment

\* A step that changes nothing keeps the invariant.
LEMMA TypeInvStutters == TypeInv /\ UNCHANGED cacheVars => TypeInv'
BY DEF TypeInv, CacheTyped, Sized, cacheVars, operateVars, translateVars

\* The empty cache is within its sizes.
LEMMA TypeInvInitially == CacheInit => TypeInv
<1> SUFFICES ASSUME CacheInit PROVE Sized
  BY InitTyped DEF TypeInv
<1>1. /\ \A u \in Upper, q \in RequestQueues : upper[u][q] = << >>
      /\ \A q \in RequestQueues : lower[q] = << >>
  BY DEF CacheInit, QuietInit, EmptyChannel, RequestQueues
<1>2. /\ MSHR = << >> /\ internal_PQ = << >> /\ lower_translate.RQ = << >>
      /\ todo = << >> /\ kept = << >> /\ inflight_tag_check = << >> /\ phase = "outside"
  BY DEF CacheInit, QuietInit, EmptyChannel
<1>3. Len(<< >>) = 0
  OBVIOUS
<1>4. QED
  BY <1>1, <1>2, <1>3, Bounds DEF Sized

\* No queue or pool of the cache outgrows its configured size, whatever the upper
\* and lower levels and the TLB do: CacheTypeOK, with the room that a cycle still
\* has for tag checks and the moments between which no lookup is half decided.
THEOREM CacheTypeCorrect == CacheSpec => []CacheTypeOK
<1>1. CacheInit => TypeInv
  BY TypeInvInitially
<1>2. TypeInv /\ [CacheNext]_cacheVars => TypeInv'
  BY TypedStep, SizedStep, TypeInvStutters DEF TypeInv
<1>3. TypeInv => CacheTypeOK
  BY TypeInvImplies
<1>4. QED
  BY <1>1, <1>2, <1>3, PTL DEF CacheSpec

-----------------------------------------------------------------------------
(* Every MSHR has its answer under way. *)

FillsOf(a) == {f \in Fill : f.addr = a}
WantsOf(a) == {r \in LowerRequest : r.addr = a /\ r.respond}
AnswersOf(a) == {r \in Response : r.addr = a}

OwedBelow(a) ==
    Count(lower.RQ, WantsOf(a)) + Count(lower.PQ, WantsOf(a))
    + atLower[a] + Count(lower.returned, AnswersOf(a))

\* Writebacks want no answer: only the other two queues carry MSHRs.
Matched ==
    /\ \A a \in Line : /\ Count(MSHR, FillsOf(a)) <= 1
                       /\ Count(MSHR, FillsOf(a)) = OwedBelow(a)
    /\ \A i \in 1 .. Len(lower.WQ) : ~lower.WQ[i].respond

\* The invariant's number of entries of a line is the count of the fills of the line.
LEMMA AmongFills ==
  ASSUME NEW s \in Seq(Fill), NEW a
  PROVE  Among(s, a) = Count(s, FillsOf(a))
<1>1. DOMAIN s = 1 .. Len(s) /\ \A i \in 1 .. Len(s) : s[i] \in Fill
  BY LenProperties, ElementOfSeq
<1>2. {i \in DOMAIN s : s[i].addr = a} = Places(s, FillsOf(a))
  BY <1>1 DEF Places, FillsOf
<1>3. QED
  BY <1>2 DEF Among, Count

\* The match of MSHRs and answers implies the property checked.
LEMMA MatchedImplies == TypeInv /\ Matched => AnswersMatchMSHR
<1> SUFFICES ASSUME TypeInv, Matched, NEW a \in Line
             PROVE  /\ Among(MSHR, a) <= 1
                    /\ Among(MSHR, a) = Wanted(lower.RQ, a) + Wanted(lower.PQ, a)
                                        + atLower[a] + Among(lower.returned, a)
  BY DEF AnswersMatchMSHR
<1>1. /\ MSHR \in Seq(Fill) /\ lower.RQ \in Seq(LowerRequest) /\ lower.PQ \in Seq(LowerRequest)
      /\ lower.returned \in Seq(Response)
  BY DEF TypeInv, CacheTyped, ChannelOf
<1>2. Among(MSHR, a) = Count(MSHR, FillsOf(a))
  BY <1>1, AmongFills
<1>3. ASSUME NEW s \in Seq(LowerRequest)
      PROVE  Wanted(s, a) = Count(s, WantsOf(a))
  <2>1. DOMAIN s = 1 .. Len(s) /\ \A i \in 1 .. Len(s) : s[i] \in LowerRequest
    BY LenProperties, ElementOfSeq
  <2>2. {i \in DOMAIN s : s[i].addr = a /\ s[i].respond} = Places(s, WantsOf(a))
    BY <2>1 DEF Places, WantsOf
  <2>3. QED
    BY <2>2 DEF Wanted, Count
<1>4. Among(lower.returned, a) = Count(lower.returned, AnswersOf(a))
  <2> DEFINE s == lower.returned
  <2>1. DOMAIN s = 1 .. Len(s) /\ \A i \in 1 .. Len(s) : s[i] \in Response
    BY <1>1, LenProperties, ElementOfSeq
  <2> HIDE DEF s
  <2>2. {i \in DOMAIN s : s[i].addr = a} = Places(s, AnswersOf(a))
    BY <2>1 DEF Places, AnswersOf
  <2>3. Among(s, a) = Count(s, AnswersOf(a))
    BY <2>2 DEF Among, Count
  <2>4. QED
    BY <2>3 DEF s
<1>5. QED
  BY <1>1, <1>2, <1>3, <1>4 DEF Matched, OwedBelow

\* The empty cache owes and is owed nothing.
LEMMA MatchedInitially == CacheInit => Matched
<1> SUFFICES ASSUME CacheInit PROVE Matched
  OBVIOUS
<1>1. /\ lower.RQ = << >> /\ lower.PQ = << >> /\ lower.WQ = << >> /\ lower.returned = << >>
      /\ MSHR = << >> /\ \A a \in Line : atLower[a] = 0
  BY DEF CacheInit, QuietInit, EmptyChannel
<1>2. \A D : Count(<< >>, D) = 0
  BY CountEmpty
<1>3. Len(<< >>) = 0
  OBVIOUS
<1>4. \A a \in Line : OwedBelow(a) = 0 /\ Count(MSHR, FillsOf(a)) = 0
  BY <1>1, <1>2 DEF OwedBelow
<1>5. \A i \in 1 .. Len(lower.WQ) : ~lower.WQ[i].respond
  BY <1>1, <1>3
<1>6. QED
  BY <1>4, <1>5 DEF Matched

\* The terms of the sum are numbers.
LEMMA OwedMany ==
  ASSUME CacheTyped, NEW a \in Line
  PROVE  /\ Count(MSHR, FillsOf(a)) \in Nat /\ Count(lower.RQ, WantsOf(a)) \in Nat
         /\ Count(lower.PQ, WantsOf(a)) \in Nat /\ Count(lower.returned, AnswersOf(a)) \in Nat
         /\ atLower[a] \in Nat
<1>1. /\ MSHR \in Seq(Fill) /\ lower.RQ \in Seq(LowerRequest) /\ lower.PQ \in Seq(LowerRequest)
      /\ lower.returned \in Seq(Response) /\ atLower \in [Line -> Nat]
  BY DEF CacheTyped, ChannelOf
<1>2. QED
  BY <1>1, CountType

\* Every step keeps one MSHR to one answer that the lower level owes.
LEMMA MatchedStep ==
  ASSUME TypeInv, Matched, [CacheNext]_cacheVars
  PROVE  Matched'
<1>1. CacheTyped /\ lower \in ChannelOf(LowerRequest, Response) /\ MSHR \in Seq(Fill)
      /\ CacheTyped'
  BY TypedStep, TypeInvStutters DEF TypeInv, CacheTyped
<1>2. \A x : One(x) \in {0, 1}
  BY DEF One
<1>n. ASSUME NEW a \in Line
      PROVE  /\ Count(MSHR', FillsOf(a)) \in Nat /\ Count(lower'.RQ, WantsOf(a)) \in Nat
             /\ Count(lower'.PQ, WantsOf(a)) \in Nat
             /\ Count(lower'.returned, AnswersOf(a)) \in Nat
  <2>1. /\ MSHR' \in Seq(Fill) /\ lower'.RQ \in Seq(LowerRequest)
        /\ lower'.PQ \in Seq(LowerRequest) /\ lower'.returned \in Seq(Response)
    BY <1>1 DEF CacheTyped, ChannelOf
  <2>2. QED
    BY <2>1, CountType
<1>u. ASSUME UNCHANGED <<lower, MSHR, atLower>>
      PROVE  Matched'
  BY <1>u DEF Matched, OwedBelow
<1>3. CASE FinishPacket
  <2> DEFINE m == IndexOf(MSHR, lower.returned[1].addr)
  <2>1. /\ m \in 1 .. Len(MSHR) /\ MSHR[m].addr = lower.returned[1].addr
        /\ \A D : Count(MSHR', D) + One(MSHR[m] \in D) = Count(MSHR, D)
    BY <1>1, <1>3, FinishPacketMoves
  <2>2. /\ lower.returned # << >> /\ lower' = Pop(lower, "returned") /\ UNCHANGED atLower
    BY <1>3 DEF FinishPacket
  <2>3. /\ \A q \in RequestQueues : lower'[q] = lower[q]
        /\ lower'.returned = Tail(lower.returned) /\ lower.returned \in Seq(Response)
    BY <1>1, <2>2, AnswerRead
  <2> HIDE DEF m
  <2>4. MSHR[m] \in Fill
    BY <1>1, <2>1, ElementOfSeq
  <2>5. lower.returned[1] \in Response /\ Head(lower.returned) = lower.returned[1]
    BY <2>2, <2>3, CountTail
  <2>6. ASSUME NEW a \in Line
        PROVE  Count(MSHR', FillsOf(a)) <= 1 /\ Count(MSHR', FillsOf(a)) = OwedBelow(a)'
    <3>1. One(MSHR[m] \in FillsOf(a)) = One(lower.returned[1] \in AnswersOf(a))
      BY <2>1, <2>4, <2>5 DEF One, FillsOf, AnswersOf
    <3>2. Count(lower.returned, AnswersOf(a)) =
             One(lower.returned[1] \in AnswersOf(a)) + Count(lower'.returned, AnswersOf(a))
      BY <2>2, <2>3, <2>5, CountTail
    <3>3. lower'.RQ = lower.RQ /\ lower'.PQ = lower.PQ
      BY <2>3 DEF RequestQueues
    <3>4. Count(MSHR', FillsOf(a)) + One(MSHR[m] \in FillsOf(a)) = Count(MSHR, FillsOf(a))
      BY <2>1
    <3>5. Count(MSHR', FillsOf(a)) \in Nat /\ Count(lower'.returned, AnswersOf(a)) \in Nat
          /\ One(MSHR[m] \in FillsOf(a)) \in {0, 1}
      BY <1>n, <1>2
    <3>6. Count(MSHR, FillsOf(a)) <= 1 /\ Count(MSHR, FillsOf(a)) = OwedBelow(a)
      BY DEF Matched
    <3>7. OwedBelow(a) = Count(lower.RQ, WantsOf(a)) + Count(lower.PQ, WantsOf(a))
                            + atLower[a] + Count(lower.returned, AnswersOf(a))
          /\ OwedBelow(a)' = Count(lower.RQ, WantsOf(a)) + Count(lower.PQ, WantsOf(a))
                            + atLower[a] + Count(lower'.returned, AnswersOf(a))
      BY <3>3, <2>2 DEF OwedBelow
    <3>8. Count(lower.RQ, WantsOf(a)) \in Nat /\ Count(lower.PQ, WantsOf(a)) \in Nat
          /\ atLower[a] \in Nat /\ Count(MSHR, FillsOf(a)) \in Nat
      BY <1>1, OwedMany
    <3>9. QED
      BY <3>1, <3>2, <3>4, <3>5, <3>6, <3>7, <3>8
  <2>7. \A i \in 1 .. Len(lower'.WQ) : ~lower'.WQ[i].respond
    BY <2>3 DEF Matched, RequestQueues
  <2>8. QED
    BY <2>6, <2>7 DEF Matched
<1>4. ASSUME NEW w \in Way \cup {Bypass}, HandleFill(w)
      PROVE  Matched'
  <2> DEFINE v == Victim(inflight_fills[1], w)
             x == Writeback(v)
  <2>1. \/ x \in LowerRequest /\ lower' = Push(lower, "WQ", x)
        \/ lower' = lower
    BY <1>1, <1>4, HandleFillMoves
  <2>2. UNCHANGED <<MSHR, atLower>>
    BY <1>4 DEF HandleFill
  <2>3. CASE lower' = lower
    BY <1>u, <2>2, <2>3
  <2>4. CASE x \in LowerRequest /\ lower' = Push(lower, "WQ", x)
    <3>0. ~x.respond
      BY DEF Writeback
    <3> HIDE DEF x
    <3>1. "WQ" \in RequestQueues
      BY DEF RequestQueues
    <3>2. /\ \A p \in RequestQueues :
                lower'[p] = IF p = "WQ" THEN Append(lower["WQ"], x) ELSE lower[p]
          /\ lower'.returned = lower.returned
          /\ lower["WQ"] \in Seq(LowerRequest)
      BY <1>1, <2>4, <3>1, Pushed
    <3>3. lower'.RQ = lower.RQ /\ lower'.PQ = lower.PQ /\ lower'.WQ = Append(lower.WQ, x)
      BY <3>2 DEF RequestQueues
    <3>4. \A a \in Line : OwedBelow(a)' = OwedBelow(a)
      BY <3>2, <3>3, <2>2 DEF OwedBelow
    <3>5. \A i \in 1 .. Len(lower'.WQ) : ~lower'.WQ[i].respond
      <4>1. /\ Len(lower'.WQ) = Len(lower.WQ) + 1 /\ Len(lower.WQ) \in Nat
            /\ \A i \in 1 .. Len(lower.WQ) : lower'.WQ[i] = lower.WQ[i]
            /\ lower'.WQ[Len(lower.WQ) + 1] = x
        BY <3>2, <3>3, <2>4, AppendProperties, LenProperties
      <4>2. QED
        BY <4>1, <3>0 DEF Matched
    <3>6. QED
      BY <2>2, <3>4, <3>5 DEF Matched
  <2>5. QED
    BY <2>1, <2>3, <2>4
<1>5. CASE MergeMiss
  <2> DEFINE pkt == todo[1]
             m == InMSHR(pkt)
  <2>1. pkt = Head(todo) /\ pkt \in TagLookup
    BY <1>1, <1>5, FirstOfTodo DEF MergeMiss, NextMiss
  <2>2. \/ m # 0 /\ MSHR' = [MSHR EXCEPT ![m] = Merge(MSHR[m], ToFill(pkt))]
        \/ UNCHANGED MSHR
    BY <1>5, <2>1 DEF MergeMiss
  <2>3. UNCHANGED <<lower, atLower>>
    BY <1>5 DEF MergeMiss
  <2>4. CASE m # 0 /\ MSHR' = [MSHR EXCEPT ![m] = Merge(MSHR[m], ToFill(pkt))]
    <3> DEFINE g == Merge(MSHR[m], ToFill(pkt))
    <3>1. MergesIn(MSHR, MSHR', m, pkt)
      BY <1>1, <2>1, <2>4, MergedIn DEF InMSHR
    <3>2. /\ MSHR[m] \in Fill /\ MSHR[m].addr = pkt.addr /\ g \in Fill /\ g.addr = pkt.addr
          /\ \A D : Count(MSHR', D) + One(MSHR[m] \in D) = Count(MSHR, D) + One(g \in D)
      BY <3>1 DEF MergesIn
    <3> HIDE DEF g, m, pkt
    <3>3. ASSUME NEW a \in Line
          PROVE  Count(MSHR', FillsOf(a)) = Count(MSHR, FillsOf(a))
      <4>1. One(MSHR[m] \in FillsOf(a)) = One(g \in FillsOf(a))
        BY <3>2 DEF One, FillsOf
      <4>2. Count(MSHR', FillsOf(a)) \in Nat /\ Count(MSHR, FillsOf(a)) \in Nat
        BY <1>1, <1>n, OwedMany
      <4>3. Count(MSHR', FillsOf(a)) + One(MSHR[m] \in FillsOf(a))
              = Count(MSHR, FillsOf(a)) + One(g \in FillsOf(a))
        BY <3>2
      <4>4. One(g \in FillsOf(a)) \in {0, 1}
        BY <1>2
      <4>5. QED
        BY <4>1, <4>2, <4>3, <4>4
    <3>4. \A a \in Line : OwedBelow(a)' = OwedBelow(a)
      BY <2>3 DEF OwedBelow
    <3>5. QED
      BY <2>3, <3>3, <3>4 DEF Matched
  <2>5. QED
    BY <1>u, <2>2, <2>3, <2>4
<1>6. CASE ForwardMiss
  <2> DEFINE pkt == todo[1]
             q == ForwardQueue(pkt)
             x == Forward(pkt)
             g == ToFill(pkt)
  <2>1. pkt = Head(todo) /\ pkt \in TagLookup
    BY <1>1, <1>6, FirstOfTodo DEF ForwardMiss, NewMiss, NextMiss
  <2>2. /\ lower' = Push(lower, q, x) /\ UNCHANGED atLower
        /\ MSHR' = IF pkt.skip THEN MSHR ELSE Append(MSHR, g)
        /\ InMSHR(pkt) = 0
    BY <1>6, <2>1 DEF ForwardMiss, NewMiss
  <2>3. /\ x \in LowerRequest /\ q \in {"RQ", "PQ"} /\ x.addr = pkt.addr /\ x.respond = ~pkt.skip
        /\ pkt.addr \in Line /\ pkt.skip \in BOOLEAN
    <3>1. /\ pkt.addr \in Line /\ pkt.type \in Types /\ pkt.ids \in SUBSET Ids
          /\ pkt.skip \in BOOLEAN
      BY <2>1 DEF TagLookup
    <3> HIDE DEF pkt
    <3>2. QED
      BY <3>1 DEF Forward, LowerRequest, ForwardQueue
  <2>4. g \in Fill /\ g.addr = pkt.addr
    BY <2>1, ToFillType DEF ToFill
  <2>5. Count(MSHR, FillsOf(pkt.addr)) = 0
    <3>1. \A i \in 1 .. Len(MSHR) : MSHR[i].addr # pkt.addr
      BY <1>1, <2>2, IndexFound DEF InMSHR
    <3>2. \A i \in 1 .. Len(MSHR) : MSHR[i] \notin FillsOf(pkt.addr)
      BY <3>1 DEF FillsOf
    <3>3. QED
      BY <1>1, <3>2, CountZero
  <2> HIDE DEF pkt, q, x, g
  <2>6. /\ \A p \in RequestQueues : lower'[p] = IF p = q THEN Append(lower[q], x) ELSE lower[p]
        /\ lower'.returned = lower.returned
        /\ lower[q] \in Seq(LowerRequest)
    <3>1. q \in RequestQueues /\ lower \in ChannelOf(LowerRequest, Response) /\ x \in LowerRequest
      BY <1>1, <2>3 DEF RequestQueues
    <3>2. /\ \A p \in RequestQueues :
                Push(lower, q, x)[p] = IF p = q THEN Append(lower[q], x) ELSE lower[p]
          /\ Push(lower, q, x).returned = lower.returned
          /\ lower[q] \in Seq(LowerRequest)
      BY <3>1, Pushed
    <3>3. QED
      BY <2>2, <3>2
  <2>7. ASSUME NEW a \in Line
        PROVE  Count(MSHR', FillsOf(a)) <= 1 /\ Count(MSHR', FillsOf(a)) = OwedBelow(a)'
    <3> DEFINE more == One(~pkt.skip /\ pkt.addr = a)
    <3>1. Count(MSHR', FillsOf(a)) = Count(MSHR, FillsOf(a)) + more
      <4>1. CASE pkt.skip
        BY <4>1, <2>2, <1>1, OwedMany DEF One
      <4>2. CASE ~pkt.skip
        <5>1. Count(Append(MSHR, g), FillsOf(a)) = Count(MSHR, FillsOf(a)) + One(g \in FillsOf(a))
          BY <1>1, <2>4, CountAppend
        <5>2. One(g \in FillsOf(a)) = more
          BY <4>2, <2>4 DEF One, FillsOf
        <5>3. QED
          BY <5>1, <5>2, <4>2, <2>2
      <4>3. QED
        BY <4>1, <4>2
    <3>2. Count(Append(lower[q], x), WantsOf(a)) = Count(lower[q], WantsOf(a)) + more
      <4>1. Count(Append(lower[q], x), WantsOf(a)) = Count(lower[q], WantsOf(a)) + One(x \in WantsOf(a))
        BY <2>3, <2>6, CountAppend
      <4>2. One(x \in WantsOf(a)) = more
        BY <2>3 DEF One, WantsOf
      <4>3. QED
        BY <4>1, <4>2
    <3>3. Count(lower'.RQ, WantsOf(a)) + Count(lower'.PQ, WantsOf(a))
             = Count(lower.RQ, WantsOf(a)) + Count(lower.PQ, WantsOf(a)) + more
      <4>1. CASE q = "RQ"
        <5>1. lower'.RQ = Append(lower[q], x) /\ lower'.PQ = lower.PQ /\ lower[q] = lower.RQ
          BY <2>6, <4>1 DEF RequestQueues
        <5>2. Count(lower'.RQ, WantsOf(a)) = Count(lower.RQ, WantsOf(a)) + more
          BY <3>2, <5>1
        <5>3. Count(lower.RQ, WantsOf(a)) \in Nat /\ Count(lower.PQ, WantsOf(a)) \in Nat
              /\ more \in {0, 1}
          BY <1>1, OwedMany, <1>2
        <5> HIDE DEF more
        <5>4. QED
          BY <5>1, <5>2, <5>3
      <4>2. CASE q = "PQ"
        <5>1. lower'.PQ = Append(lower[q], x) /\ lower'.RQ = lower.RQ /\ lower[q] = lower.PQ
          BY <2>6, <4>2 DEF RequestQueues
        <5>2. Count(lower'.PQ, WantsOf(a)) = Count(lower.PQ, WantsOf(a)) + more
          BY <3>2, <5>1
        <5>3. Count(lower.RQ, WantsOf(a)) \in Nat /\ Count(lower.PQ, WantsOf(a)) \in Nat
              /\ more \in {0, 1}
          BY <1>1, OwedMany, <1>2
        <5> HIDE DEF more
        <5>4. QED
          BY <5>1, <5>2, <5>3
      <4>3. QED
        BY <2>3, <4>1, <4>2
    <3>4. Count(MSHR, FillsOf(a)) <= 1 /\ Count(MSHR, FillsOf(a)) = OwedBelow(a)
      BY DEF Matched
    <3>5. more = 1 => Count(MSHR, FillsOf(a)) = 0
      BY <2>5 DEF One
    <3>6. /\ Count(MSHR, FillsOf(a)) \in Nat /\ Count(lower.RQ, WantsOf(a)) \in Nat
          /\ Count(lower.PQ, WantsOf(a)) \in Nat /\ Count(lower.returned, AnswersOf(a)) \in Nat
          /\ atLower[a] \in Nat /\ more \in {0, 1}
      BY <1>1, OwedMany, <1>2
    <3>7. /\ OwedBelow(a) = Count(lower.RQ, WantsOf(a)) + Count(lower.PQ, WantsOf(a))
                            + atLower[a] + Count(lower.returned, AnswersOf(a))
          /\ OwedBelow(a)' = Count(lower'.RQ, WantsOf(a)) + Count(lower'.PQ, WantsOf(a))
                            + atLower[a] + Count(lower.returned, AnswersOf(a))
      BY <2>2, <2>6 DEF OwedBelow
    <3>8. Count(lower'.RQ, WantsOf(a)) \in Nat /\ Count(lower'.PQ, WantsOf(a)) \in Nat
      BY <1>n
    <3> HIDE DEF more
    <3>9. QED
      BY <3>1, <3>3, <3>4, <3>5, <3>6, <3>7, <3>8
  <2>8. \A i \in 1 .. Len(lower'.WQ) : ~lower'.WQ[i].respond
    <3>1. lower'.WQ = lower.WQ
      BY <2>3, <2>6 DEF RequestQueues
    <3>2. QED
      BY <3>1 DEF Matched
  <2>9. QED
    BY <2>7, <2>8 DEF Matched
<1>7. ASSUME NEW q \in RequestQueues, LowerTake(q)
      PROVE  Matched'
  <2> DEFINE h == Head(lower[q])
  <2>1. lower[q] # << >> /\ lower' = Pop(lower, q) /\ UNCHANGED MSHR
        /\ atLower' = (IF h.respond THEN [atLower EXCEPT ![h.addr] = atLower[h.addr] + 1]
                                    ELSE atLower)
    BY <1>7 DEF LowerTake
  <2>2. /\ \A p \in RequestQueues : lower'[p] = IF p = q THEN Tail(lower[q]) ELSE lower[p]
        /\ lower'.returned = lower.returned
        /\ lower[q] \in Seq(LowerRequest)
    BY <1>1, <2>1, Popped
  <2>3. h \in LowerRequest /\ h = lower[q][1] /\ Len(lower[q]) \in Nat \ {0}
        /\ Len(Tail(lower[q])) = Len(lower[q]) - 1
        /\ \A i \in 1 .. Len(lower[q]) - 1 : Tail(lower[q])[i] = lower[q][i + 1]
    BY <2>1, <2>2, CountTail
  <2>4. \A D : Count(lower[q], D) = One(h \in D) + Count(Tail(lower[q]), D)
    BY <2>1, <2>2, CountTail
  <2> HIDE DEF h
  <2>5. h.addr \in Line /\ atLower \in [Line -> Nat] /\ h.respond \in BOOLEAN
    BY <1>1, <2>3 DEF LowerRequest, CacheTyped
  <2>6. q = "WQ" => ~h.respond
    BY <2>3 DEF Matched
  <2>7. ASSUME NEW a \in Line
        PROVE  OwedBelow(a)' = OwedBelow(a)
    <3> DEFINE moved == One(h.respond /\ h.addr = a)
    <3>1. One(h \in WantsOf(a)) = moved
      BY <2>3, <2>5 DEF One, WantsOf
    <3>2. atLower'[a] = atLower[a] + moved
      BY <2>1, <2>5 DEF One
    <3>3. Count(lower[q], WantsOf(a)) = moved + Count(Tail(lower[q]), WantsOf(a))
      BY <2>4, <3>1
    <3>4. /\ Count(lower.RQ, WantsOf(a)) \in Nat
          /\ Count(lower.PQ, WantsOf(a)) \in Nat /\ Count(lower.returned, AnswersOf(a)) \in Nat
          /\ atLower[a] \in Nat /\ moved \in {0, 1}
          /\ Count(lower'.RQ, WantsOf(a)) \in Nat /\ Count(lower'.PQ, WantsOf(a)) \in Nat
      BY <1>1, <1>n, OwedMany, <1>2
    <3>5. q = "WQ" => moved = 0
      BY <2>6 DEF One
    <3> HIDE DEF moved
    <3>6. Count(lower'.RQ, WantsOf(a)) + Count(lower'.PQ, WantsOf(a)) + moved
             = Count(lower.RQ, WantsOf(a)) + Count(lower.PQ, WantsOf(a))
      <4>1. CASE q = "RQ"
        <5>1. lower'.RQ = Tail(lower[q]) /\ lower'.PQ = lower.PQ /\ lower[q] = lower.RQ
          BY <2>2, <4>1 DEF RequestQueues
        <5>2. Count(lower.RQ, WantsOf(a)) = moved + Count(lower'.RQ, WantsOf(a))
          BY <3>3, <5>1
        <5>3. QED
          BY <5>1, <5>2, <3>4
      <4>2. CASE q = "PQ"
        <5>1. lower'.PQ = Tail(lower[q]) /\ lower'.RQ = lower.RQ /\ lower[q] = lower.PQ
          BY <2>2, <4>2 DEF RequestQueues
        <5>2. Count(lower.PQ, WantsOf(a)) = moved + Count(lower'.PQ, WantsOf(a))
          BY <3>3, <5>1
        <5>3. QED
          BY <5>1, <5>2, <3>4
      <4>3. CASE q = "WQ"
        <5>1. lower'.PQ = lower.PQ /\ lower'.RQ = lower.RQ
          BY <2>2, <4>3 DEF RequestQueues
        <5>2. QED
          BY <5>1, <4>3, <3>4, <3>5
      <4>4. QED
        BY <4>1, <4>2, <4>3 DEF RequestQueues
    <3>7. /\ OwedBelow(a) = Count(lower.RQ, WantsOf(a)) + Count(lower.PQ, WantsOf(a))
                            + atLower[a] + Count(lower.returned, AnswersOf(a))
          /\ OwedBelow(a)' = Count(lower'.RQ, WantsOf(a)) + Count(lower'.PQ, WantsOf(a))
                            + atLower'[a] + Count(lower.returned, AnswersOf(a))
      BY <2>2 DEF OwedBelow
    <3>8. QED
      BY <3>2, <3>4, <3>6, <3>7
  <2>8. \A i \in 1 .. Len(lower'.WQ) : ~lower'.WQ[i].respond
    <3>1. CASE q = "WQ"
      <4>1. lower'.WQ = Tail(lower[q]) /\ lower[q] = lower.WQ
        BY <2>2, <3>1 DEF RequestQueues
      <4>2. QED
        BY <4>1, <2>3 DEF Matched
    <3>2. CASE q # "WQ"
      <4>1. lower'.WQ = lower.WQ
        BY <2>2, <3>2 DEF RequestQueues
      <4>2. QED
        BY <4>1 DEF Matched
    <3>3. QED
      BY <3>1, <3>2
  <2>9. QED
    BY <2>1, <2>7, <2>8 DEF Matched
<1>8. ASSUME NEW a \in Line, LowerAnswer(a)
      PROVE  Matched'
  <2> DEFINE x == [addr |-> a, ids |-> {}]
  <2>1. x \in Response /\ x.addr = a /\ lower' = Push(lower, "returned", x)
        /\ atLower[a] > 0 /\ atLower' = [atLower EXCEPT ![a] = atLower[a] - 1]
        /\ UNCHANGED MSHR
    BY <1>8 DEF Response, LowerAnswer
  <2> HIDE DEF x
  <2>2. /\ \A q \in RequestQueues : lower'[q] = lower[q]
        /\ lower'.returned = Append(lower.returned, x) /\ lower.returned \in Seq(Response)
    <3>1. lower \in ChannelOf(LowerRequest, Response) /\ x \in Response
      BY <1>1, <2>1
    <3>2. /\ \A q \in RequestQueues : Push(lower, "returned", x)[q] = lower[q]
          /\ Push(lower, "returned", x).returned = Append(lower.returned, x)
          /\ lower.returned \in Seq(Response)
      BY <3>1, Answered
    <3>3. QED
      BY <2>1, <3>2
  <2>3. ASSUME NEW b \in Line
        PROVE  OwedBelow(b)' = OwedBelow(b)
    <3> DEFINE moved == One(a = b)
    <3>1. Count(lower'.returned, AnswersOf(b)) = Count(lower.returned, AnswersOf(b)) + moved
      <4>1. Count(Append(lower.returned, x), AnswersOf(b))
               = Count(lower.returned, AnswersOf(b)) + One(x \in AnswersOf(b))
        BY <2>1, <2>2, CountAppend
      <4>2. One(x \in AnswersOf(b)) = moved
        BY <2>1 DEF One, AnswersOf
      <4>3. QED
        BY <4>1, <4>2, <2>2
    <3>2. atLower'[b] = atLower[b] - moved
      <4>1. atLower \in [Line -> Nat]
        BY <1>1 DEF CacheTyped
      <4>2. atLower'[b] = IF a = b THEN atLower[b] - 1 ELSE atLower[b]
        BY <4>1, <2>1
      <4>3. QED
        BY <4>1, <4>2 DEF One
    <3>3. lower'.RQ = lower.RQ /\ lower'.PQ = lower.PQ
      BY <2>2 DEF RequestQueues
    <3>4. /\ Count(lower.RQ, WantsOf(b)) \in Nat
          /\ Count(lower.PQ, WantsOf(b)) \in Nat /\ Count(lower.returned, AnswersOf(b)) \in Nat
          /\ atLower[b] \in Nat /\ moved \in {0, 1}
      BY <1>1, OwedMany, <1>2
    <3>5. /\ OwedBelow(b) = Count(lower.RQ, WantsOf(b)) + Count(lower.PQ, WantsOf(b))
                            + atLower[b] + Count(lower.returned, AnswersOf(b))
          /\ OwedBelow(b)' = Count(lower.RQ, WantsOf(b)) + Count(lower.PQ, WantsOf(b))
                            + atLower'[b] + Count(lower'.returned, AnswersOf(b))
      BY <3>3 DEF OwedBelow
    <3> HIDE DEF moved
    <3>6. QED
      BY <3>1, <3>2, <3>4, <3>5
  <2>4. \A i \in 1 .. Len(lower'.WQ) : ~lower'.WQ[i].respond
    BY <2>2 DEF Matched, RequestQueues
  <2>5. QED
    BY <2>1, <2>3, <2>4 DEF Matched
<1>9. CASE \/ StartCycle \/ FinishTranslation \/ StartFills \/ StartInitiate
           \/ \E k \in 1 .. NumSources : InitiateFromUpper(k)
           \/ InitiateFromPrefetches \/ StartTagChecks \/ TryHit \/ TryMiss \/ StartMisses
           \/ HandleWrite \/ StallMiss \/ EndCycle
  <2>1. UNCHANGED <<lower, MSHR, atLower>>
    BY <1>9 DEF StartCycle, FinishTranslation, StartFills, StartInitiate, InitiateFromUpper,
                InitiateFromPrefetches, StartTagChecks, TryHit, TryMiss, StartMisses,
                HandleWrite, StallMiss, EndCycle
  <2>2. QED
    BY <1>u, <2>1
<1>10. CASE \/ \E u \in Upper :
                 \/ Receive(u)
                 \/ \E q \in RequestQueues, type \in Types, a \in Line :
                       Ask(u, q, type, a) \/ Send(u, q, type, a)
            \/ \E a \in Line, fillThisLevel \in BOOLEAN : PrefetchLine(a, fillThisLevel)
            \/ TranslateTake
            \/ \E page \in Pages : TranslateAnswer(page)
            \/ UNCHANGED cacheVars
  <2>1. UNCHANGED <<lower, MSHR, atLower>>
    BY ZenonT(40), <1>10 DEF Receive, Ask, Send, PrefetchLine, TranslateTake, TranslateAnswer, cacheVars
  <2>2. QED
    BY <1>u, <2>1
<1>11. QED
  BY <1>3, <1>4, <1>5, <1>6, <1>7, <1>8, <1>9, <1>10 DEF CacheNext, Operate, Environment

\* finish_packet never looks in vain for the MSHR of an answer: the assertion of
\* cache.cc:612-616 holds whatever the order of the answers, however the MSHRs are
\* swapped and popped, and however misses merge in them.
THEOREM MSHRsMatchAnswers == CacheSpec => []AnswersMatchMSHR
<1>1. CacheInit => TypeInv /\ Matched
  BY TypeInvInitially, MatchedInitially
<1>2. TypeInv /\ Matched /\ [CacheNext]_cacheVars => TypeInv' /\ Matched'
  BY TypedStep, SizedStep, TypeInvStutters, MatchedStep DEF TypeInv
<1>3. TypeInv /\ Matched => AnswersMatchMSHR
  BY MatchedImplies
<1>4. QED
  BY <1>1, <1>2, <1>3, PTL DEF CacheSpec

-----------------------------------------------------------------------------
(* A line is in one place. *)

WaysOf(blocks, a) ==
    {w \in Way : blocks[SetOf[a]][w] # NoBlock /\ blocks[SetOf[a]][w].addr = a}

\* Between the tag checks and the misses no block is filled, so that a lookup that
\* missed still misses when its turn comes to allocate.
Single ==
    /\ \A a \in Line : Cardinality(WaysOf(block, a)) + Count(MSHR, FillsOf(a))
                          + Count(inflight_fills, FillsOf(a)) <= 1
    /\ phase = "hits" => \A i \in 1 .. Len(kept) : WaysOf(block, kept[i].addr) = {}
    /\ phase = "misses" => \A i \in 1 .. Len(todo) : WaysOf(block, todo[i].addr) = {}

\* Sets of ways have sizes.
LEMMA WaysFinite ==
  ASSUME NEW W \in SUBSET Way
  PROVE  /\ IsFiniteSet(W) /\ Cardinality(W) \in Nat
         /\ Cardinality(W) = 0 <=> W = {}
         /\ \A w \in Way : W \subseteq {w} => Cardinality(W) <= 1
         /\ \A V \in SUBSET W : Cardinality(V) <= Cardinality(W)
<1>1. IsFiniteSet(Way)
  BY Bounds, FirstNumbers DEF Way
<1>2. IsFiniteSet(W) /\ Cardinality(W) \in Nat
  BY <1>1, FS_Subset, FS_CardinalityType
<1>3. Cardinality(W) = 0 <=> W = {}
  BY <1>2, FS_EmptySet
<1>4. ASSUME NEW w \in Way, W \subseteq {w}
      PROVE  Cardinality(W) <= 1
  <2>1. IsFiniteSet({w}) /\ Cardinality({w}) = 1
    BY FS_Singleton
  <2>2. QED
    BY <1>4, <2>1, FS_Subset
<1>5. ASSUME NEW V \in SUBSET W
      PROVE  Cardinality(V) <= Cardinality(W)
  BY <1>2, FS_Subset
<1>6. QED
  BY <1>2, <1>3, <1>4, <1>5

\* A hit leaves every line where it is.
LEMMA TouchedKeeps ==
  ASSUME CacheTyped, TryHit
  PROVE  \A a \in Line : WaysOf(block', a) = WaysOf(block, a)
<1> DEFINE pkt == todo[1]
           s == SetOf[pkt.addr]
           w == Min(HitWays(pkt.addr))
           b == block[s][w]
           b2 == [b EXCEPT !.dirty = b.dirty \/ pkt.type = "WRITE"]
           R == [addr : Line, dirty : BOOLEAN]
<1>1. pkt \in TagLookup /\ pkt = Head(todo)
  BY FirstOfTodo DEF TryHit
<1>2. WaysOf(block, pkt.addr) # {} /\ block' = [block EXCEPT ![s][w] = b2]
  BY ZenonT(40), <1>1 DEF TryHit, Touched, HitWays, WaysOf
<1>3. s \in CacheSets
  BY <1>1, CacheAssumption DEF TagLookup
<1>4. w \in WaysOf(block, pkt.addr)
  <2>0. HitWays(pkt.addr) = WaysOf(block, pkt.addr)
    BY DEF HitWays, WaysOf
  <2>1. WaysOf(block, pkt.addr) \in SUBSET Nat
    BY DEF WaysOf, Way
  <2>2. QED
    BY <1>2, <2>0, <2>1, MinOf
<1>5. block \in [CacheSets -> [Way -> R \cup {NoBlock}]]
  BY DEF CacheTyped
<1>6. w \in Way /\ b # NoBlock
  BY <1>4 DEF WaysOf
<1> HIDE DEF pkt, s, w
<1>7. b \in R
  BY <1>3, <1>5, <1>6
<1>8. b2 \in R /\ b2.addr = b.addr
  <2>1. (b.dirty \/ pkt.type = "WRITE") \in BOOLEAN
    OBVIOUS
  <2> HIDE DEF b
  <2>2. QED
    BY <1>7, <2>1
<1>9. b2 # NoBlock
  BY <1>8, CacheAssumption
<1> HIDE DEF b2, R
<1>10. ASSUME NEW a \in Line, NEW x \in Way
       PROVE  (block'[SetOf[a]][x] # NoBlock /\ block'[SetOf[a]][x].addr = a)
                 <=> (block[SetOf[a]][x] # NoBlock /\ block[SetOf[a]][x].addr = a)
  <2>1. SetOf[a] \in CacheSets
    BY CacheAssumption
  <2>2. block'[SetOf[a]][x] = IF SetOf[a] = s /\ x = w THEN b2 ELSE block[SetOf[a]][x]
    BY <1>2, <1>3, <1>5, <1>6, <2>1
  <2>3. CASE SetOf[a] = s /\ x = w
    <3>1. block'[SetOf[a]][x] = b2 /\ block[SetOf[a]][x] = b
      BY <2>2, <2>3
    <3> HIDE DEF b
    <3>2. QED
      BY <3>1, <1>6, <1>8, <1>9
  <2>4. CASE ~(SetOf[a] = s /\ x = w)
    BY <2>2, <2>4
  <2>5. QED
    BY <2>3, <2>4
<1>11. QED
  BY <1>10 DEF WaysOf

\* A fill puts its line in one way and nothing else anywhere.
LEMMA FillPlaces ==
  ASSUME CacheTyped, NEW w \in Way \cup {Bypass}, HandleFill(w), NEW a \in Line
  PROVE  /\ a # inflight_fills[1].addr => WaysOf(block', a) \subseteq WaysOf(block, a)
         /\ a = inflight_fills[1].addr =>
               \/ WaysOf(block', a) \subseteq WaysOf(block, a)
               \/ w \in Way /\ WaysOf(block', a) \subseteq WaysOf(block, a) \cup {w}
<1> DEFINE f == inflight_fills[1]
           s == SetOf[f.addr]
           b == FillBlock(f)
           R == [addr : Line, dirty : BOOLEAN]
<1>1. /\ f \in Fill
      /\ \/ w \in Way /\ block' = [block EXCEPT ![s][w] = b]
         \/ block' = block
  BY HandleFillMoves
<1>2. s \in CacheSets /\ SetOf[a] \in CacheSets
  BY <1>1, CacheAssumption DEF Fill
<1>3. b.addr = f.addr
  BY DEF FillBlock
<1>4. block \in [CacheSets -> [Way -> R \cup {NoBlock}]]
  BY DEF CacheTyped
<1> HIDE DEF s, b, R, f
<1>5. CASE block' = block
  BY <1>5 DEF WaysOf
<1>6. CASE w \in Way /\ block' = [block EXCEPT ![s][w] = b]
  <2>1. \A x \in Way : block'[SetOf[a]][x] = IF SetOf[a] = s /\ x = w THEN b ELSE block[SetOf[a]][x]
    BY <1>2, <1>4, <1>6
  <2>2. ASSUME NEW x \in WaysOf(block', a), x \notin WaysOf(block, a)
        PROVE  x = w /\ a = f.addr
    <3>1. x \in Way /\ block'[SetOf[a]][x].addr = a
      BY <2>2 DEF WaysOf
    <3>2. block'[SetOf[a]][x] # block[SetOf[a]][x]
      BY <2>2 DEF WaysOf
    <3>3. x = w /\ block'[SetOf[a]][x] = b
      BY <3>1, <3>2, <2>1
    <3>4. QED
      BY <3>1, <3>3, <1>3
  <2>3. QED
    BY <2>2, <1>6 DEF f
<1>7. QED
  BY <1>1, <1>5, <1>6

\* Every step keeps a line in one place at most.
LEMMA SingleStep ==
  ASSUME MatchOffsetBits, TypeInv, Single, [CacheNext]_cacheVars
  PROVE  Single'
<1>1. CacheTyped /\ CacheTyped' /\ MSHR \in Seq(Fill) /\ inflight_fills \in Seq(Fill)
      /\ MSHR' \in Seq(Fill) /\ inflight_fills' \in Seq(Fill)
  BY TypedStep, TypeInvStutters DEF TypeInv, CacheTyped
<1>2. ASSUME NEW a \in Line
      PROVE  /\ Count(MSHR, FillsOf(a)) \in Nat /\ Count(inflight_fills, FillsOf(a)) \in Nat
             /\ Count(MSHR', FillsOf(a)) \in Nat /\ Count(inflight_fills', FillsOf(a)) \in Nat
             /\ WaysOf(block, a) \in SUBSET Way /\ WaysOf(block', a) \in SUBSET Way
             /\ Cardinality(WaysOf(block, a)) \in Nat /\ Cardinality(WaysOf(block', a)) \in Nat
             /\ Cardinality(WaysOf(block, a)) + Count(MSHR, FillsOf(a))
                          + Count(inflight_fills, FillsOf(a)) <= 1
  <2>1. WaysOf(block, a) \in SUBSET Way /\ WaysOf(block', a) \in SUBSET Way
    BY DEF WaysOf
  <2>2. QED
    BY <1>1, <2>1, CountType, WaysFinite DEF Single
<1>3. \A x : One(x) \in {0, 1}
  BY DEF One
\* Nothing is placed or dropped.
<1>k. ASSUME UNCHANGED <<MSHR, inflight_fills>>, \A a \in Line : WaysOf(block', a) = WaysOf(block, a)
      PROVE  \A a \in Line : Cardinality(WaysOf(block', a)) + Count(MSHR', FillsOf(a))
                          + Count(inflight_fills', FillsOf(a)) <= 1
  BY <1>k DEF Single
<1>p. ASSUME phase' \notin {"hits", "misses"},
             \A a \in Line : Cardinality(WaysOf(block', a)) + Count(MSHR', FillsOf(a))
                          + Count(inflight_fills', FillsOf(a)) <= 1
      PROVE  Single'
  BY <1>p DEF Single
\* In the misses, lookups only leave todo.
<1>m. ASSUME phase = "misses", UNCHANGED phase, todo # << >>, todo' = Tail(todo), UNCHANGED block
      PROVE  phase' = "misses" /\ \A i \in 1 .. Len(todo') : WaysOf(block', todo'[i].addr) = {}
  <2>1. /\ Len(todo) \in Nat \ {0} /\ Len(todo') = Len(todo) - 1
        /\ \A i \in 1 .. Len(todo) - 1 : todo'[i] = todo[i + 1]
    BY <1>1, <1>m, FirstOfTodo
  <2>2. \A i \in 1 .. Len(todo') : WaysOf(block, todo'[i].addr) = {}
    BY <1>m, <2>1 DEF Single
  <2>3. \A a : WaysOf(block', a) = WaysOf(block, a)
    BY <1>m DEF WaysOf
  <2>4. QED
    BY <1>m, <2>2, <2>3
<1>4. CASE StartCycle
  <2>1. /\ Len(inflight_fills') = Len(inflight_fills)
        /\ \A i \in 1 .. Len(inflight_fills) : inflight_fills'[i].addr = inflight_fills[i].addr
    BY <1>1, <1>4, AgedFills DEF StartCycle
  <2>2. UNCHANGED <<block, MSHR>> /\ phase' = "returns"
    BY <1>4 DEF StartCycle
  <2>3. ASSUME NEW a \in Line
        PROVE  Count(inflight_fills', FillsOf(a)) = Count(inflight_fills, FillsOf(a))
    <3>1. \A i \in 1 .. Len(inflight_fills) :
             inflight_fills'[i] \in Fill /\ inflight_fills[i] \in Fill
      BY <1>1, <2>1, ElementOfSeq
    <3>2. \A i \in 1 .. Len(inflight_fills) :
             inflight_fills[i] \in FillsOf(a) <=> inflight_fills'[i] \in FillsOf(a)
      BY <2>1, <3>1 DEF FillsOf
    <3>3. QED
      BY <1>1, <2>1, <3>2, CountAlike
  <2>4. \A a \in Line : WaysOf(block', a) = WaysOf(block, a)
    BY <2>2 DEF WaysOf
  <2>5. QED
    BY <1>p, <1>2, <2>2, <2>3, <2>4
<1>5. CASE FinishPacket
  <2> DEFINE m == IndexOf(MSHR, lower.returned[1].addr)
             f == [MSHR[m] EXCEPT !.wait = FillLatency]
  <2>1. /\ m \in 1 .. Len(MSHR)
        /\ f \in Fill /\ f.addr = MSHR[m].addr
        /\ inflight_fills' = Append(inflight_fills, f)
        /\ \A D : Count(MSHR', D) + One(MSHR[m] \in D) = Count(MSHR, D)
    BY <1>1, <1>5, FinishPacketMoves
  <2> HIDE DEF f, m
  <2>2. MSHR[m] \in Fill
    BY <1>1, <2>1, ElementOfSeq
  <2>3. UNCHANGED <<block, phase>> /\ phase = "returns"
    BY <1>5 DEF FinishPacket, operateVars
  <2>4. ASSUME NEW a \in Line
        PROVE  Count(MSHR', FillsOf(a)) + Count(inflight_fills', FillsOf(a))
                  = Count(MSHR, FillsOf(a)) + Count(inflight_fills, FillsOf(a))
    <3>1. Count(inflight_fills', FillsOf(a)) = Count(inflight_fills, FillsOf(a)) + One(f \in FillsOf(a))
      BY <1>1, <2>1, CountAppend
    <3>2. One(f \in FillsOf(a)) = One(MSHR[m] \in FillsOf(a))
      BY <2>1, <2>2 DEF One, FillsOf
    <3>3. Count(MSHR', FillsOf(a)) + One(MSHR[m] \in FillsOf(a)) = Count(MSHR, FillsOf(a))
      BY <2>1
    <3>4. One(MSHR[m] \in FillsOf(a)) \in {0, 1}
      BY <1>3
    <3>5. QED
      BY <1>2, <3>1, <3>2, <3>3, <3>4
  <2>5. \A a \in Line : WaysOf(block', a) = WaysOf(block, a)
    BY <2>3 DEF WaysOf
  <2>6. \A a \in Line : Cardinality(WaysOf(block', a)) + Count(MSHR', FillsOf(a))
                          + Count(inflight_fills', FillsOf(a)) <= 1
    <3> SUFFICES ASSUME NEW a \in Line
                 PROVE  Cardinality(WaysOf(block', a)) + Count(MSHR', FillsOf(a))
                          + Count(inflight_fills', FillsOf(a)) <= 1
      OBVIOUS
    <3>1. Cardinality(WaysOf(block', a)) = Cardinality(WaysOf(block, a))
      BY <2>5
    <3>2. QED
      BY <1>2, <2>4, <3>1
  <2>7. QED
    BY <1>p, <2>3, <2>6
<1>6. ASSUME NEW w \in Way \cup {Bypass}, HandleFill(w)
      PROVE  Single'
  <2> DEFINE f == inflight_fills[1]
  <2>1. /\ f \in Fill
        /\ \A D : Count(inflight_fills, D) = One(f \in D) + Count(inflight_fills', D)
    BY <1>1, <1>6, HandleFillMoves
  <2>2. UNCHANGED <<MSHR, phase>> /\ phase = "fills"
    BY <1>6 DEF HandleFill, NextFillReady
  <2>3. ASSUME NEW a \in Line
        PROVE  Cardinality(WaysOf(block', a)) + Count(MSHR', FillsOf(a))
                          + Count(inflight_fills', FillsOf(a)) <= 1
    <3>1. CASE WaysOf(block', a) \subseteq WaysOf(block, a)
      <4>1. Cardinality(WaysOf(block', a)) <= Cardinality(WaysOf(block, a))
        BY <3>1, <1>2, WaysFinite
      <4>2. Count(inflight_fills', FillsOf(a)) <= Count(inflight_fills, FillsOf(a))
        <5>1. Count(inflight_fills, FillsOf(a)) = One(f \in FillsOf(a)) + Count(inflight_fills', FillsOf(a))
          BY <2>1
        <5>2. One(f \in FillsOf(a)) \in {0, 1}
          BY <1>3
        <5>3. QED
          BY <5>1, <5>2, <1>2
      <4>3. QED
        BY <4>1, <4>2, <1>2, <2>2
    <3>2. CASE a = f.addr /\ w \in Way /\ WaysOf(block', a) \subseteq WaysOf(block, a) \cup {w}
      <4>1. One(f \in FillsOf(a)) = 1
        BY <2>1, <3>2 DEF One, FillsOf
      <4>2. Count(inflight_fills, FillsOf(a)) = 1 + Count(inflight_fills', FillsOf(a))
        BY <2>1, <4>1
      <4>3. /\ Cardinality(WaysOf(block, a)) = 0 /\ Count(MSHR, FillsOf(a)) = 0
            /\ Count(inflight_fills', FillsOf(a)) = 0
        BY <4>2, <1>2
      <4>4. WaysOf(block, a) = {}
        BY <4>3, <1>2, WaysFinite
      <4>5. Cardinality(WaysOf(block', a)) <= 1
        BY <3>2, <4>4, <1>2, WaysFinite
      <4>6. QED
        BY <4>3, <4>5, <1>2, <2>2
    <3>3. QED
      BY <3>1, <3>2, <1>1, <1>6, FillPlaces
  <2>4. QED
    BY <1>p, <2>2, <2>3
<1>7. CASE StartTagChecks
  <2>1. UNCHANGED <<block, MSHR, inflight_fills, kept>> /\ phase = "initiate" /\ phase' = "hits"
    BY <1>7 DEF StartTagChecks
  <2>2. kept' = << >> /\ Len(<< >>) = 0
    BY <2>1 DEF TypeInv, Sized
  <2>3. \A a \in Line : WaysOf(block', a) = WaysOf(block, a)
    BY <2>1 DEF WaysOf
  <2>4. \A i \in 1 .. Len(kept') : WaysOf(block', kept'[i].addr) = {}
    BY <2>2
  <2>5. QED
    BY <1>k, <2>1, <2>3, <2>4 DEF Single
<1>8. CASE TryHit
  <2>1. UNCHANGED <<MSHR, inflight_fills, kept, phase>> /\ phase = "hits"
    BY <1>8 DEF TryHit
  <2>2. \A a \in Line : WaysOf(block', a) = WaysOf(block, a)
    BY <1>1, <1>8, TouchedKeeps
  <2>3. \A i \in 1 .. Len(kept) : kept[i].addr \in Line
    <3>1. \A i \in 1 .. Len(kept) : kept[i] \in TagLookup
      BY <1>1, ElementOfSeq DEF CacheTyped
    <3>2. QED
      BY <3>1 DEF TagLookup
  <2>4. \A i \in 1 .. Len(kept') : WaysOf(block', kept'[i].addr) = {}
    BY <2>1, <2>2, <2>3 DEF Single
  <2>5. QED
    BY <1>k, <2>1, <2>2, <2>4 DEF Single
<1>9. CASE TryMiss
  <2>1. UNCHANGED <<MSHR, inflight_fills, block, phase>> /\ phase = "hits"
        /\ WaysOf(block, todo[1].addr) = {} /\ kept' = Append(kept, Told(todo[1]))
        /\ todo[1] \in TagLookup
    BY <1>1, <1>9, FirstOfTodo DEF TryMiss, HitWays, WaysOf
  <2>2. \A a : WaysOf(block', a) = WaysOf(block, a)
    BY <2>1 DEF WaysOf
  <2>3. \A i \in 1 .. Len(kept') : WaysOf(block, kept'[i].addr) = {}
    <3>1. Told(todo[1]) \in TagLookup /\ Told(todo[1]).addr = todo[1].addr
      BY <2>1, ToldType DEF TagLookup
    <3>2. kept \in Seq(TagLookup)
      BY <1>1 DEF CacheTyped
    <3>3. /\ Len(kept') = Len(kept) + 1 /\ Len(kept) \in Nat
          /\ \A i \in 1 .. Len(kept) : kept'[i] = kept[i]
          /\ kept'[Len(kept) + 1] = Told(todo[1])
      BY <3>1, <3>2, <2>1, AppendProperties, LenProperties
    <3>4. \A i \in 1 .. Len(kept) : WaysOf(block, kept[i].addr) = {}
      BY <2>1 DEF Single
    <3>5. WaysOf(block, Told(todo[1]).addr) = {}
      BY <2>1, <3>1
    <3>6. \A i \in 1 .. Len(kept') : i \in 1 .. Len(kept) \/ i = Len(kept) + 1
      BY <3>3
    <3>7. SUFFICES ASSUME NEW i \in 1 .. Len(kept')
                   PROVE  WaysOf(block, kept'[i].addr) = {}
      OBVIOUS
    <3>8. CASE i \in 1 .. Len(kept)
      <4>1. kept'[i] = kept[i]
        BY <3>3, <3>8
      <4>2. QED
        BY <3>4, <3>8, <4>1
    <3>9. CASE i = Len(kept) + 1
      <4>1. kept'[i] = Told(todo[1])
        BY <3>3, <3>9
      <4>2. QED
        BY <3>5, <4>1
    <3>10. QED
      BY <3>6, <3>8, <3>9
  <2>4. QED
    BY <1>k, <2>1, <2>2, <2>3 DEF Single
<1>10. CASE StartMisses
  <2>1. UNCHANGED <<MSHR, inflight_fills, block>> /\ phase = "hits" /\ phase' = "misses"
        /\ todo' = kept
    BY <1>10 DEF StartMisses
  <2>2. \A a : WaysOf(block', a) = WaysOf(block, a)
    BY <2>1 DEF WaysOf
  <2>3. \A i \in 1 .. Len(todo') : WaysOf(block', todo'[i].addr) = {}
    BY <2>1, <2>2 DEF Single
  <2>4. QED
    BY <1>k, <2>1, <2>2, <2>3 DEF Single
<1>11. CASE HandleWrite
  BY <1>11 DEF HandleWrite, IsWriteback
<1>12. CASE MergeMiss
  <2> DEFINE pkt == todo[1]
             m == InMSHR(pkt)
             f == InFills(pkt)
             g == Merge(MSHR[m], ToFill(pkt))
             h == Merge(inflight_fills[f], ToFill(pkt))
  <2>1. pkt = Head(todo) /\ pkt \in TagLookup
    BY <1>1, <1>12, FirstOfTodo DEF MergeMiss, NextMiss
  <2>2. \/ /\ m # 0 /\ MSHR' = [MSHR EXCEPT ![m] = g]
           /\ UNCHANGED inflight_fills
        \/ /\ f # 0 /\ inflight_fills' = [inflight_fills EXCEPT ![f] = h]
           /\ UNCHANGED MSHR
    BY <1>12, <2>1 DEF MergeMiss
  <2>3. UNCHANGED <<block, phase>> /\ phase = "misses" /\ todo # << >> /\ todo' = Tail(todo)
    BY <1>12 DEF MergeMiss, NextMiss
  <2>4. ASSUME NEW a \in Line, NEW entries \in Seq(Fill), NEW entries2 \in Seq(Fill),
               NEW k, MergesIn(entries, entries2, k, pkt)
        PROVE  Count(entries2, FillsOf(a)) = Count(entries, FillsOf(a))
    <3> DEFINE e == Merge(entries[k], ToFill(pkt))
    <3>1. /\ entries[k] \in Fill /\ entries[k].addr = pkt.addr /\ e \in Fill /\ e.addr = pkt.addr
          /\ Count(entries2, FillsOf(a)) + One(entries[k] \in FillsOf(a))
                = Count(entries, FillsOf(a)) + One(e \in FillsOf(a))
      BY <2>4 DEF MergesIn
    <3> HIDE DEF e, pkt
    <3>2. One(entries[k] \in FillsOf(a)) = One(e \in FillsOf(a))
      BY <3>1 DEF One, FillsOf
    <3>3. Count(entries2, FillsOf(a)) \in Nat /\ Count(entries, FillsOf(a)) \in Nat
      BY CountType
    <3>4. One(e \in FillsOf(a)) \in {0, 1}
      BY <1>3
    <3>5. QED
      BY <3>1, <3>2, <3>3, <3>4
  <2>5. m # 0 => MergesIn(MSHR, [MSHR EXCEPT ![m] = g], m, pkt)
    BY <1>1, <2>1, MergedIn DEF InMSHR
  <2>6. f # 0 => MergesIn(inflight_fills, [inflight_fills EXCEPT ![f] = h], f, pkt)
    BY <1>1, <2>1, MergedIn DEF InFills
  <2> HIDE DEF pkt, m, f, g, h
  <2>7. \A a \in Line : /\ Count(MSHR', FillsOf(a)) = Count(MSHR, FillsOf(a))
                        /\ Count(inflight_fills', FillsOf(a)) = Count(inflight_fills, FillsOf(a))
    <3>1. CASE m # 0 /\ MSHR' = [MSHR EXCEPT ![m] = g] /\ UNCHANGED inflight_fills
      BY <1>1, <2>4, <2>5, <3>1
    <3>2. CASE f # 0 /\ inflight_fills' = [inflight_fills EXCEPT ![f] = h] /\ UNCHANGED MSHR
      BY <1>1, <2>4, <2>6, <3>2
    <3>3. QED
      BY <2>2, <3>1, <3>2
  <2>8. \A a : WaysOf(block', a) = WaysOf(block, a)
    BY <2>3 DEF WaysOf
  <2>9. phase' = "misses" /\ \A i \in 1 .. Len(todo') : WaysOf(block', todo'[i].addr) = {}
    BY <1>m, <2>3
  <2>10. \A a \in Line : Cardinality(WaysOf(block', a)) + Count(MSHR', FillsOf(a))
                          + Count(inflight_fills', FillsOf(a)) <= 1
    BY <2>7, <2>8 DEF Single
  <2>11. QED
    BY <2>9, <2>10 DEF Single
<1>13. CASE ForwardMiss
  <2> DEFINE pkt == todo[1]
             g == ToFill(pkt)
  <2>1. pkt = Head(todo) /\ pkt \in TagLookup /\ Len(todo) \in Nat \ {0}
    BY <1>1, <1>13, FirstOfTodo DEF ForwardMiss, NewMiss, NextMiss
  <2>2. /\ MSHR' = (IF pkt.skip THEN MSHR ELSE Append(MSHR, g))
        /\ InMSHR(pkt) = 0 /\ InFills(pkt) = 0
        /\ UNCHANGED <<block, inflight_fills, phase>> /\ phase = "misses"
        /\ todo # << >> /\ todo' = Tail(todo)
    BY <1>13, <2>1 DEF ForwardMiss, NewMiss, NextMiss
  <2>3. g \in Fill /\ g.addr = pkt.addr
    BY <2>1, ToFillType DEF ToFill
  <2>4. WaysOf(block, pkt.addr) = {}
    BY <2>1, <2>2 DEF Single
  <2>5. Count(MSHR, FillsOf(pkt.addr)) = 0 /\ Count(inflight_fills, FillsOf(pkt.addr)) = 0
    <3>1. \A i \in 1 .. Len(MSHR) : MSHR[i] \notin FillsOf(pkt.addr)
      BY <1>1, <2>2, IndexFound DEF InMSHR, FillsOf
    <3>2. \A i \in 1 .. Len(inflight_fills) : inflight_fills[i] \notin FillsOf(pkt.addr)
      BY <1>1, <2>2, IndexFound DEF InFills, FillsOf
    <3>3. QED
      BY <1>1, <3>1, <3>2, CountZero
  <2> HIDE DEF pkt, g
  <2>6. \A a : WaysOf(block', a) = WaysOf(block, a)
    BY <2>2 DEF WaysOf
  <2>7. ASSUME NEW a \in Line
        PROVE  Cardinality(WaysOf(block', a)) + Count(MSHR', FillsOf(a))
                          + Count(inflight_fills', FillsOf(a)) <= 1
    <3>1. CASE pkt.skip
      BY <3>1, <1>2, <2>2, <2>6
    <3>2. CASE ~pkt.skip
      <4>1. Count(MSHR', FillsOf(a)) = Count(MSHR, FillsOf(a)) + One(g \in FillsOf(a))
        BY <3>2, <1>1, <2>2, <2>3, CountAppend
      <4>2. CASE a = pkt.addr
        <5>1. Cardinality(WaysOf(block', a)) = 0
          BY <2>4, <2>6, <4>2, FS_EmptySet
        <5>2. One(g \in FillsOf(a)) \in {0, 1}
          BY <1>3
        <5>3. QED
          BY <4>1, <4>2, <5>1, <5>2, <2>2, <2>5
      <4>3. CASE a # pkt.addr
        <5>1. One(g \in FillsOf(a)) = 0
          BY <2>3, <4>3 DEF One, FillsOf
        <5>2. Cardinality(WaysOf(block', a)) = Cardinality(WaysOf(block, a))
          BY <2>6
        <5>3. QED
          BY <4>1, <5>1, <5>2, <2>2, <1>2
      <4>4. QED
        BY <4>2, <4>3
    <3>3. QED
      BY <3>1, <3>2
  <2>8. phase' = "misses" /\ \A i \in 1 .. Len(todo') : WaysOf(block', todo'[i].addr) = {}
    BY <1>m, <2>2
  <2>9. QED
    BY <2>7, <2>8 DEF Single
<1>14. CASE StallMiss
  <2>1. UNCHANGED <<block, MSHR, inflight_fills, phase>> /\ phase = "misses"
        /\ todo # << >> /\ todo' = Tail(todo)
    BY <1>14 DEF StallMiss, NewMiss, NextMiss
  <2>2. phase' = "misses" /\ \A i \in 1 .. Len(todo') : WaysOf(block', todo'[i].addr) = {}
    BY <1>m, <2>1
  <2>3. \A a \in Line : WaysOf(block', a) = WaysOf(block, a)
    BY <2>1 DEF WaysOf
  <2>4. QED
    BY <1>k, <2>1, <2>2, <2>3 DEF Single
<1>15. CASE \/ FinishTranslation \/ StartFills \/ StartInitiate
            \/ \E k \in 1 .. NumSources : InitiateFromUpper(k)
            \/ InitiateFromPrefetches \/ EndCycle
            \/ \E u \in Upper :
                 \/ Receive(u)
                 \/ \E q \in RequestQueues, type \in Types, a \in Line :
                       Ask(u, q, type, a) \/ Send(u, q, type, a)
            \/ \E a \in Line : LowerAnswer(a)
            \/ \E q \in RequestQueues : LowerTake(q)
            \/ TranslateTake
            \/ \E page \in Pages : TranslateAnswer(page)
  <2>1. UNCHANGED <<block, MSHR, inflight_fills>> /\ phase' \notin {"hits", "misses"}
    BY ZenonT(40), <1>15 DEF FinishTranslation, StartFills, StartInitiate, InitiateFromUpper,
                 InitiateFromPrefetches, EndCycle, Receive, Ask, Send, MoreRequests, LowerAnswer,
                 LowerTake, TranslateTake, TranslateAnswer, operateVars
  <2>2. \A a \in Line : WaysOf(block', a) = WaysOf(block, a)
    BY <2>1 DEF WaysOf
  <2>3. QED
    BY <1>k, <1>p, <2>1, <2>2
<1>16. CASE (\E a \in Line, fillThisLevel \in BOOLEAN : PrefetchLine(a, fillThisLevel))
            \/ UNCHANGED cacheVars
  <2>1. UNCHANGED <<block, MSHR, inflight_fills, phase, todo, kept>>
    BY <1>16 DEF PrefetchLine, MoreRequests, cacheVars, operateVars
  <2>2. \A a : WaysOf(block', a) = WaysOf(block, a)
    BY <2>1 DEF WaysOf
  <2>3. QED
    BY <2>1, <2>2 DEF Single
<1>17. QED
  BY <1>4, <1>5, <1>6, <1>7, <1>8, <1>9, <1>10, <1>11, <1>12, <1>13, <1>14, <1>15, <1>16
     DEF CacheNext, Operate, Environment

\* The empty cache holds no line.
LEMMA SingleInitially == CacheInit => Single
<1> SUFFICES ASSUME CacheInit, NEW a \in Line
             PROVE  Cardinality(WaysOf(block, a)) + Count(MSHR, FillsOf(a))
                          + Count(inflight_fills, FillsOf(a)) <= 1
  BY DEF Single, CacheInit, QuietInit
<1>1. WaysOf(block, a) = {}
  BY CacheAssumption DEF CacheInit, QuietInit, WaysOf
<1>2. Count(MSHR, FillsOf(a)) = 0 /\ Count(inflight_fills, FillsOf(a)) = 0
  BY CountEmpty DEF CacheInit, QuietInit
<1>3. Cardinality(WaysOf(block, a)) = 0
  BY <1>1, FS_EmptySet
<1>4. QED
  BY <1>2, <1>3

\* A cache whose writes are stores never holds a line twice, though misses are
\* decided in a later phase than the tag checks, and MSHRs, fills and blocks are
\* looked up apart.  Where writes are writebacks (~MatchOffsetBits) it may.
THEOREM NoBlockTwice == MatchOffsetBits => (CacheSpec => []NoDuplicateBlock)
<1> SUFFICES ASSUME MatchOffsetBits PROVE CacheSpec => []NoDuplicateBlock
  OBVIOUS
<1>1. CacheInit => TypeInv /\ Single
  BY TypeInvInitially, SingleInitially
<1>2. TypeInv /\ Single /\ [CacheNext]_cacheVars => TypeInv' /\ Single'
  BY TypedStep, SizedStep, TypeInvStutters, SingleStep DEF TypeInv
<1>3. TypeInv /\ Single => NoDuplicateBlock
  <2> SUFFICES ASSUME TypeInv, Single, NEW a \in Line
               PROVE  Cardinality(WaysOf(block, a)) <= 1
    BY DEF NoDuplicateBlock, HitWays, WaysOf
  <2>1. MSHR \in Seq(Fill) /\ inflight_fills \in Seq(Fill) /\ WaysOf(block, a) \in SUBSET Way
    BY DEF TypeInv, CacheTyped, WaysOf
  <2>2. Count(MSHR, FillsOf(a)) \in Nat /\ Count(inflight_fills, FillsOf(a)) \in Nat
        /\ Cardinality(WaysOf(block, a)) \in Nat
    BY <2>1, CountType, WaysFinite
  <2>3. QED
    BY <2>2 DEF Single
<1>4. QED
  BY <1>1, <1>2, <1>3, PTL DEF CacheSpec

-----------------------------------------------------------------------------
(* The stash serves the translated lookups first, and stays small. *)

Ordered(s) ==
    \A i, j \in 1 .. Len(s) : (i < j /\ s[j].translated) => s[i].translated

Untranslateds == {x \in TagLookup : ~x.translated}

\* The untranslated lookups outside the stash, which may still join it.
Loose == Count(inflight_tag_check, Untranslateds) + Count(todo, Untranslateds)
            + Count(kept, Untranslateds)

\* What may be in flight at a time.
Flight == MaxTag * HitLatency

\* can_translate lets untranslated lookups in only during a cycle that began with
\* room in the stash; those in flight already count against its bound.
Stashed ==
    /\ Ordered(translation_stash)
    /\ avail => phase = "initiate" /\ Len(translation_stash) <= MshrSize - 1
    /\ Len(translation_stash) + Loose <= MshrSize - 1 + Flight

\* The sizes are numbers.
LEMMA StashMany ==
  ASSUME CacheTyped
  PROVE  /\ Len(translation_stash) \in Nat
         /\ Count(inflight_tag_check, Untranslateds) \in Nat
         /\ Count(todo, Untranslateds) \in Nat /\ Count(kept, Untranslateds) \in Nat
         /\ Count(inflight_tag_check, Untranslateds) <= Len(inflight_tag_check)
         /\ Count(todo, Untranslateds) <= Len(todo) /\ Count(kept, Untranslateds) <= Len(kept)
         /\ Len(inflight_tag_check) \in Nat /\ Len(todo) \in Nat /\ Len(kept) \in Nat
         /\ MshrSize \in Nat /\ Flight \in Nat /\ MshrSize > 0
BY CountType, LenProperties, Bounds DEF CacheTyped, Flight

\* Untranslated lookups may join an ordered stash at its end.
LEMMA OrderedJoined ==
  ASSUME NEW s \in Seq(TagLookup), NEW t \in Seq(TagLookup), Ordered(s),
         \A i \in 1 .. Len(t) : ~t[i].translated
  PROVE  Ordered(s \o t)
<1> DEFINE st == s \o t
<1>1. /\ Len(st) = Len(s) + Len(t) /\ Len(s) \in Nat /\ Len(t) \in Nat
      /\ \A i \in 1 .. Len(s) + Len(t) : st[i] = IF i <= Len(s) THEN s[i] ELSE t[i - Len(s)]
  BY ConcatProperties, LenProperties
<1> HIDE DEF st
<1>2. ASSUME NEW i \in 1 .. Len(st), NEW j \in 1 .. Len(st), i < j, st[j].translated
      PROVE  st[i].translated
  <2>1. j <= Len(s)
    <3>1. CASE ~(j <= Len(s))
      <4>1. j - Len(s) \in 1 .. Len(t) /\ st[j] = t[j - Len(s)]
        BY <1>1, <3>1
      <4>2. QED
        BY <4>1, <1>2
    <3>2. QED
      BY <3>1
  <2>2. i \in 1 .. Len(s) /\ j \in 1 .. Len(s) /\ st[i] = s[i] /\ st[j] = s[j]
    BY <1>1, <1>2, <2>1
  <2>3. QED
    BY <1>2, <2>2 DEF Ordered
<1>3. QED
  BY <1>2 DEF Ordered, st

\* Lookups all translated are ordered.
LEMMA OrderedAll ==
  ASSUME NEW s, \A i \in 1 .. Len(s) : s[i].translated
  PROVE  Ordered(s)
BY DEF Ordered

\* As many are untranslated where the flags are the same.
LEMMA TranslatedAlike ==
  ASSUME NEW s \in Seq(TagLookup), NEW t \in Seq(TagLookup), Len(s) = Len(t),
         \A i \in 1 .. Len(s) : s[i].translated = t[i].translated
  PROVE  Count(s, Untranslateds) = Count(t, Untranslateds)
<1>1. \A i \in 1 .. Len(s) : s[i] \in TagLookup /\ t[i] \in TagLookup
  BY ElementOfSeq
<1>2. \A i \in 1 .. Len(s) : s[i] \in Untranslateds <=> t[i] \in Untranslateds
  BY <1>1 DEF Untranslateds
<1>3. QED
  BY <1>2, CountAlike

\* The stash begins empty.
LEMMA StashedInitially == CacheInit => Stashed
<1> SUFFICES ASSUME CacheInit PROVE Stashed
  OBVIOUS
<1>1. /\ translation_stash = << >> /\ inflight_tag_check = << >> /\ todo = << >> /\ kept = << >>
      /\ avail = FALSE /\ Len(<< >>) = 0
  BY DEF CacheInit, QuietInit
<1>2. Loose = 0
  BY <1>1, CountEmpty DEF Loose
<1>3. Ordered(translation_stash)
  BY <1>1 DEF Ordered
<1>4. QED
  <2>1. Len(translation_stash) = 0 /\ MshrSize \in Nat \ {0} /\ Flight \in Nat
    BY <1>1, Bounds DEF Flight
  <2>2. 0 + 0 <= MshrSize - 1 + Flight
    BY <2>1
  <2>3. QED
    BY <1>1, <1>2, <1>3, <2>1, <2>2 DEF Stashed

\* Every step keeps the stash ordered and within its bound.
LEMMA StashedStep ==
  ASSUME TypeInv, Stashed, [CacheNext]_cacheVars
  PROVE  Stashed'
<1>1. CacheTyped /\ Sized /\ CacheTyped' /\ Sized'
  BY TypedStep, SizedStep, TypeInvStutters DEF TypeInv
<1>2. /\ translation_stash \in Seq(TagLookup) /\ inflight_tag_check \in Seq(TagLookup)
      /\ todo \in Seq(TagLookup) /\ kept \in Seq(TagLookup)
      /\ translation_stash' \in Seq(TagLookup) /\ inflight_tag_check' \in Seq(TagLookup)
      /\ todo' \in Seq(TagLookup) /\ kept' \in Seq(TagLookup)
  BY <1>1 DEF CacheTyped
<1> DEFINE U == Untranslateds
<1>3. /\ Count(inflight_tag_check, U) \in Nat /\ Count(todo, U) \in Nat /\ Count(kept, U) \in Nat
      /\ Count(inflight_tag_check', U) \in Nat /\ Count(todo', U) \in Nat /\ Count(kept', U) \in Nat
      /\ Len(translation_stash) \in Nat /\ Len(translation_stash') \in Nat
      /\ MshrSize \in Nat /\ Flight \in Nat /\ MshrSize > 0
  BY <1>2, CountType, LenProperties, Bounds DEF Flight
<1>4. /\ Loose = Count(inflight_tag_check, U) + Count(todo, U) + Count(kept, U)
      /\ Loose' = Count(inflight_tag_check', U) + Count(todo', U) + Count(kept', U)
      /\ Loose \in Nat /\ Loose' \in Nat
  BY <1>3 DEF Loose, Untranslateds, TagLookup
<1> HIDE DEF U
\* The stash is left alone and no untranslated lookup comes.
<1>s. ASSUME UNCHANGED translation_stash, Loose' <= Loose,
             avail' => avail /\ UNCHANGED phase
      PROVE  Stashed'
  <2>1. Ordered(translation_stash)' /\ Len(translation_stash') = Len(translation_stash)
    BY <1>s DEF Stashed, Ordered
  <2>2. Len(translation_stash') + Loose' <= MshrSize - 1 + Flight
    <3>1. Len(translation_stash) + Loose <= MshrSize - 1 + Flight
      BY DEF Stashed
    <3>2. QED
      BY <1>s, <1>3, <1>4, <2>1, <3>1
  <2>3. avail' => phase' = "initiate" /\ Len(translation_stash') <= MshrSize - 1
    BY <1>s, <2>1 DEF Stashed
  <2>4. QED
    BY <2>1, <2>2, <2>3 DEF Stashed
<1>5. CASE StartCycle
  <2>1. Count(inflight_tag_check', U) = Count(inflight_tag_check, U)
    <3>1. /\ Len(inflight_tag_check') = Len(inflight_tag_check)
          /\ \A i \in 1 .. Len(inflight_tag_check) :
                inflight_tag_check'[i].translated = inflight_tag_check[i].translated
      BY <1>2, <1>5, AgedLookups DEF StartCycle
    <3>2. \A i \in 1 .. Len(inflight_tag_check) :
             inflight_tag_check[i] \in TagLookup /\ inflight_tag_check'[i] \in TagLookup
      BY <1>2, <3>1, ElementOfSeq
    <3>3. \A i \in 1 .. Len(inflight_tag_check) :
             inflight_tag_check'[i] \in U <=> inflight_tag_check[i] \in U
      BY <3>1, <3>2 DEF U, Untranslateds
    <3>4. QED
      BY <1>2, <3>1, <3>3, CountAlike
  <2>2. UNCHANGED <<todo, kept, translation_stash, avail>> /\ phase = "outside"
    BY <1>5 DEF StartCycle, translateVars
  <2>3. ~avail
    BY <2>2 DEF Stashed
  <2>4. QED
    BY <1>s, <1>4, <1>3, <2>1, <2>2, <2>3
<1>6. CASE FinishTranslation
  <2> DEFINE page == Head(lower_translate.returned)
  <2>1. /\ translation_stash' = Restarted(translation_stash, page)
        /\ inflight_tag_check' = TranslatedAll(inflight_tag_check, page)
        /\ UNCHANGED <<todo, kept, avail>> /\ phase = "returns" /\ UNCHANGED phase
    BY <1>6 DEF FinishTranslation, operateVars
  <2> HIDE DEF page
  <2>2. Len(translation_stash') = Len(translation_stash)
    BY <1>2, <2>1, RestartedType
  <2>3. Count(inflight_tag_check', U) <= Count(inflight_tag_check, U)
    <3>1. /\ Len(inflight_tag_check') = Len(inflight_tag_check)
          /\ \A i \in 1 .. Len(inflight_tag_check) : inflight_tag_check'[i].translated =
                (inflight_tag_check[i].translated \/ PageOf[inflight_tag_check[i].addr] = page)
      BY <1>2, <2>1, TranslatedType
    <3>2. \A i \in 1 .. Len(inflight_tag_check) :
             inflight_tag_check[i] \in TagLookup /\ inflight_tag_check'[i] \in TagLookup
      BY <1>2, <3>1, ElementOfSeq
    <3>3. \A i \in 1 .. Len(inflight_tag_check) :
             inflight_tag_check'[i] \in U => inflight_tag_check[i] \in U
      BY <3>1, <3>2 DEF U, Untranslateds
    <3>4. QED
      BY <1>2, <3>1, <3>3, CountMonotone
  <2>4. Ordered(translation_stash')
    <3>1. PICK n, A, B, C : PartsOf(translation_stash, page, n, A, B, C)
      BY <1>2, RestartedParts
    <3>2. /\ n \in 0 .. Len(translation_stash)
          /\ A \in Seq(TagLookup) /\ B \in Seq(TagLookup) /\ C \in Seq(TagLookup)
          /\ translation_stash' = (A \o B) \o C
          /\ \A i \in 1 .. Len(A) : A[i].translated
          /\ \A i \in 1 .. Len(B) : B[i].translated
          /\ n < Len(translation_stash) => ~translation_stash[n + 1].translated
          /\ \A i \in 1 .. Len(C) : \E j \in n + 1 .. Len(translation_stash) :
                C[i] = translation_stash[j]
      BY <2>1, <3>1 DEF PartsOf
    <3> DEFINE AB == A \o B
    <3>3. AB \in Seq(TagLookup) /\ Ordered(AB)
      <4>1. /\ AB \in Seq(TagLookup) /\ Len(AB) = Len(A) + Len(B)
            /\ Len(A) \in Nat /\ Len(B) \in Nat
            /\ \A i \in 1 .. Len(A) + Len(B) : AB[i] = IF i <= Len(A) THEN A[i] ELSE B[i - Len(A)]
        BY <3>2, ConcatProperties, LenProperties
      <4> HIDE DEF AB
      <4>2. \A i \in 1 .. Len(AB) : AB[i].translated
        <5> SUFFICES ASSUME NEW i \in 1 .. Len(AB) PROVE AB[i].translated
          OBVIOUS
        <5>1. CASE i <= Len(A)
          <6>1. i \in 1 .. Len(A) /\ AB[i] = A[i]
            BY <4>1, <5>1
          <6>2. QED
            BY <3>2, <6>1
        <5>2. CASE ~(i <= Len(A))
          <6>1. i - Len(A) \in 1 .. Len(B) /\ AB[i] = B[i - Len(A)]
            BY <4>1, <5>2
          <6>2. QED
            BY <3>2, <6>1
        <5>3. QED
          BY <5>1, <5>2
      <4>3. QED
        BY <4>1, <4>2, OrderedAll
    <3>4. ASSUME NEW i \in 1 .. Len(C)
          PROVE  ~C[i].translated
      <4>1. PICK j \in n + 1 .. Len(translation_stash) : C[i] = translation_stash[j]
        BY <3>2
      <4>2. n + 1 \in 1 .. Len(translation_stash) /\ ~translation_stash[n + 1].translated
            /\ j \in 1 .. Len(translation_stash) /\ n + 1 <= j
        BY SMTT(30), <1>3, <3>2, <4>1
      <4>3. ~translation_stash[j].translated
        <5>1. CASE j = n + 1
          BY <5>1, <4>2
        <5>2. CASE n + 1 < j
          BY <5>2, <4>2 DEF Stashed, Ordered
        <5>3. n + 1 = j \/ n + 1 < j
          <6>1. n \in Nat /\ j \in Nat /\ n + 1 <= j
            BY <4>2, <1>3, <3>2
          <6>2. QED
            BY <6>1
        <5>4. QED
          BY <5>1, <5>2, <5>3
      <4>4. QED
        BY <4>1, <4>3
    <3> HIDE DEF AB
    <3>5. Ordered(AB \o C)
      BY <3>2, <3>3, <3>4, OrderedJoined
    <3>6. QED
      BY <3>2, <3>5 DEF AB
  <2>5. ~avail
    BY <2>1 DEF Stashed
  <2>6. QED
    <3>1. Len(translation_stash') + Loose' <= MshrSize - 1 + Flight
      <4>1. Len(translation_stash) + Loose <= MshrSize - 1 + Flight
        BY DEF Stashed
      <4>2. Loose' <= Loose
        BY <1>3, <1>4, <2>1, <2>3
      <4>3. QED
        BY SMTT(30), <1>3, <1>4, <2>2, <4>1, <4>2
    <3>2. QED
      BY <2>1, <2>4, <2>5, <3>1 DEF Stashed
<1>7. CASE StartInitiate
  <2>0. Len(inflight_tag_check) <= MaxTag * HitLatency
    <3>1. Len(inflight_tag_check) + Len(todo) + Len(kept)
             + (IF phase = "initiate" THEN budget ELSE 0) <= MaxTag * HitLatency
      BY <1>1 DEF Sized
    <3>2. Len(inflight_tag_check) \in Nat /\ Len(todo) \in Nat /\ Len(kept) \in Nat /\ budget \in Nat
      BY <1>1, <1>2, LenProperties, Bounds DEF CacheTyped
    <3>3. QED
      BY <1>3, <3>1, <3>2 DEF Flight
  <2>1. PICK n, moved : InitiateParts(n, moved)
    BY <1>1, <1>7, <2>0, InitiateMoves
  <2>2. /\ n \in 0 .. Len(translation_stash)
        /\ moved \in Seq(TagLookup) /\ Len(moved) = n
        /\ \A i \in 1 .. n : moved[i].translated = translation_stash[i].translated
                             /\ translation_stash[i].translated
        /\ inflight_tag_check' = inflight_tag_check \o moved
        /\ translation_stash' = SubSeq(translation_stash, n + 1, Len(translation_stash))
    BY <2>1 DEF InitiateParts
  <2>3. /\ Len(translation_stash') = Len(translation_stash) - n
        /\ \A i \in 1 .. Len(translation_stash) - n : translation_stash'[i] = translation_stash[n + i]
    BY SMTT(30), <1>2, <2>2, CountSplit
  <2>4. UNCHANGED <<todo, kept>> /\ phase' = "initiate"
        /\ avail' = (Len(translation_stash) < MshrSize)
    BY <1>7 DEF StartInitiate
  <2>5. Count(inflight_tag_check', U) = Count(inflight_tag_check, U)
    <3>1. \A i \in 1 .. Len(moved) : moved[i] \notin U
      BY <2>2 DEF U, Untranslateds
    <3>2. Count(moved, U) = 0
      BY <2>2, <3>1, CountZero
    <3>3. Count(inflight_tag_check \o moved, U) = Count(inflight_tag_check, U) + Count(moved, U)
      BY <1>2, <2>2, CountJoined
    <3>4. QED
      BY <1>3, <2>2, <3>2, <3>3
  <2>6. Ordered(translation_stash')
    <3> SUFFICES ASSUME NEW i \in 1 .. Len(translation_stash'), NEW j \in 1 .. Len(translation_stash'),
                        i < j, translation_stash'[j].translated
                 PROVE  translation_stash'[i].translated
      BY DEF Ordered
    <3>1. /\ n + i \in 1 .. Len(translation_stash) /\ n + j \in 1 .. Len(translation_stash)
          /\ n + i < n + j /\ translation_stash'[i] = translation_stash[n + i]
          /\ translation_stash'[j] = translation_stash[n + j]
      <4>1. n \in Nat /\ Len(translation_stash) \in Nat /\ n <= Len(translation_stash)
        BY <1>3, <2>2
      <4>2. /\ i \in 1 .. Len(translation_stash) - n /\ j \in 1 .. Len(translation_stash) - n
        BY <2>3
      <4>3. i \in Nat /\ j \in Nat /\ 1 <= i /\ i < j /\ j <= Len(translation_stash) - n
        BY <4>1, <4>2
      <4>4. /\ n + i \in 1 .. Len(translation_stash) /\ n + j \in 1 .. Len(translation_stash)
            /\ n + i < n + j
        BY <4>1, <4>3
      <4>5. /\ translation_stash'[i] = translation_stash[n + i]
            /\ translation_stash'[j] = translation_stash[n + j]
        BY <2>3, <4>2
      <4>6. QED
        BY <4>4, <4>5
    <3>2. QED
      BY <3>1 DEF Stashed, Ordered
  <2>7. Len(translation_stash') <= Len(translation_stash)
    BY <1>3, <2>2, <2>3
  <2>8. avail' => Len(translation_stash') <= MshrSize - 1
    <3>1. CASE avail'
      <4>1. Len(translation_stash) < MshrSize
        BY <2>4, <3>1
      <4>2. QED
        BY <1>3, <2>7, <4>1
    <3>2. QED
      BY <3>1
  <2>9. Len(translation_stash') + Loose' <= MshrSize - 1 + Flight
    <3>1. Len(translation_stash) + Loose <= MshrSize - 1 + Flight
      BY DEF Stashed
    <3>2. Loose' = Loose
      BY <1>3, <1>4, <2>4, <2>5
    <3>3. QED
      BY <1>3, <1>4, <2>7, <3>1, <3>2
  <2>10. QED
    BY <2>4, <2>6, <2>8, <2>9 DEF Stashed
\* New lookups: either they are translated, or there is room in the stash for
\* all that may be in flight.
<1>8. ASSUME NEW moved \in Seq(TagLookup), inflight_tag_check' = inflight_tag_check \o moved,
             \A i \in 1 .. Len(moved) : avail \/ moved[i].translated,
             UNCHANGED <<translation_stash, avail, todo, kept, phase>>
      PROVE  Stashed'
  <2>1. CASE avail
    <3>1. Len(translation_stash) <= MshrSize - 1
      BY <2>1 DEF Stashed
    <3>2. Loose' <= Flight
      <4>1. /\ Count(inflight_tag_check', U) <= Len(inflight_tag_check')
            /\ Count(todo', U) <= Len(todo') /\ Count(kept', U) <= Len(kept')
        BY <1>2, CountType
      <4>2. Len(inflight_tag_check') + Len(todo') + Len(kept')
               + (IF phase' = "initiate" THEN budget' ELSE 0) <= Flight
        BY <1>1 DEF Sized, Flight
      <4>3. /\ Len(inflight_tag_check') \in Nat /\ Len(todo') \in Nat /\ Len(kept') \in Nat
            /\ budget' \in Nat
        BY <1>1, <1>2, LenProperties, Bounds DEF CacheTyped
      <4>4. Len(inflight_tag_check') + Len(todo') + Len(kept') <= Flight
        BY SMTT(30), <1>3, <4>2, <4>3
      <4>5. /\ Count(inflight_tag_check', U) \in Nat /\ Count(todo', U) \in Nat
            /\ Count(kept', U) \in Nat /\ Flight \in Nat
        BY <1>3
      <4>6. Count(inflight_tag_check', U) + Count(todo', U) + Count(kept', U) <= Flight
        BY <4>1, <4>3, <4>4, <4>5
      <4>7. QED
        BY <1>4, <4>6
    <3>3. Len(translation_stash') + Loose' <= MshrSize - 1 + Flight
      <4>1. Len(translation_stash') = Len(translation_stash)
        BY <1>8
      <4>2. QED
        BY SMTT(30), <1>3, <1>4, <3>1, <3>2, <4>1
    <3>4. QED
      BY <1>8, <3>3 DEF Stashed, Ordered
  <2>2. CASE ~avail
    <3>1. \A i \in 1 .. Len(moved) : moved[i] \notin U
      BY <1>8, <2>2 DEF U, Untranslateds
    <3>2. Count(moved, U) = 0
      BY <3>1, CountZero
    <3>3. Count(inflight_tag_check \o moved, U) = Count(inflight_tag_check, U) + Count(moved, U)
      BY <1>2, CountJoined
    <3>4. Count(inflight_tag_check', U) = Count(inflight_tag_check, U)
      BY <1>3, <1>8, <3>2, <3>3
    <3>5. QED
      BY <1>s, <1>3, <1>4, <1>8, <2>2, <3>4
  <2>3. QED
    BY <2>1, <2>2
<1>9. ASSUME NEW k \in 1 .. NumSources, InitiateFromUpper(k)
      PROVE  Stashed'
  <2>1. PICK u, q, n, taken : UpperParts(u, q, n, taken)
    BY <1>1, <1>9, UpperMoves
  <2>2. /\ taken \in Seq(TagLookup) /\ \A i \in 1 .. Len(taken) : avail \/ taken[i].translated
        /\ inflight_tag_check' = inflight_tag_check \o taken
    BY <2>1 DEF UpperParts
  <2>3. UNCHANGED <<translation_stash, avail, todo, kept, phase>>
    BY <1>9 DEF InitiateFromUpper, translateVars
  <2>4. QED
    BY <1>8, <2>2, <2>3
<1>10. CASE InitiateFromPrefetches
  <2>1. PICK n, moved : PrefetchParts(n, moved)
    BY <1>1, <1>10, PrefetchMoves
  <2>2. /\ moved \in Seq(TagLookup) /\ \A i \in 1 .. Len(moved) : avail \/ moved[i].translated
        /\ inflight_tag_check' = inflight_tag_check \o moved
    BY <2>1 DEF PrefetchParts
  <2>3. UNCHANGED <<translation_stash, avail, todo, kept, phase>>
    BY <1>10 DEF InitiateFromPrefetches, translateVars
  <2>4. QED
    BY <1>8, <2>2, <2>3
<1>11. CASE StartTagChecks
  <2>1. PICK stay, new : TagChecksParts(stay, new)
    BY <1>2, <1>11, TagChecksShared
  <2>2. /\ stay \in Seq(TagLookup) /\ new \in Seq(TagLookup)
        /\ translation_stash' = stay \o new
        /\ Len(stay) = Len(translation_stash)
        /\ \A i \in 1 .. Len(stay) : stay[i].translated = translation_stash[i].translated
        /\ \A i \in 1 .. Len(new) : ~new[i].translated
    BY <2>1 DEF TagChecksParts
  <2>3. phase = "initiate" /\ UNCHANGED kept /\ avail' = FALSE
    BY <1>11 DEF StartTagChecks
  <2>4. todo = << >> /\ Count(todo, U) = 0
    BY <1>1, <2>3, CountEmpty DEF Sized
  <2>5. Ordered(translation_stash')
    <3>1. Ordered(stay)
      BY <2>2 DEF Stashed, Ordered
    <3>2. QED
      BY <2>2, <3>1, OrderedJoined
  <2>6. Count(inflight_tag_check', U) + Count(todo', U) + Len(new) = Count(inflight_tag_check, U)
    <3>1. IssueBlind(U)
      BY DEF IssueBlind, U, Untranslateds
    <3>2. Count(inflight_tag_check', U) + Count(todo', U) + Count(translation_stash', U)
             = Count(inflight_tag_check, U) + Count(translation_stash, U)
      BY <1>2, <1>11, <3>1, TagChecksShared
    <3>3. Count(stay \o new, U) = Count(stay, U) + Count(new, U)
      BY <2>2, CountJoined
    <3>4. Count(stay, U) = Count(translation_stash, U)
      BY <1>2, <2>2, TranslatedAlike DEF U
    <3>5. Count(new, U) = Len(new)
      <4>1. \A i \in 1 .. Len(new) : new[i] \in U
        BY <2>2, ElementOfSeq DEF U, Untranslateds
      <4>2. QED
        BY <2>2, <4>1, CountAll
    <3>6. Count(translation_stash, U) \in Nat /\ Len(new) \in Nat
      BY <1>2, <2>2, CountType, LenProperties
    <3>7. Count(translation_stash', U) = Count(translation_stash, U) + Len(new)
      BY <2>2, <3>3, <3>4, <3>5
    <3>8. QED
      BY SMTT(30), <1>3, <3>2, <3>6, <3>7
  <2>7. Len(translation_stash') = Len(translation_stash) + Len(new) /\ Len(new) \in Nat
    <3>1. Len(stay \o new) = Len(stay) + Len(new) /\ Len(new) \in Nat
      BY <2>2, ConcatProperties, LenProperties
    <3>2. QED
      BY <2>2, <3>1
  <2>8. Len(translation_stash') + Loose' = Len(translation_stash) + Loose
    <3>1. Loose = Count(inflight_tag_check, U) + Count(kept, U)
      BY <1>3, <1>4, <2>4
    <3>2. Loose' = Count(inflight_tag_check', U) + Count(todo', U) + Count(kept, U)
      BY <1>4, <2>3
    <3>3. /\ Count(inflight_tag_check, U) \in Nat /\ Count(kept, U) \in Nat
          /\ Count(inflight_tag_check', U) \in Nat /\ Count(todo', U) \in Nat
          /\ Len(translation_stash) \in Nat /\ Len(new) \in Nat
      BY <1>3, <2>7
    <3>4. Len(new) + Loose' = Loose
      BY <2>6, <3>1, <3>2, <3>3
    <3>5. Loose' \in Nat
      BY <1>4
    <3>6. QED
      BY <2>7, <3>3, <3>4, <3>5
  <2>9. QED
    BY <2>3, <2>5, <2>8 DEF Stashed
<1>12. ASSUME todo # << >>, todo' = Tail(todo), UNCHANGED <<translation_stash, avail, inflight_tag_check, phase>>,
              UNCHANGED kept \/ (\E y \in TagLookup : /\ y.translated = todo[1].translated
                                                      /\ kept' = Append(kept, y))
       PROVE  Stashed'
  <2>1. todo[1] \in TagLookup /\ Count(todo, U) = One(todo[1] \in U) + Count(todo', U)
    BY <1>1, <1>12, FirstOfTodo
  <2>2. CASE UNCHANGED kept
    <3>1. One(todo[1] \in U) \in {0, 1}
      BY DEF One
    <3>2. Loose' <= Loose
      BY <1>3, <1>4, <1>12, <2>1, <2>2, <3>1
    <3>3. QED
      BY <1>s, <1>12, <3>2
  <2>3. ASSUME NEW y \in TagLookup, y.translated = todo[1].translated, kept' = Append(kept, y)
        PROVE  Stashed'
    <3>1. Count(kept', U) = Count(kept, U) + One(y \in U)
      BY <1>2, <2>3, CountAppend
    <3>2. One(y \in U) = One(todo[1] \in U)
      BY <2>1, <2>3 DEF One, U, Untranslateds
    <3>3. One(y \in U) \in {0, 1}
      BY DEF One
    <3>4. Loose' = Loose
      BY SMTT(30), <1>3, <1>4, <1>12, <2>1, <3>1, <3>2, <3>3
    <3>5. QED
      BY <1>s, <3>4, <1>4, <1>12, <3>4
  <2>4. QED
    BY <1>12, <2>2, <2>3
<1>13. CASE TryMiss
  <2>1. /\ todo # << >> /\ todo' = Tail(todo) /\ todo[1] \in TagLookup
        /\ kept' = Append(kept, Told(todo[1]))
        /\ UNCHANGED <<translation_stash, avail, inflight_tag_check, phase>>
    BY <1>1, <1>13, FirstOfTodo DEF TryMiss, translateVars
  <2>2. Told(todo[1]) \in TagLookup /\ Told(todo[1]).translated = todo[1].translated
    BY <2>1, ToldType DEF TagLookup
  <2>3. QED
    BY <1>12, <2>1, <2>2
<1>14. CASE StallMiss
  <2>1. /\ todo # << >> /\ todo' = Tail(todo) /\ todo[1] \in TagLookup
        /\ kept' = Append(kept, todo[1])
        /\ UNCHANGED <<translation_stash, avail, inflight_tag_check, phase>>
    BY <1>1, <1>14, FirstOfTodo DEF StallMiss, NewMiss, NextMiss, translateVars
  <2>2. QED
    BY <1>12, <2>1
<1>15. CASE TryHit \/ HandleWrite \/ MergeMiss \/ ForwardMiss
  <2>1. /\ todo # << >> /\ todo' = Tail(todo) /\ UNCHANGED kept
        /\ UNCHANGED <<translation_stash, avail, inflight_tag_check, phase>>
    BY <1>15 DEF TryHit, HandleWrite, MergeMiss, ForwardMiss, NewMiss, NextMiss, translateVars
  <2>2. QED
    BY <1>12, <2>1
<1>16. CASE StartMisses
  <2>1. todo = << >> /\ todo' = kept /\ kept' = << >> /\ phase = "hits"
        /\ UNCHANGED <<translation_stash, avail, inflight_tag_check>>
    BY <1>16 DEF StartMisses, translateVars
  <2>2. Count(kept', U) = 0 /\ Count(todo, U) = 0
    BY <2>1, CountEmpty
  <2>3. ~avail
    BY <2>1 DEF Stashed
  <2>4. QED
    BY <1>s, <1>3, <1>4, <2>1, <2>2, <2>3
<1>17. CASE EndCycle
  <2>1. inflight_tag_check' = kept \o inflight_tag_check /\ kept' = << >> /\ phase = "misses"
        /\ UNCHANGED <<translation_stash, avail, todo>>
    BY <1>17 DEF EndCycle, translateVars
  <2>2. Count(kept', U) = 0
    BY <2>1, CountEmpty
  <2>3. Count(inflight_tag_check', U) = Count(kept, U) + Count(inflight_tag_check, U)
    BY <1>2, <2>1, CountJoined
  <2>4. ~avail
    BY <2>1 DEF Stashed
  <2>5. QED
    BY <1>s, <1>3, <1>4, <2>1, <2>2, <2>3, <2>4
<1>18. CASE StartFills
  <2>1. phase = "returns" /\ UNCHANGED <<translation_stash, avail, inflight_tag_check, todo, kept>>
    BY <1>18 DEF StartFills, translateVars
  <2>2. ~avail
    BY <2>1 DEF Stashed
  <2>3. QED
    BY <1>s, <1>3, <1>4, <2>1, <2>2
<1>19. CASE \/ FinishPacket \/ (\E w \in Way \cup {Bypass} : HandleFill(w))
            \/ \E u \in Upper :
                 \/ Receive(u)
                 \/ \E q \in RequestQueues, type \in Types, a \in Line :
                       Ask(u, q, type, a) \/ Send(u, q, type, a)
            \/ \E a \in Line : LowerAnswer(a)
            \/ \E a \in Line, fillThisLevel \in BOOLEAN : PrefetchLine(a, fillThisLevel)
            \/ \E q \in RequestQueues : LowerTake(q)
            \/ TranslateTake
            \/ \E page \in Pages : TranslateAnswer(page)
            \/ UNCHANGED cacheVars
  <2>1. UNCHANGED <<translation_stash, avail, phase, inflight_tag_check, todo, kept>>
    BY ZenonT(40), <1>19 DEF FinishPacket, HandleFill, Receive, Ask, Send, LowerAnswer, PrefetchLine,
                 LowerTake, TranslateTake, TranslateAnswer, cacheVars, operateVars, translateVars
  <2>2. QED
    BY <1>s, <1>3, <1>4, <2>1
<1>20. QED
  BY <1>5, <1>6, <1>7, <1>9, <1>10, <1>11, <1>13, <1>14, <1>15, <1>16, <1>17, <1>18, <1>19
     DEF CacheNext, Operate, Environment

\* No stashed lookup waits behind one whose translation is missing, and the stash
\* stays within what the MSHRs and the tag checks allow, although can_translate is
\* decided once a cycle for lookups that come later in it.
THEOREM StashStaysServable == CacheSpec => []StashServesTranslated
<1>1. CacheInit => TypeInv /\ Stashed
  BY TypeInvInitially, StashedInitially
<1>2. TypeInv /\ Stashed /\ [CacheNext]_cacheVars => TypeInv' /\ Stashed'
  BY TypedStep, SizedStep, TypeInvStutters, StashedStep DEF TypeInv
<1>3. TypeInv /\ Stashed => StashServesTranslated
  <2> SUFFICES ASSUME TypeInv, Stashed PROVE StashServesTranslated
    OBVIOUS
  <2>1. DOMAIN translation_stash = 1 .. Len(translation_stash)
    BY LenProperties DEF TypeInv, CacheTyped
  <2>2. Loose \in Nat
    BY StashMany DEF TypeInv, Loose
  <2>3. Len(translation_stash) <= MshrSize - 1 + MaxTag * HitLatency
    BY <2>2, StashMany DEF TypeInv, Stashed, Flight
  <2>4. QED
    BY <2>1, <2>3 DEF Stashed, Ordered, StashServesTranslated
<1>4. QED
  BY <1>1, <1>2, <1>3, PTL DEF CacheSpec

-----------------------------------------------------------------------------
(* An answer is under way for every translation asked for. *)

UnderWay(tlb, owed, page) ==
    \/ \E i \in 1 .. Len(tlb.RQ) : tlb.RQ[i] = page
    \/ \E i \in 1 .. Len(tlb.returned) : tlb.returned[i] = page
    \/ owed[page] > 0

Served(tlb, owed) ==
    {x \in TagLookup : (x.issued /\ ~x.translated) => UnderWay(tlb, owed, PageOf[x.addr])}

Known == {x \in TagLookup : x.translated}

\* Only translated lookups are checked, and a prefetch asks for its translation
\* after it has left its queue.
Awaited ==
    /\ Every(inflight_tag_check, Served(lower_translate, atTLB))
    /\ Every(translation_stash, Served(lower_translate, atTLB))
    /\ Every(todo, Known) /\ Every(kept, Known)
    /\ Every(internal_PQ, {x \in TagLookup : ~x.issued})

\* A lookup as far as another, of the same line, is served like it.
LEMMA ServedAlike ==
  ASSUME NEW tlb, NEW owed, NEW s \in Seq(TagLookup), NEW t \in Seq(TagLookup),
         Len(s) = Len(t), Every(t, Served(tlb, owed)),
         \A i \in 1 .. Len(t) : /\ s[i].addr = t[i].addr /\ s[i].issued = t[i].issued
                                /\ s[i].translated = t[i].translated
  PROVE  Every(s, Served(tlb, owed))
<1>1. \A i \in 1 .. Len(s) : s[i] \in TagLookup /\ t[i] \in Served(tlb, owed)
  BY ElementOfSeq DEF Every
<1>2. QED
  BY <1>1 DEF Every, Served

\* No translation has been issued at first.
LEMMA AwaitedInitially == CacheInit => Awaited
<1> SUFFICES ASSUME CacheInit PROVE Awaited
  OBVIOUS
<1>1. /\ inflight_tag_check = << >> /\ translation_stash = << >> /\ todo = << >>
      /\ kept = << >> /\ internal_PQ = << >>
  BY DEF CacheInit, QuietInit
<1>2. \A D : Every(<< >>, D)
  BY EveryEmpty
<1>3. QED
  BY <1>1, <1>2 DEF Awaited

\* Every step keeps every issued translation under way.
LEMMA AwaitedStep ==
  ASSUME TypeInv, Awaited, [CacheNext]_cacheVars
  PROVE  Awaited'
<1>1. CacheTyped /\ Sized /\ CacheTyped'
  BY TypedStep, TypeInvStutters DEF TypeInv
<1>2. /\ translation_stash \in Seq(TagLookup) /\ inflight_tag_check \in Seq(TagLookup)
      /\ todo \in Seq(TagLookup) /\ kept \in Seq(TagLookup) /\ internal_PQ \in Seq(TagLookup)
      /\ translation_stash' \in Seq(TagLookup) /\ inflight_tag_check' \in Seq(TagLookup)
      /\ todo' \in Seq(TagLookup) /\ kept' \in Seq(TagLookup)
      /\ lower_translate \in ChannelOf(Pages, Pages) /\ atTLB \in [Pages -> Nat]
      /\ lower_translate.RQ \in Seq(Pages) /\ lower_translate.returned \in Seq(Pages)
  BY <1>1 DEF CacheTyped, ChannelOf
<1> DEFINE S == Served(lower_translate, atTLB)
           S2 == Served(lower_translate', atTLB')
           W(page) == UnderWay(lower_translate, atTLB, page)
           W2(page) == UnderWay(lower_translate', atTLB', page)
           U == {x \in TagLookup : ~x.issued}
<1>3. /\ Every(inflight_tag_check, S) /\ Every(translation_stash, S)
      /\ Every(todo, Known) /\ Every(kept, Known) /\ Every(internal_PQ, U)
  BY DEF Awaited
<1>4. \A x : x \in Known => x \in S /\ x \in S2
  BY DEF Known, Served
<1>5. \A x : x \in U => x \in S /\ x \in S2
  BY DEF Served
<1>6. /\ \A x \in S : x \in TagLookup /\ ((x.issued /\ ~x.translated) => W(PageOf[x.addr]))
      /\ \A x \in TagLookup : ((x.issued /\ ~x.translated) => W2(PageOf[x.addr])) => x \in S2
      /\ \A x \in TagLookup : PageOf[x.addr] \in Pages
  BY DEF Served, Pages, TagLookup
<1>7. ASSUME Every(inflight_tag_check', S2), Every(translation_stash', S2), Every(todo', Known),
             Every(kept', Known), Every(internal_PQ', U)
      PROVE  Awaited'
  BY <1>7 DEF Awaited
<1> HIDE DEF S, S2, U
\* What the TLB owes is left alone.
<1>8. ASSUME UNCHANGED <<lower_translate, atTLB>>
      PROVE  S2 = S
  BY <1>8 DEF S, S2, Served, UnderWay
\* The lookups are left alone, and no page loses its answer.
<1>9. ASSUME UNCHANGED <<inflight_tag_check, translation_stash, todo, kept>>,
             Every(internal_PQ', U), \A page \in Pages : W(page) => W2(page)
      PROVE  Awaited'
  <2>1. \A x : x \in S => x \in S2
    BY <1>6, <1>9
  <2>2. Every(inflight_tag_check, S2) /\ Every(translation_stash, S2)
    BY <1>3, <2>1, EveryWider
  <2>3. QED
    BY <1>3, <1>7, <1>9, <2>2
<1>10. CASE StartCycle
  <2>1. UNCHANGED <<lower_translate, atTLB, translation_stash, todo, kept, internal_PQ>>
    BY <1>10 DEF StartCycle, translateVars
  <2>2. Every(inflight_tag_check', Served(lower_translate, atTLB))
    <3>1. /\ Len(inflight_tag_check') = Len(inflight_tag_check)
          /\ \A i \in 1 .. Len(inflight_tag_check) :
                /\ inflight_tag_check'[i].addr = inflight_tag_check[i].addr
                /\ inflight_tag_check'[i].issued = inflight_tag_check[i].issued
                /\ inflight_tag_check'[i].translated = inflight_tag_check[i].translated
      BY <1>2, <1>10, AgedLookups DEF StartCycle, Alike
    <3>2. Every(inflight_tag_check, Served(lower_translate, atTLB))
      BY <1>3 DEF S
    <3>3. QED
      BY <1>2, <3>1, <3>2, ServedAlike
  <2>3. Every(inflight_tag_check', S2) /\ Every(translation_stash, S2)
    BY <1>3, <1>8, <2>1, <2>2 DEF S
  <2>4. QED
    BY <1>3, <1>7, <2>1, <2>3
<1>11. CASE FinishTranslation
  <2> DEFINE page == Head(lower_translate.returned)
  <2>1. /\ translation_stash' = Restarted(translation_stash, page)
        /\ inflight_tag_check' = TranslatedAll(inflight_tag_check, page)
        /\ lower_translate' = Pop(lower_translate, "returned")
        /\ lower_translate.returned # << >>
        /\ UNCHANGED <<todo, kept, internal_PQ, atTLB>>
    BY <1>11 DEF FinishTranslation, operateVars
  <2>2. /\ lower_translate'.RQ = lower_translate.RQ
        /\ lower_translate'.returned = Tail(lower_translate.returned)
    <3>1. /\ \A p \in RequestQueues : Pop(lower_translate, "returned")[p] = lower_translate[p]
          /\ Pop(lower_translate, "returned").returned = Tail(lower_translate.returned)
      BY <1>2, <2>1, AnswerRead
    <3>2. QED
      BY <2>1, <3>1 DEF RequestQueues
  <2>3. /\ Len(lower_translate.returned) \in Nat \ {0}
        /\ Len(lower_translate'.returned) = Len(lower_translate.returned) - 1
        /\ page = lower_translate.returned[1]
        /\ \A i \in 1 .. Len(lower_translate.returned) - 1 :
              lower_translate'.returned[i] = lower_translate.returned[i + 1]
    BY <1>2, <2>1, <2>2, CountTail
  <2> HIDE DEF page
  <2>4. \A p \in Pages : p # page /\ W(p) => W2(p)
    <3> SUFFICES ASSUME NEW p \in Pages, p # page, W(p) PROVE W2(p)
      OBVIOUS
    <3>1. CASE \E i \in 1 .. Len(lower_translate.returned) : lower_translate.returned[i] = p
      <4>1. PICK i \in 1 .. Len(lower_translate.returned) : lower_translate.returned[i] = p
        BY <3>1
      <4>2. i - 1 \in 1 .. Len(lower_translate'.returned) /\ i = (i - 1) + 1
        BY <2>3, <4>1
      <4>3. lower_translate'.returned[i - 1] = p
        BY <2>3, <4>1, <4>2
      <4>4. QED
        BY <4>2, <4>3 DEF UnderWay
    <3>2. CASE \/ \E i \in 1 .. Len(lower_translate.RQ) : lower_translate.RQ[i] = p
               \/ atTLB[p] > 0
      BY <2>1, <2>2, <3>2 DEF UnderWay
    <3>3. QED
      BY <3>1, <3>2 DEF UnderWay
  <2> HIDE DEF W, W2
  <2>5. \A x \in S : (x.translated \/ PageOf[x.addr] # page) => x \in S2
    BY <1>6, <2>4
  <2>6. Every(inflight_tag_check', S2)
    <3> SUFFICES ASSUME NEW i \in 1 .. Len(inflight_tag_check') PROVE inflight_tag_check'[i] \in S2
      BY DEF Every
    <3>1. /\ i \in 1 .. Len(inflight_tag_check)
          /\ inflight_tag_check'[i].addr = inflight_tag_check[i].addr
          /\ inflight_tag_check'[i].issued = inflight_tag_check[i].issued
          /\ inflight_tag_check'[i].translated =
                (inflight_tag_check[i].translated \/ PageOf[inflight_tag_check[i].addr] = page)
      BY <1>2, <2>1, TranslatedType DEF Alike
    <3>2. inflight_tag_check[i] \in S /\ inflight_tag_check'[i] \in TagLookup
      BY <1>2, <1>3, <3>1, ElementOfSeq DEF Every
    <3>3. CASE inflight_tag_check[i].translated \/ PageOf[inflight_tag_check[i].addr] = page
      BY <1>4, <3>1, <3>2, <3>3 DEF Known
    <3>4. CASE ~(inflight_tag_check[i].translated \/ PageOf[inflight_tag_check[i].addr] = page)
      <4>1. inflight_tag_check[i] \in S2
        BY <2>5, <3>2, <3>4
      <4>2. PageOf[inflight_tag_check[i].addr] \in Pages
        BY <1>6, <3>2
      <4>3. (inflight_tag_check'[i].issued /\ ~inflight_tag_check'[i].translated)
               => W2(PageOf[inflight_tag_check'[i].addr])
        BY <1>6, <2>4, <3>1, <3>2, <3>4, <4>2
      <4>4. QED
        BY <1>6, <3>2, <4>3
    <3>5. QED
      BY <3>3, <3>4
  <2>7. Every(translation_stash', S2)
    <3>1. PICK n, A, B, C : PartsOf(translation_stash, page, n, A, B, C)
      BY <1>2, RestartedParts
    <3>2. /\ n \in 0 .. Len(translation_stash)
          /\ A \in Seq(TagLookup) /\ B \in Seq(TagLookup) /\ C \in Seq(TagLookup)
          /\ translation_stash' = (A \o B) \o C
          /\ \A i \in 1 .. Len(A) : A[i].translated
          /\ \A i \in 1 .. Len(B) : B[i].translated
          /\ \A i \in 1 .. Len(C) : \E j \in n + 1 .. Len(translation_stash) :
                /\ C[i] = translation_stash[j]
                /\ translation_stash[j].translated \/ PageOf[translation_stash[j].addr] # page
      BY <2>1, <3>1 DEF PartsOf
    <3>3. Every(A, S2) /\ Every(B, S2)
      <4>1. (\A i \in 1 .. Len(A) : A[i] \in TagLookup) /\ (\A i \in 1 .. Len(B) : B[i] \in TagLookup)
        BY <3>2, ElementOfSeq
      <4>2. QED
        BY <1>4, <3>2, <4>1 DEF Every, Known
    <3>4. Every(C, S2)
      <4>1. \A j \in n + 1 .. Len(translation_stash) : translation_stash[j] \in S
        <5>1. \A j \in n + 1 .. Len(translation_stash) : j \in 1 .. Len(translation_stash)
          BY <3>2, <1>2, LenProperties
        <5>2. QED
          BY <1>3, <5>1 DEF Every
      <4>2. QED
        BY <2>5, <3>2, <4>1 DEF Every
    <3> DEFINE AB == A \o B
    <3>5. AB \in Seq(TagLookup) /\ Every(AB, S2)
      BY <3>2, <3>3, EveryJoined, ConcatProperties
    <3>6. translation_stash' = AB \o C
      BY <3>2
    <3> HIDE DEF AB
    <3>7. Every(AB \o C, S2)
      BY <3>2, <3>4, <3>5, EveryJoined
    <3>8. QED
      BY <3>6, <3>7
  <2>8. QED
    BY <1>3, <1>7, <2>1, <2>6, <2>7
\* Lookups that start, all of them as well served as before.
<1>12. ASSUME NEW moved \in Seq(TagLookup), inflight_tag_check' = inflight_tag_check \o moved,
              Every(moved, S), Every(translation_stash', S), Every(internal_PQ', U),
              UNCHANGED <<lower_translate, atTLB, todo, kept>>
       PROVE  Awaited'
  <2>1. S2 = S
    BY <1>8, <1>12
  <2>2. Every(inflight_tag_check \o moved, S)
    BY <1>2, <1>3, <1>12, EveryJoined
  <2>3. Every(inflight_tag_check', S2) /\ Every(translation_stash', S2)
    BY <1>12, <2>1, <2>2
  <2>4. QED
    BY <1>3, <1>7, <1>12, <2>3
<1>13. CASE StartInitiate
  <2>0. Len(inflight_tag_check) <= MaxTag * HitLatency
    <3>1. Len(inflight_tag_check) + Len(todo) + Len(kept)
             + (IF phase = "initiate" THEN budget ELSE 0) <= MaxTag * HitLatency
      BY <1>1 DEF Sized
    <3>2. Len(inflight_tag_check) \in Nat /\ Len(todo) \in Nat /\ Len(kept) \in Nat /\ budget \in Nat
      BY <1>1, <1>2, LenProperties, Bounds DEF CacheTyped
    <3>3. QED
      BY <3>1, <3>2, Bounds
  <2>1. PICK n, moved : InitiateParts(n, moved)
    BY <1>1, <1>13, <2>0, InitiateMoves
  <2>2. /\ n \in 0 .. Len(translation_stash)
        /\ moved \in Seq(TagLookup) /\ Len(moved) = n
        /\ \A i \in 1 .. n : moved[i].translated = translation_stash[i].translated
                             /\ translation_stash[i].translated
        /\ inflight_tag_check' = inflight_tag_check \o moved
        /\ translation_stash' = SubSeq(translation_stash, n + 1, Len(translation_stash))
    BY <2>1 DEF InitiateParts
  <2>3. UNCHANGED <<todo, kept, internal_PQ, lower_translate, atTLB>>
    BY <1>13 DEF StartInitiate
  <2>4. Every(moved, S)
    <3>1. \A i \in 1 .. Len(moved) : moved[i] \in TagLookup /\ moved[i].translated
      BY <2>2, ElementOfSeq
    <3>2. QED
      BY <1>4, <3>1 DEF Every, Known
  <2>5. Every(translation_stash', S)
    BY <1>2, <1>3, <2>2, EverySplit
  <2>6. QED
    BY <1>3, <1>12, <2>2, <2>3, <2>4, <2>5
<1>14. ASSUME NEW k \in 1 .. NumSources, InitiateFromUpper(k)
       PROVE  Awaited'
  <2>1. PICK u, q, n, taken : UpperParts(u, q, n, taken)
    BY <1>1, <1>14, UpperMoves
  <2>2. /\ u \in Upper /\ taken \in Seq(TagLookup) /\ Len(taken) = n
        /\ \A i \in 1 .. n : taken[i] = Lookup(upper[u][q][i], u) /\ upper[u][q][i] \in Request
        /\ inflight_tag_check' = inflight_tag_check \o taken
    BY <2>1 DEF UpperParts
  <2>3. UNCHANGED <<translation_stash, internal_PQ, todo, kept, lower_translate, atTLB>>
    BY <1>14 DEF InitiateFromUpper, translateVars
  <2>4. Every(taken, S)
    <3>1. \A req : Lookup(req, u).issued = FALSE
      BY DEF Lookup
    <3>2. \A i \in 1 .. Len(taken) : taken[i] \in TagLookup /\ taken[i].issued = FALSE
      BY <2>2, <3>1, ElementOfSeq
    <3>3. QED
      BY <1>5, <3>2 DEF Every, U
  <2>5. QED
    BY <1>3, <1>12, <2>2, <2>3, <2>4
<1>15. CASE InitiateFromPrefetches
  <2>1. PICK n, moved : PrefetchParts(n, moved)
    BY <1>1, <1>15, PrefetchMoves
  <2>2. /\ n \in 1 .. Len(internal_PQ) /\ moved \in Seq(TagLookup) /\ Len(moved) = n
        /\ \A i \in 1 .. n : moved[i].issued = internal_PQ[i].issued
        /\ inflight_tag_check' = inflight_tag_check \o moved
        /\ internal_PQ' = SubSeq(internal_PQ, n + 1, Len(internal_PQ))
    BY <2>1 DEF PrefetchParts
  <2>3. UNCHANGED <<translation_stash, todo, kept, lower_translate, atTLB>>
    BY <1>15 DEF InitiateFromPrefetches, translateVars
  <2>4. Every(moved, S)
    <3>1. n \in 0 .. Len(internal_PQ) /\ \A i \in 1 .. n : i \in 1 .. Len(internal_PQ)
      BY <1>2, <2>2, LenProperties
    <3>2. \A i \in 1 .. Len(moved) : moved[i] \in TagLookup /\ internal_PQ[i] \in U
      BY <1>3, <2>2, <3>1, ElementOfSeq DEF Every
    <3>3. QED
      BY <1>5, <2>2, <3>2 DEF Every, U
  <2>5. Every(internal_PQ', U)
    <3>1. n \in 0 .. Len(internal_PQ)
      BY <1>2, <2>2, LenProperties
    <3>2. QED
      BY <1>2, <1>3, <2>2, <3>1, EverySplit
  <2>6. QED
    BY <1>3, <1>12, <2>2, <2>3, <2>4, <2>5
<1>16. CASE StartTagChecks
  <2> DEFINE lookups == inflight_tag_check \o translation_stash
             issued == IssuedOf(lookups)
  <2>1. /\ lower_translate' = [lower_translate EXCEPT !.RQ = @ \o PagesOf(lookups)]
        /\ phase = "initiate" /\ UNCHANGED <<kept, internal_PQ, atTLB>>
    BY <1>16 DEF StartTagChecks
  <2>2. PICK stay, new : TagChecksParts(stay, new)
    BY <1>2, <1>16, TagChecksShared
  <2>3. /\ stay \in Seq(TagLookup) /\ new \in Seq(TagLookup)
        /\ translation_stash' = stay \o new
        /\ \A i \in 1 .. Len(todo') : todo'[i].translated
        /\ \A i \in 1 .. Len(inflight_tag_check') :
              \E j \in 1 .. Len(issued) : inflight_tag_check'[i] = issued[j]
        /\ \A i \in 1 .. Len(stay) : \E j \in 1 .. Len(issued) : stay[i] = issued[j]
        /\ \A i \in 1 .. Len(new) : \E j \in 1 .. Len(issued) : new[i] = issued[j]
    BY <2>2 DEF TagChecksParts
  <2>4. lookups \in Seq(TagLookup) /\ Every(lookups, S)
    BY <1>2, <1>3, EveryJoined, ConcatProperties
  <2> HIDE DEF lookups
  <2>5. /\ issued \in Seq(TagLookup) /\ Len(issued) = Len(lookups)
        /\ \A i \in 1 .. Len(lookups) :
              /\ issued[i].addr = lookups[i].addr
              /\ issued[i].translated = lookups[i].translated
              /\ issued[i].issued = (lookups[i].issued \/ i \in ToIssue(lookups))
    BY <2>4, IssuedType DEF Alike
  <2>6. /\ PagesOf(lookups) \in Seq(Pages) /\ ToIssue(lookups) \in SUBSET (1 .. Len(lookups))
        /\ \A i \in ToIssue(lookups) : \E k \in 1 .. Len(PagesOf(lookups)) :
              PagesOf(lookups)[k] = PageOf[lookups[i].addr]
    BY <1>2, <2>4, IssueRoom
  <2> DEFINE more == PagesOf(lookups)
             rq == lower_translate.RQ
             rq2 == rq \o more
  <2>7. lower_translate'.RQ = rq2 /\ lower_translate'.returned = lower_translate.returned
    BY <1>2, <2>1 DEF ChannelOf
  <2>8. /\ Len(rq2) = Len(rq) + Len(more) /\ Len(rq) \in Nat /\ Len(more) \in Nat
        /\ \A i \in 1 .. Len(rq) + Len(more) : rq2[i] = IF i <= Len(rq) THEN rq[i] ELSE more[i - Len(rq)]
    BY <1>2, <2>6, ConcatProperties, LenProperties
  <2> HIDE DEF more, rq2, issued
  <2>9. \A page : W(page) => W2(page)
    <3> SUFFICES ASSUME NEW page, W(page) PROVE W2(page)
      OBVIOUS
    <3>1. CASE \E i \in 1 .. Len(rq) : rq[i] = page
      <4>1. PICK i \in 1 .. Len(rq) : rq[i] = page
        BY <3>1
      <4>2. i \in 1 .. Len(rq2) /\ rq2[i] = page
        BY <2>8, <4>1
      <4>3. QED
        BY <2>7, <4>2 DEF UnderWay
    <3>2. CASE \/ \E i \in 1 .. Len(lower_translate.returned) : lower_translate.returned[i] = page
               \/ atTLB[page] > 0
      BY <2>1, <2>7, <3>2 DEF UnderWay
    <3>3. QED
      BY <3>1, <3>2 DEF UnderWay
  <2>10. \A k \in 1 .. Len(more) : W2(more[k])
    <3> SUFFICES ASSUME NEW k \in 1 .. Len(more) PROVE W2(more[k])
      OBVIOUS
    <3>1. /\ Len(rq) + k \in 1 .. Len(rq2) /\ ~(Len(rq) + k <= Len(rq))
          /\ (Len(rq) + k) - Len(rq) = k
      BY <2>8
    <3>2. rq2[Len(rq) + k] = more[k]
      BY <2>8, <3>1
    <3>3. QED
      BY <2>7, <3>1, <3>2 DEF UnderWay
  <2> HIDE DEF W, W2, rq
  <2>11. Every(issued, S2)
    <3> SUFFICES ASSUME NEW i \in 1 .. Len(issued) PROVE issued[i] \in S2
      BY DEF Every
    <3>1. i \in 1 .. Len(lookups) /\ lookups[i] \in S /\ issued[i] \in TagLookup
      BY <2>4, <2>5, ElementOfSeq DEF Every
    <3>2. CASE i \in ToIssue(lookups)
      <4>1. W2(PageOf[lookups[i].addr])
        BY <2>6, <2>10, <3>2 DEF more
      <4>2. QED
        BY <1>6, <2>5, <3>1, <4>1
    <3>3. CASE i \notin ToIssue(lookups)
      <4>1. issued[i].issued = lookups[i].issued
        BY <2>5, <3>1, <3>3, <1>6 DEF TagLookup
      <4>2. QED
        BY <1>6, <2>5, <2>9, <3>1, <4>1
    <3>4. QED
      BY <3>2, <3>3
  <2>12. Every(inflight_tag_check', S2) /\ Every(stay, S2) /\ Every(new, S2)
    BY <2>3, <2>11, EveryFrom DEF issued
  <2>13. Every(stay \o new, S2)
    BY <2>3, <2>12, EveryJoined
  <2>14. Every(todo', Known)
    <3>1. \A i \in 1 .. Len(todo') : todo'[i] \in TagLookup
      BY <1>2, ElementOfSeq
    <3>2. QED
      BY <2>3, <3>1 DEF Every, Known
  <2>15. QED
    BY <1>3, <1>7, <2>1, <2>3, <2>12, <2>13, <2>14
<1>17. ASSUME todo # << >>, todo' = Tail(todo),
              UNCHANGED <<translation_stash, inflight_tag_check, internal_PQ, lower_translate, atTLB>>,
              UNCHANGED kept \/ (\E y \in TagLookup : /\ y.translated = todo[1].translated
                                                      /\ kept' = Append(kept, y))
       PROVE  Awaited'
  <2>1. Every(todo', Known) /\ todo[1] \in Known
    BY <1>2, <1>3, <1>17, EveryTail
  <2>2. Every(kept', Known)
    <3>1. ASSUME NEW y \in TagLookup, y.translated = todo[1].translated, kept' = Append(kept, y)
          PROVE  Every(kept', Known)
      <4>1. y \in Known
        BY <2>1, <3>1 DEF Known
      <4>2. QED
        BY <1>2, <1>3, <3>1, <4>1, EveryAppend
    <3>2. QED
      BY <1>3, <1>17, <3>1
  <2>3. QED
    BY <1>3, <1>7, <1>8, <1>17, <2>1, <2>2
<1>18. CASE TryMiss
  <2>1. /\ todo # << >> /\ todo' = Tail(todo) /\ todo[1] \in TagLookup
        /\ kept' = Append(kept, Told(todo[1]))
        /\ UNCHANGED <<translation_stash, inflight_tag_check, internal_PQ, lower_translate, atTLB>>
    BY <1>1, <1>18, FirstOfTodo DEF TryMiss, translateVars
  <2>2. Told(todo[1]) \in TagLookup /\ Told(todo[1]).translated = todo[1].translated
    BY <2>1, ToldType DEF TagLookup
  <2>3. QED
    BY <1>17, <2>1, <2>2
<1>19. CASE StallMiss
  <2>1. /\ todo # << >> /\ todo' = Tail(todo) /\ todo[1] \in TagLookup
        /\ kept' = Append(kept, todo[1])
        /\ UNCHANGED <<translation_stash, inflight_tag_check, internal_PQ, lower_translate, atTLB>>
    BY <1>1, <1>19, FirstOfTodo DEF StallMiss, NewMiss, NextMiss, translateVars
  <2>2. QED
    BY <1>17, <2>1
<1>20. CASE TryHit \/ HandleWrite \/ MergeMiss \/ ForwardMiss
  <2>1. /\ todo # << >> /\ todo' = Tail(todo) /\ UNCHANGED kept
        /\ UNCHANGED <<translation_stash, inflight_tag_check, internal_PQ, lower_translate, atTLB>>
    BY <1>20 DEF TryHit, HandleWrite, MergeMiss, ForwardMiss, NewMiss, NextMiss, translateVars
  <2>2. QED
    BY <1>17, <2>1
<1>21. CASE StartMisses
  <2>1. todo' = kept /\ kept' = << >>
        /\ UNCHANGED <<translation_stash, inflight_tag_check, internal_PQ, lower_translate, atTLB>>
    BY <1>21 DEF StartMisses, translateVars
  <2>2. Every(kept', Known)
    BY <2>1, EveryEmpty
  <2>3. QED
    BY <1>3, <1>7, <1>8, <2>1, <2>2
<1>22. CASE EndCycle
  <2>1. inflight_tag_check' = kept \o inflight_tag_check /\ kept' = << >>
        /\ UNCHANGED <<translation_stash, todo, internal_PQ, lower_translate, atTLB>>
    BY <1>22 DEF EndCycle, translateVars
  <2>2. Every(kept, S)
    BY <1>3, <1>4, EveryWider
  <2>3. Every(kept \o inflight_tag_check, S)
    BY <1>2, <1>3, <2>2, EveryJoined
  <2>4. Every(kept', Known)
    BY <2>1, EveryEmpty
  <2>5. QED
    BY <1>3, <1>7, <1>8, <2>1, <2>3, <2>4
<1>23. ASSUME NEW a \in Line, NEW fillThisLevel \in BOOLEAN, PrefetchLine(a, fillThisLevel)
       PROVE  Awaited'
  <2> DEFINE x == [addr |-> a, type |-> "PREFETCH", ids |-> {}, to_return |-> {},
                   skip |-> ~fillThisLevel, wait |-> HitLatency, told |-> 0,
                   translated |-> ~(Translates /\ VirtualPrefetch), issued |-> FALSE]
  <2>1. internal_PQ' = Append(internal_PQ, x)
        /\ UNCHANGED <<translation_stash, todo, kept, inflight_tag_check, lower_translate, atTLB>>
    BY <1>23 DEF PrefetchLine, translateVars, operateVars
  <2>2. x \in TagLookup
    BY Bounds DEF TagLookup, Types
  <2>3. x.issued = FALSE
    OBVIOUS
  <2> HIDE DEF x
  <2>4. x \in U
    BY <2>2, <2>3 DEF U
  <2>5. Every(internal_PQ', U)
    BY <1>2, <1>3, <2>1, <2>2, <2>4, EveryAppend
  <2>6. QED
    BY <1>3, <1>7, <1>8, <2>1, <2>5
<1>24. CASE TranslateTake
  <2>1. /\ lower_translate.RQ # << >> /\ lower_translate' = Pop(lower_translate, "RQ")
        /\ UNCHANGED <<inflight_tag_check, translation_stash, todo, kept, internal_PQ>>
        /\ \/ atTLB' = [atTLB EXCEPT ![Head(lower_translate.RQ)] = @ + 1]
           \/ atTLB[Head(lower_translate.RQ)] > 0 /\ UNCHANGED atTLB
    BY <1>24 DEF TranslateTake, operateVars
  <2>2. /\ lower_translate'.RQ = Tail(lower_translate.RQ)
        /\ lower_translate'.returned = lower_translate.returned
    <3>1. "RQ" \in RequestQueues
      BY DEF RequestQueues
    <3>2. /\ \A p \in RequestQueues : Pop(lower_translate, "RQ")[p] =
                IF p = "RQ" THEN Tail(lower_translate["RQ"]) ELSE lower_translate[p]
          /\ Pop(lower_translate, "RQ").returned = lower_translate.returned
      BY <1>2, <2>1, <3>1, Popped
    <3>3. Pop(lower_translate, "RQ").RQ = Tail(lower_translate.RQ)
      BY <3>1, <3>2
    <3>4. QED
      BY <2>1, <3>2, <3>3
  <2>3. /\ Len(lower_translate.RQ) \in Nat \ {0}
        /\ Len(lower_translate'.RQ) = Len(lower_translate.RQ) - 1
        /\ Head(lower_translate.RQ) = lower_translate.RQ[1]
        /\ Head(lower_translate.RQ) \in Pages
        /\ \A i \in 1 .. Len(lower_translate.RQ) - 1 :
              lower_translate'.RQ[i] = lower_translate.RQ[i + 1]
    BY <1>2, <2>1, <2>2, CountTail
  <2>4. ASSUME NEW page \in Pages, W(page)
        PROVE  W2(page)
    <3>1. atTLB'[page] >= atTLB[page] /\ atTLB[page] \in Nat /\ atTLB'[page] \in Nat
      <4>1. atTLB[page] \in Nat
        BY <1>2
      <4>2. atTLB'[page] = atTLB[page] \/ atTLB'[page] = atTLB[page] + 1
        BY <1>2, <2>1, <2>3
      <4>3. QED
        BY <4>1, <4>2
    <3>2. atTLB'[Head(lower_translate.RQ)] > 0
      BY <1>2, <2>1, <2>3
    <3>3. CASE \E i \in 1 .. Len(lower_translate.RQ) : lower_translate.RQ[i] = page
      <4>1. PICK i \in 1 .. Len(lower_translate.RQ) : lower_translate.RQ[i] = page
        BY <3>3
      <4>2. CASE i = 1
        <5>1. page = Head(lower_translate.RQ)
          BY <2>3, <4>1, <4>2
        <5>2. QED
          BY <3>2, <5>1 DEF UnderWay
      <4>3. CASE i # 1
        <5>1. i - 1 \in 1 .. Len(lower_translate.RQ) - 1 /\ i = (i - 1) + 1
          BY <2>3, <4>1, <4>3
        <5>2. i - 1 \in 1 .. Len(lower_translate'.RQ) /\ lower_translate'.RQ[i - 1] = page
          BY <2>3, <4>1, <5>1
        <5>3. QED
          BY <5>2 DEF UnderWay
      <4>4. QED
        BY <4>2, <4>3
    <3>4. CASE \E i \in 1 .. Len(lower_translate.returned) : lower_translate.returned[i] = page
      BY <2>2, <3>4 DEF UnderWay
    <3>5. CASE atTLB[page] > 0
      <4>1. atTLB'[page] > 0
        BY <3>1, <3>5
      <4>2. QED
        BY <4>1 DEF UnderWay
    <3>6. QED
      BY <2>4, <3>3, <3>4, <3>5 DEF UnderWay
  <2> HIDE DEF W, W2
  <2>5. QED
    BY <1>3, <1>9, <2>1, <2>4
<1>25. ASSUME NEW answer \in Pages, TranslateAnswer(answer)
       PROVE  Awaited'
  <2>1. /\ atTLB[answer] > 0 /\ atTLB' = [atTLB EXCEPT ![answer] = @ - 1]
        /\ lower_translate' = Push(lower_translate, "returned", answer)
        /\ UNCHANGED <<inflight_tag_check, translation_stash, todo, kept, internal_PQ>>
    BY <1>25 DEF TranslateAnswer, operateVars
  <2>2. /\ lower_translate'.RQ = lower_translate.RQ
        /\ lower_translate'.returned = Append(lower_translate.returned, answer)
    <3>1. /\ \A p \in RequestQueues :
                Push(lower_translate, "returned", answer)[p] = lower_translate[p]
          /\ Push(lower_translate, "returned", answer).returned
                = Append(lower_translate.returned, answer)
      BY <1>2, <1>25, Answered
    <3>2. QED
      BY <2>1, <3>1 DEF RequestQueues
  <2>3. /\ Len(lower_translate.returned) \in Nat
        /\ Len(lower_translate'.returned) = Len(lower_translate.returned) + 1
        /\ lower_translate'.returned[Len(lower_translate.returned) + 1] = answer
        /\ \A i \in 1 .. Len(lower_translate.returned) :
              lower_translate'.returned[i] = lower_translate.returned[i]
    BY SMTT(30), <1>2, <1>25, <2>2, AppendProperties, LenProperties
  <2>4. ASSUME NEW page \in Pages, W(page)
        PROVE  W2(page)
    <3>1. CASE page = answer
      <4>1. Len(lower_translate.returned) + 1 \in 1 .. Len(lower_translate'.returned)
        BY <2>3
      <4>2. QED
        BY <2>3, <3>1, <4>1 DEF UnderWay
    <3>2. CASE page # answer
      <4>1. atTLB'[page] = atTLB[page]
        BY <1>2, <2>1, <3>2
      <4>2. \A i \in 1 .. Len(lower_translate.returned) : i \in 1 .. Len(lower_translate'.returned)
        BY <2>3
      <4>3. CASE \E i \in 1 .. Len(lower_translate.returned) : lower_translate.returned[i] = page
        BY <2>3, <4>2, <4>3 DEF UnderWay
      <4>4. CASE \/ \E i \in 1 .. Len(lower_translate.RQ) : lower_translate.RQ[i] = page
                 \/ atTLB[page] > 0
        BY <2>2, <4>1, <4>4 DEF UnderWay
      <4>5. QED
        BY <2>4, <4>3, <4>4 DEF UnderWay
    <3>3. QED
      BY <3>1, <3>2
  <2> HIDE DEF W, W2
  <2>5. QED
    BY <1>3, <1>9, <2>1, <2>4
<1>26. CASE \/ FinishPacket \/ StartFills \/ (\E w \in Way \cup {Bypass} : HandleFill(w))
            \/ \E u \in Upper :
                 \/ Receive(u)
                 \/ \E q \in RequestQueues, type \in Types, a \in Line :
                       Ask(u, q, type, a) \/ Send(u, q, type, a)
            \/ \E a \in Line : LowerAnswer(a)
            \/ \E q \in RequestQueues : LowerTake(q)
            \/ UNCHANGED cacheVars
  <2>1. UNCHANGED <<translation_stash, inflight_tag_check, todo, kept, internal_PQ, lower_translate,
                    atTLB>>
    BY ZenonT(40), <1>26 DEF FinishPacket, StartFills, HandleFill, Receive, Ask, Send, LowerAnswer,
                 LowerTake, cacheVars, operateVars, translateVars
  <2>2. QED
    BY <1>3, <1>7, <1>8, <2>1
<1>27. QED
  BY <1>10, <1>11, <1>13, <1>14, <1>15, <1>16, <1>18, <1>19, <1>20, <1>21, <1>22, <1>23, <1>24,
     <1>25, <1>26 DEF CacheNext, Operate, Environment

\* A lookup whose translation was asked for has an answer of its page under way,
\* although one answer serves all lookups of the page, in the stash and in flight,
\* and the TLB may merge two requests (cache.cc:555-573, 653-668).
THEOREM TranslationsComeBack == CacheSpec => []TranslationUnderWay
<1>1. CacheInit => TypeInv /\ Awaited
  BY TypeInvInitially, AwaitedInitially
<1>2. TypeInv /\ Awaited /\ [CacheNext]_cacheVars => TypeInv' /\ Awaited'
  BY TypedStep, SizedStep, TypeInvStutters, AwaitedStep DEF TypeInv
<1>3. TypeInv /\ Awaited => TranslationUnderWay
  <2> SUFFICES ASSUME TypeInv, Awaited PROVE TranslationUnderWay
    OBVIOUS
  <2>1. CacheTyped
    BY DEF TypeInv
  <2> DEFINE S == Served(lower_translate, atTLB)
  <2>2. /\ inflight_tag_check \in Seq(TagLookup) /\ todo \in Seq(TagLookup)
        /\ kept \in Seq(TagLookup) /\ translation_stash \in Seq(TagLookup)
        /\ lower_translate.RQ \in Seq(Pages) /\ lower_translate.returned \in Seq(Pages)
    BY <2>1 DEF CacheTyped, ChannelOf
  <2>3. Every(Lookups, S)
    <3>1. \A x : x \in Known => x \in S
      BY DEF Known, Served
    <3>2. Every(inflight_tag_check, S) /\ Every(todo, S) /\ Every(kept, S)
          /\ Every(translation_stash, S)
      BY <3>1, EveryWider DEF Awaited
    <3> HIDE DEF S
    <3> DEFINE some == inflight_tag_check \o todo
    <3>3. some \in Seq(TagLookup) /\ Every(some, S)
      BY <2>2, <3>2, EveryJoined, ConcatProperties
    <3>4. Checks = some \o kept
      BY DEF Checks
    <3> HIDE DEF some
    <3>5. Every(some \o kept, S)
      BY <2>2, <3>2, <3>3, EveryJoined
    <3>6. Every(Checks, S) /\ Checks \in Seq(TagLookup)
      BY <2>1, <3>4, <3>5, LookupsMany
    <3>7. QED
      BY <2>2, <3>2, <3>6, EveryJoined DEF Lookups
  <2>4. ASSUME NEW x \in ToSet(Lookups), x.issued, ~x.translated
        PROVE  UnderWay(lower_translate, atTLB, PageOf[x.addr])
    <3>1. PICK i \in 1 .. Len(Lookups) : x = Lookups[i]
      BY <2>1, LookupsMany, LenProperties DEF ToSet
    <3>2. QED
      BY <2>3, <2>4, <3>1 DEF Every, Served
  <2>5. ASSUME NEW page, UnderWay(lower_translate, atTLB, page)
        PROVE  \/ Contains(lower_translate.RQ \o lower_translate.returned, page)
               \/ atTLB[page] > 0
    <3> DEFINE rq == lower_translate.RQ
               back == lower_translate.returned
               all == rq \o back
    <3>1. /\ Len(all) = Len(rq) + Len(back) /\ Len(rq) \in Nat /\ Len(back) \in Nat
          /\ \A i \in 1 .. Len(rq) + Len(back) : all[i] = IF i <= Len(rq) THEN rq[i] ELSE back[i - Len(rq)]
      BY <2>2, ConcatProperties, LenProperties
    <3> HIDE DEF all, rq, back
    <3>2. CASE \E i \in 1 .. Len(rq) : rq[i] = page
      <4>1. PICK i \in 1 .. Len(rq) : rq[i] = page
        BY <3>2
      <4>2. i \in 1 .. Len(all) /\ all[i] = page
        BY <3>1, <4>1
      <4>3. QED
        BY <4>2 DEF Contains, all, rq, back
    <3>3. CASE \E i \in 1 .. Len(back) : back[i] = page
      <4>1. PICK i \in 1 .. Len(back) : back[i] = page
        BY <3>3
      <4>2. /\ Len(rq) + i \in 1 .. Len(all) /\ ~(Len(rq) + i <= Len(rq))
            /\ (Len(rq) + i) - Len(rq) = i
        BY <3>1, <4>1
      <4>3. all[Len(rq) + i] = page
        BY <3>1, <4>1, <4>2
      <4>4. QED
        BY <4>2, <4>3 DEF Contains, all, rq, back
    <3>4. QED
      BY <2>5, <3>2, <3>3 DEF UnderWay, rq, back
  <2>6. QED
    BY <2>4, <2>5 DEF TranslationUnderWay
<1>4. QED
  BY <1>1, <1>2, <1>3, PTL DEF CacheSpec

-----------------------------------------------------------------------------
(* Where lookups come from and go to. *)

\* The lookups of a kind, wherever they are.
Held(D) ==
    Count(inflight_tag_check, D) + Count(todo, D) + Count(kept, D)
    + Count(translation_stash, D) + Count(internal_PQ, D)

\* The steps that decide a lookup.
Settles == TryHit \/ HandleWrite \/ MergeMiss \/ ForwardMiss

\* The steps that only move lookups on.
MovesOn ==
    \/ StartCycle \/ FinishTranslation \/ StartInitiate \/ InitiateFromPrefetches
    \/ StartTagChecks \/ TryMiss \/ StartMisses \/ StallMiss \/ EndCycle

lookupVars == <<inflight_tag_check, todo, kept, translation_stash, internal_PQ>>

\* The steps that look at no lookup.
Elsewhere ==
    \/ FinishPacket \/ StartFills \/ (\E w \in Way \cup {Bypass} : HandleFill(w))
    \/ \E u \in Upper :
          \/ Receive(u)
          \/ \E q \in RequestQueues, type \in Types, a \in Line :
                Ask(u, q, type, a) \/ Send(u, q, type, a)
    \/ \E a \in Line : LowerAnswer(a)
    \/ \E q \in RequestQueues : LowerTake(q)
    \/ TranslateTake
    \/ \E page \in Pages : TranslateAnswer(page)
    \/ UNCHANGED cacheVars

\* Every step is of one of these kinds.
LEMMA StepKinds ==
  ASSUME [CacheNext]_cacheVars
  PROVE  \/ Settles \/ MovesOn \/ Elsewhere
         \/ \E k \in 1 .. NumSources : InitiateFromUpper(k)
         \/ \E a \in Line, fillThisLevel \in BOOLEAN : PrefetchLine(a, fillThisLevel)
BY DEF CacheNext, Operate, Environment, Settles, MovesOn, Elsewhere

\* Those steps leave every lookup where it is.
LEMMA ElsewhereKeeps == Elsewhere => UNCHANGED lookupVars
BY ZenonT(40) DEF Elsewhere, lookupVars, FinishPacket, StartFills, HandleFill, Receive, Ask, Send, LowerAnswer,
       LowerTake, TranslateTake, TranslateAnswer, cacheVars, operateVars, translateVars

\* Their numbers are numbers.
LEMMA HeldMany ==
  ASSUME CacheTyped, NEW D
  PROVE  /\ Count(inflight_tag_check, D) \in Nat /\ Count(todo, D) \in Nat
         /\ Count(kept, D) \in Nat /\ Count(translation_stash, D) \in Nat
         /\ Count(internal_PQ, D) \in Nat
         /\ Held(D) \in Nat
<1>1. /\ Count(inflight_tag_check, D) \in Nat /\ Count(todo, D) \in Nat
      /\ Count(kept, D) \in Nat /\ Count(translation_stash, D) \in Nat
      /\ Count(internal_PQ, D) \in Nat
  BY CountType DEF CacheTyped
<1>2. QED
  BY <1>1 DEF Held

\* The same in the next state.
LEMMA HeldManyNext ==
  ASSUME CacheTyped', NEW D
  PROVE  /\ Count(inflight_tag_check', D) \in Nat /\ Count(todo', D) \in Nat
         /\ Count(kept', D) \in Nat /\ Count(translation_stash', D) \in Nat
         /\ Count(internal_PQ', D) \in Nat
         /\ Held(D)' \in Nat
         /\ Held(D)' = Count(inflight_tag_check', D) + Count(todo', D) + Count(kept', D)
                         + Count(translation_stash', D) + Count(internal_PQ', D)
<1>1. /\ Count(inflight_tag_check', D) \in Nat /\ Count(todo', D) \in Nat
      /\ Count(kept', D) \in Nat /\ Count(translation_stash', D) \in Nat
      /\ Count(internal_PQ', D) \in Nat
  BY CountType DEF CacheTyped
<1>2. QED
  BY <1>1 DEF Held

\* Steps that leave the lookups alone leave their number alone.
LEMMA HeldKept ==
  ASSUME UNCHANGED lookupVars, NEW D
  PROVE  Held(D)' = Held(D)
BY DEF Held, lookupVars

\* A step that decides a lookup takes it away, and no other.
LEMMA HeldSettled ==
  ASSUME TypeInv, CacheTyped', Settles, NEW D
  PROVE  /\ todo # << >> /\ todo[1] \in TagLookup /\ Head(todo) = todo[1]
         /\ Held(D) = One(todo[1] \in D) + Held(D)'
<1>1. CacheTyped
  BY DEF TypeInv
<1>2. /\ todo # << >> /\ todo' = Tail(todo)
      /\ UNCHANGED <<inflight_tag_check, kept, translation_stash, internal_PQ>>
  BY DEF Settles, TryHit, HandleWrite, MergeMiss, ForwardMiss, NewMiss, NextMiss, translateVars
<1>3. /\ todo[1] \in TagLookup /\ Head(todo) = todo[1]
      /\ Count(todo, D) = One(todo[1] \in D) + Count(todo', D)
  BY <1>1, <1>2, FirstOfTodo
<1>4. One(todo[1] \in D) \in Nat
  BY DEF One
<1>5. Held(D)' = Count(inflight_tag_check, D) + Count(todo', D) + Count(kept, D)
                   + Count(translation_stash, D) + Count(internal_PQ, D)
  BY <1>2, HeldManyNext
<1>6. Count(todo', D) \in Nat
  BY HeldManyNext
<1>7. Held(D) = Count(inflight_tag_check, D) + (One(todo[1] \in D) + Count(todo', D))
                   + Count(kept, D) + Count(translation_stash, D) + Count(internal_PQ, D)
  BY <1>3 DEF Held
<1>8. /\ Count(inflight_tag_check, D) \in Nat /\ Count(kept, D) \in Nat
      /\ Count(translation_stash, D) \in Nat /\ Count(internal_PQ, D) \in Nat
  BY <1>1, HeldMany
<1> DEFINE N == One(todo[1] \in D)
<1> HIDE DEF N
<1>9. Held(D) = N + Held(D)'
  BY <1>4, <1>5, <1>6, <1>7, <1>8 DEF N
<1>10. QED
  BY <1>2, <1>3, <1>9 DEF N

\* New lookups come from the queues of the upper levels.
LEMMA HeldFromUpper ==
  ASSUME TypeInv, CacheTyped', NEW k \in 1 .. NumSources, InitiateFromUpper(k),
         NEW D, NEW u, NEW q, NEW n, NEW taken, UpperParts(u, q, n, taken)
  PROVE  Held(D)' = Held(D) + Count(taken, D) /\ Count(taken, D) \in Nat
<1>1. CacheTyped
  BY DEF TypeInv
<1>2. /\ taken \in Seq(TagLookup) /\ inflight_tag_check' = inflight_tag_check \o taken
      /\ inflight_tag_check \in Seq(TagLookup)
  BY <1>1 DEF UpperParts, CacheTyped
<1>3. UNCHANGED <<todo, kept, translation_stash, internal_PQ>>
  BY DEF InitiateFromUpper, translateVars
<1>4. Count(inflight_tag_check \o taken, D) = Count(inflight_tag_check, D) + Count(taken, D)
  BY <1>2, CountJoined
<1>5. Count(taken, D) \in Nat
  BY <1>2, CountType
<1>6. Held(D)' = Count(inflight_tag_check, D) + Count(taken, D) + Count(todo, D) + Count(kept, D)
                   + Count(translation_stash, D) + Count(internal_PQ, D)
  BY <1>2, <1>3, <1>4, HeldManyNext
<1>7. QED
  BY <1>1, <1>5, <1>6, HeldMany DEF Held

\* A prefetch of the cache itself: no upper level waits for it.
OwnPrefetch == {x \in TagLookup : x.ids = {} /\ x.type = "PREFETCH"}

\* And from the prefetcher.
LEMMA HeldFromPrefetcher ==
  ASSUME TypeInv, CacheTyped', NEW a \in Line, NEW fillThisLevel \in BOOLEAN,
         PrefetchLine(a, fillThisLevel), NEW D
  PROVE  \E x \in OwnPrefetch : Held(D)' = Held(D) + One(x \in D)
<1> DEFINE x == [addr |-> a, type |-> "PREFETCH", ids |-> {}, to_return |-> {},
                 skip |-> ~fillThisLevel, wait |-> HitLatency, told |-> 0,
                 translated |-> ~(Translates /\ VirtualPrefetch), issued |-> FALSE]
<1>1. internal_PQ' = Append(internal_PQ, x)
      /\ UNCHANGED <<translation_stash, todo, kept, inflight_tag_check>>
  BY DEF PrefetchLine, translateVars, operateVars
<1>2. x \in TagLookup
  BY Bounds DEF TagLookup, Types
<1>3. x.ids = {} /\ x.type = "PREFETCH"
  OBVIOUS
<1> HIDE DEF x
<1>4. CacheTyped /\ internal_PQ \in Seq(TagLookup)
  BY DEF TypeInv, CacheTyped
<1>5. Count(internal_PQ', D) = Count(internal_PQ, D) + One(x \in D)
  BY <1>1, <1>2, <1>4, CountAppend
<1>6. One(x \in D) \in Nat
  BY DEF One
<1>7. Held(D)' = Count(inflight_tag_check, D) + Count(todo, D) + Count(kept, D)
                   + Count(translation_stash, D) + (Count(internal_PQ, D) + One(x \in D))
  BY <1>1, <1>5, HeldManyNext
<1>8. Held(D)' = Held(D) + One(x \in D)
  BY <1>4, <1>6, <1>7, HeldMany DEF Held
<1>9. x \in OwnPrefetch
  BY <1>2, <1>3 DEF OwnPrefetch
<1>10. QED
  BY <1>8, <1>9

\* The other steps of the lookups lose none and make none.
LEMMA HeldMoved ==
  ASSUME TypeInv, CacheTyped', MovesOn, NEW D, Blind(D)
  PROVE  Held(D)' = Held(D)
<1>1. CacheTyped /\ Sized
  BY DEF TypeInv
<1>2. /\ translation_stash \in Seq(TagLookup) /\ inflight_tag_check \in Seq(TagLookup)
      /\ todo \in Seq(TagLookup) /\ kept \in Seq(TagLookup) /\ internal_PQ \in Seq(TagLookup)
      /\ translation_stash' \in Seq(TagLookup) /\ inflight_tag_check' \in Seq(TagLookup)
  BY <1>1 DEF CacheTyped
<1> DEFINE I == Count(inflight_tag_check, D)
           T == Count(todo, D)
           K == Count(kept, D)
           S == Count(translation_stash, D)
           P == Count(internal_PQ, D)
           I2 == Count(inflight_tag_check', D)
           T2 == Count(todo', D)
           K2 == Count(kept', D)
           S2 == Count(translation_stash', D)
           P2 == Count(internal_PQ', D)
<1>3. /\ I \in Nat /\ T \in Nat /\ K \in Nat /\ S \in Nat /\ P \in Nat
      /\ I2 \in Nat /\ T2 \in Nat /\ K2 \in Nat /\ S2 \in Nat /\ P2 \in Nat
  BY <1>1, HeldMany, HeldManyNext
<1>4. Held(D) = I + T + K + S + P /\ Held(D)' = I2 + T2 + K2 + S2 + P2
  BY HeldManyNext DEF Held
<1>5. ASSUME I2 + T2 + K2 + S2 + P2 = I + T + K + S + P
      PROVE  Held(D)' = Held(D)
  BY <1>4, <1>5
<1>6. CASE StartCycle
  <2>1. /\ Len(inflight_tag_check') = Len(inflight_tag_check)
        /\ \A i \in 1 .. Len(inflight_tag_check) :
              Alike(inflight_tag_check'[i], inflight_tag_check[i])
    BY <1>2, <1>6, AgedLookups DEF StartCycle
  <2>2. I2 = I
    BY <1>2, <2>1, BlindAlike
  <2>3. T2 = T /\ K2 = K /\ S2 = S /\ P2 = P
    BY <1>6 DEF StartCycle, translateVars
  <2>4. QED
    BY <1>5, <2>2, <2>3
<1>7. CASE FinishTranslation
  <2> DEFINE page == Head(lower_translate.returned)
  <2>1. /\ translation_stash' = Restarted(translation_stash, page)
        /\ inflight_tag_check' = TranslatedAll(inflight_tag_check, page)
        /\ UNCHANGED <<todo, kept, internal_PQ>>
    BY <1>7 DEF FinishTranslation, operateVars
  <2> HIDE DEF page
  <2>2. S2 = S
    BY <1>2, <2>1, RestartedType
  <2>3. I2 = I
    <3>1. /\ Len(inflight_tag_check') = Len(inflight_tag_check)
          /\ \A i \in 1 .. Len(inflight_tag_check) :
                Alike(inflight_tag_check'[i], inflight_tag_check[i])
      BY <1>2, <2>1, TranslatedType
    <3>2. QED
      BY <1>2, <3>1, BlindAlike
  <2>4. T2 = T /\ K2 = K /\ P2 = P
    BY <2>1
  <2>5. QED
    BY <1>5, <2>2, <2>3, <2>4
<1>8. CASE StartInitiate
  <2>1. Len(inflight_tag_check) <= MaxTag * HitLatency
    <3>1. Len(inflight_tag_check) + Len(todo) + Len(kept)
             + (IF phase = "initiate" THEN budget ELSE 0) <= MaxTag * HitLatency
      BY <1>1 DEF Sized
    <3>2. Len(inflight_tag_check) \in Nat /\ Len(todo) \in Nat /\ Len(kept) \in Nat /\ budget \in Nat
      BY <1>1, <1>2, LenProperties, Bounds DEF CacheTyped
    <3>3. QED
      BY <3>1, <3>2, Bounds
  <2>2. PICK n, moved : InitiateParts(n, moved)
    BY <1>1, <1>8, <2>1, InitiateMoves
  <2>3. I2 + S2 = I + S
    BY <2>2 DEF InitiateParts
  <2>4. T2 = T /\ K2 = K /\ P2 = P
    BY <1>8 DEF StartInitiate
  <2> HIDE DEF I, T, K, S, P, I2, T2, K2, S2, P2
  <2>5. I2 + T2 + K2 + S2 + P2 = I + T + K + S + P
    BY <1>3, <2>3, <2>4
  <2>6. QED
    BY <1>5, <2>5 DEF I, T, K, S, P, I2, T2, K2, S2, P2
<1>9. CASE InitiateFromPrefetches
  <2>1. PICK n, moved : PrefetchParts(n, moved)
    BY <1>1, <1>9, PrefetchMoves
  <2>2. /\ n \in 1 .. Len(internal_PQ) /\ moved \in Seq(TagLookup) /\ Len(moved) = n
        /\ \A i \in 1 .. n : Alike(moved[i], internal_PQ[i])
        /\ inflight_tag_check' = inflight_tag_check \o moved
        /\ internal_PQ' = SubSeq(internal_PQ, n + 1, Len(internal_PQ))
    BY <2>1 DEF PrefetchParts
  <2> DEFINE first == SubSeq(internal_PQ, 1, n)
             M == Count(moved, D)
             F == Count(first, D)
  <2>3. n \in 0 .. Len(internal_PQ)
    BY <1>2, <2>2, LenProperties
  <2>4. /\ first \in Seq(TagLookup) /\ Len(first) = n
        /\ \A i \in 1 .. n : first[i] = internal_PQ[i]
        /\ P = F + P2
    BY <1>2, <2>2, <2>3, CountSplit
  <2> HIDE DEF first
  <2>5. M = F
    BY <2>2, <2>4, BlindAlike
  <2>6. I2 = I + M
    BY <1>2, <2>2, CountJoined
  <2>7. T2 = T /\ K2 = K /\ S2 = S
    BY <1>9 DEF InitiateFromPrefetches, translateVars
  <2>8. F \in Nat
    BY <2>4, CountType
  <2> HIDE DEF I, T, K, S, P, I2, T2, K2, S2, P2, F, M
  <2>9. I2 + T2 + K2 + S2 + P2 = I + T + K + S + P
    BY <1>3, <2>4, <2>5, <2>6, <2>7, <2>8
  <2>10. QED
    BY <1>5, <2>9 DEF I, T, K, S, P, I2, T2, K2, S2, P2
<1>10. CASE StartTagChecks
  <2>1. IssueBlind(D)
    BY DEF IssueBlind, Blind
  <2>2. I2 + T2 + S2 = I + S
    BY <1>2, <1>10, <2>1, TagChecksShared
  <2>3. phase = "initiate" /\ K2 = K /\ P2 = P
    BY <1>10 DEF StartTagChecks
  <2>4. T = 0
    BY <1>1, <2>3, CountEmpty DEF Sized
  <2> HIDE DEF I, T, K, S, P, I2, T2, K2, S2, P2
  <2>5. I2 + T2 + K2 + S2 + P2 = I + T + K + S + P
    BY <1>3, <2>2, <2>3, <2>4
  <2>6. QED
    BY <1>5, <2>5 DEF I, T, K, S, P, I2, T2, K2, S2, P2
<1>11. ASSUME todo # << >>, todo' = Tail(todo),
              UNCHANGED <<inflight_tag_check, translation_stash, internal_PQ>>,
              NEW y \in TagLookup, Alike(y, todo[1]), kept' = Append(kept, y)
       PROVE  Held(D)' = Held(D)
  <2>1. todo[1] \in TagLookup /\ T = One(todo[1] \in D) + T2
    BY <1>1, <1>11, FirstOfTodo
  <2>2. K2 = K + One(y \in D)
    BY <1>2, <1>11, CountAppend
  <2>3. One(y \in D) = One(todo[1] \in D)
    BY <1>11, <2>1 DEF Blind, One
  <2>4. One(y \in D) \in Nat
    BY DEF One
  <2>5. I2 = I /\ S2 = S /\ P2 = P
    BY <1>11
  <2> DEFINE N == One(y \in D)
  <2> HIDE DEF I, T, K, S, P, I2, T2, K2, S2, P2
  <2>6. T = N + T2 /\ K2 = K + N /\ N \in Nat
    BY <2>1, <2>2, <2>3, <2>4
  <2> HIDE DEF N
  <2>7. I2 + T2 + K2 + S2 + P2 = I + T + K + S + P
    BY <1>3, <2>5, <2>6
  <2>8. QED
    BY <1>5, <2>7 DEF I, T, K, S, P, I2, T2, K2, S2, P2
<1>12. CASE TryMiss
  <2>1. /\ todo # << >> /\ todo' = Tail(todo) /\ todo[1] \in TagLookup
        /\ kept' = Append(kept, Told(todo[1]))
        /\ UNCHANGED <<translation_stash, inflight_tag_check, internal_PQ>>
    BY <1>1, <1>12, FirstOfTodo DEF TryMiss, translateVars
  <2>2. Told(todo[1]) \in TagLookup /\ Alike(Told(todo[1]), todo[1])
    BY <2>1, ToldType DEF TagLookup, Alike
  <2>3. QED
    BY <1>11, <2>1, <2>2
<1>13. CASE StallMiss
  <2>1. /\ todo # << >> /\ todo' = Tail(todo) /\ todo[1] \in TagLookup
        /\ kept' = Append(kept, todo[1])
        /\ UNCHANGED <<translation_stash, inflight_tag_check, internal_PQ>>
    BY <1>1, <1>13, FirstOfTodo DEF StallMiss, NewMiss, NextMiss, translateVars
  <2>2. Alike(todo[1], todo[1])
    BY DEF Alike
  <2>3. QED
    BY <1>11, <2>1, <2>2
<1>14. CASE StartMisses
  <2>1. todo = << >> /\ todo' = kept /\ kept' = << >>
        /\ UNCHANGED <<inflight_tag_check, translation_stash, internal_PQ>>
    BY <1>14 DEF StartMisses, translateVars
  <2>2. T = 0 /\ K2 = 0
    BY <2>1, CountEmpty
  <2>3. T2 = K /\ I2 = I /\ S2 = S /\ P2 = P
    BY <2>1
  <2> HIDE DEF I, T, K, S, P, I2, T2, K2, S2, P2
  <2>4. I2 + T2 + K2 + S2 + P2 = I + T + K + S + P
    BY <1>3, <2>2, <2>3
  <2>5. QED
    BY <1>5, <2>4 DEF I, T, K, S, P, I2, T2, K2, S2, P2
<1>15. CASE EndCycle
  <2>1. inflight_tag_check' = kept \o inflight_tag_check /\ kept' = << >>
        /\ UNCHANGED <<todo, translation_stash, internal_PQ>>
    BY <1>15 DEF EndCycle, translateVars
  <2>2. K2 = 0
    BY <2>1, CountEmpty
  <2>3. I2 = K + I
    BY <1>2, <2>1, CountJoined
  <2>4. T2 = T /\ S2 = S /\ P2 = P
    BY <2>1
  <2> HIDE DEF I, T, K, S, P, I2, T2, K2, S2, P2
  <2>5. I2 + T2 + K2 + S2 + P2 = I + T + K + S + P
    BY <1>3, <2>2, <2>3, <2>4
  <2>6. QED
    BY <1>5, <2>5 DEF I, T, K, S, P, I2, T2, K2, S2, P2
<1>16. QED
  BY <1>6, <1>7, <1>8, <1>9, <1>10, <1>12, <1>13, <1>14, <1>15 DEF MovesOn

-----------------------------------------------------------------------------
(* Where misses and fills come from and go to. *)

\* The misses and fills of a kind.
Filed(D) == Count(MSHR, D) + Count(inflight_fills, D)

\* The set does not look at the time left.
FillBlind(D) ==
    \A f, g \in Fill :
        (f.addr = g.addr /\ f.type = g.type /\ f.ids = g.ids /\ f.to_return = g.to_return)
            => (f \in D <=> g \in D)

\* A lookup that merges with a miss or a fill e makes it g.
MergedWith(pkt, e, g) ==
    /\ e \in Fill /\ e.addr = pkt.addr
    /\ g \in Fill /\ g.addr = pkt.addr
    /\ g.type = (IF pkt.type = "PREFETCH" THEN e.type ELSE pkt.type)
    /\ g.ids = e.ids \cup pkt.ids /\ g.to_return = e.to_return \cup pkt.to_return
    /\ \/ \E i \in 1 .. Len(MSHR) : MSHR[i] = e
       \/ \E i \in 1 .. Len(inflight_fills) : inflight_fills[i] = e
    /\ demoted' = IF Demotes(e, pkt) THEN demoted \cup {pkt.addr} ELSE demoted

\* Some entry belongs: the number is positive.
LEMMA CountSome ==
  ASSUME NEW T, NEW s \in Seq(T), NEW D, NEW i \in 1 .. Len(s), s[i] \in D
  PROVE  Count(s, D) \in Nat /\ Count(s, D) >= 1
<1>1. Count(s, D) \in Nat /\ Count(s, D) # 0
  BY CountType, CountZero
<1>2. QED
  BY <1>1

\* Their numbers are numbers.
LEMMA FiledMany ==
  ASSUME CacheTyped, NEW D
  PROVE  /\ Count(MSHR, D) \in Nat /\ Count(inflight_fills, D) \in Nat /\ Filed(D) \in Nat
<1>1. Count(MSHR, D) \in Nat /\ Count(inflight_fills, D) \in Nat
  BY CountType DEF CacheTyped
<1>2. QED
  BY <1>1 DEF Filed

\* The same in the next state.
LEMMA FiledManyNext ==
  ASSUME CacheTyped', NEW D
  PROVE  /\ Count(MSHR', D) \in Nat /\ Count(inflight_fills', D) \in Nat
         /\ Filed(D)' = Count(MSHR', D) + Count(inflight_fills', D)
         /\ Filed(D)' \in Nat
<1>1. Count(MSHR', D) \in Nat /\ Count(inflight_fills', D) \in Nat
  BY CountType DEF CacheTyped
<1>2. QED
  BY <1>1 DEF Filed

\* The first fill leaves for the cache.
LEMMA FiledFilled ==
  ASSUME TypeInv, CacheTyped', NEW w \in Way \cup {Bypass}, HandleFill(w), NEW D
  PROVE  Filed(D) = One(inflight_fills[1] \in D) + Filed(D)'
<1>1. CacheTyped
  BY DEF TypeInv
<1> DEFINE N == One(inflight_fills[1] \in D)
           F == Count(inflight_fills, D)
           F2 == Count(inflight_fills', D)
           M == Count(MSHR, D)
<1>2. F = N + F2
  BY <1>1, HandleFillMoves
<1>3. UNCHANGED MSHR
  BY DEF HandleFill
<1>4. Filed(D) = M + F /\ Filed(D)' = M + F2
  BY <1>3, FiledManyNext DEF Filed
<1>5. M \in Nat /\ F2 \in Nat /\ N \in Nat
  BY <1>1, FiledMany, FiledManyNext DEF One
<1> HIDE DEF N, F, F2, M
<1>6. Filed(D) = N + Filed(D)'
  BY <1>2, <1>4, <1>5
<1>7. QED
  BY <1>6 DEF N

\* A writeback becomes a fill.
LEMMA FiledWritten ==
  ASSUME TypeInv, CacheTyped', HandleWrite, NEW D
  PROVE  Filed(D)' = Filed(D) + One(ToFill(todo[1]) \in D)
<1>1. CacheTyped
  BY DEF TypeInv
<1>2. /\ todo[1] \in TagLookup /\ inflight_fills' = Append(inflight_fills, ToFill(todo[1]))
      /\ UNCHANGED MSHR
  BY <1>1, FirstOfTodo DEF HandleWrite
<1> DEFINE N == One(ToFill(todo[1]) \in D)
           F == Count(inflight_fills, D)
           F2 == Count(inflight_fills', D)
           M == Count(MSHR, D)
<1>3. F2 = F + N
  <2>1. ToFill(todo[1]) \in Fill /\ inflight_fills \in Seq(Fill)
    BY <1>1, <1>2, ToFillType DEF CacheTyped
  <2>2. QED
    BY <1>2, <2>1, CountAppend
<1>4. Filed(D) = M + F /\ Filed(D)' = M + F2
  BY <1>2, FiledManyNext DEF Filed
<1>5. M \in Nat /\ F \in Nat /\ N \in Nat
  BY <1>1, FiledMany DEF One
<1> HIDE DEF N, F, F2, M
<1>6. Filed(D)' = Filed(D) + N
  BY <1>3, <1>4, <1>5
<1>7. QED
  BY <1>6 DEF N

\* A miss gets an MSHR, unless it is not to be filled here.
LEMMA FiledForwarded ==
  ASSUME TypeInv, CacheTyped', ForwardMiss, NEW D
  PROVE  Filed(D)' = Filed(D) + IF todo[1].skip THEN 0 ELSE One(ToFill(todo[1]) \in D)
<1>1. CacheTyped
  BY DEF TypeInv
<1>2. /\ todo[1] \in TagLookup
      /\ MSHR' = IF todo[1].skip THEN MSHR ELSE Append(MSHR, ToFill(todo[1]))
      /\ UNCHANGED inflight_fills
  BY <1>1, FirstOfTodo DEF ForwardMiss, NewMiss, NextMiss
<1> DEFINE N == One(ToFill(todo[1]) \in D)
           F == Count(inflight_fills, D)
           M == Count(MSHR, D)
           M2 == Count(MSHR', D)
<1>3. Filed(D) = M + F /\ Filed(D)' = M2 + F
  BY <1>2, FiledManyNext DEF Filed
<1>4. M \in Nat /\ F \in Nat /\ N \in Nat
  BY <1>1, FiledMany DEF One
<1>5. CASE todo[1].skip
  BY <1>2, <1>3, <1>4, <1>5
<1>6. CASE ~todo[1].skip
  <2>1. M2 = M + N
    BY SMTT(30), <1>1, <1>2, <1>6, ToFillType, CountAppend DEF CacheTyped
  <2> HIDE DEF N, F, M, M2
  <2>2. Filed(D)' = Filed(D) + N
    BY <1>3, <1>4, <2>1
  <2>3. QED
    BY <1>6, <2>2 DEF N
<1>7. QED
  BY <1>5, <1>6

\* A miss of a line that is already on its way merges with it.
LEMMA FiledMerged ==
  ASSUME TypeInv, CacheTyped', MergeMiss
  PROVE  \E e, g : /\ MergedWith(todo[1], e, g)
                   /\ \A D : Filed(D)' + One(e \in D) = Filed(D) + One(g \in D)
<1>1. CacheTyped
  BY DEF TypeInv
<1>2. /\ todo # << >> /\ Head(todo) = todo[1] /\ todo[1] \in TagLookup
      /\ MSHR \in Seq(Fill) /\ inflight_fills \in Seq(Fill)
  BY <1>1, FirstOfTodo DEF MergeMiss, NextMiss, CacheTyped
<1> DEFINE pkt == todo[1]
           m == IndexOf(MSHR, pkt.addr)
           f == IndexOf(inflight_fills, pkt.addr)
<1>3. \/ /\ m # 0
         /\ MSHR' = [MSHR EXCEPT ![m] = Merge(MSHR[m], ToFill(pkt))]
         /\ demoted' = IF Demotes(MSHR[m], pkt) THEN demoted \cup {pkt.addr} ELSE demoted
         /\ UNCHANGED inflight_fills
      \/ /\ m = 0 /\ f # 0
         /\ inflight_fills' = [inflight_fills EXCEPT ![f] = Merge(inflight_fills[f], ToFill(pkt))]
         /\ demoted' = IF Demotes(inflight_fills[f], pkt) THEN demoted \cup {pkt.addr} ELSE demoted
         /\ UNCHANGED MSHR
  BY <1>2 DEF MergeMiss, InMSHR, InFills
<1>4. ASSUME NEW D
      PROVE  /\ Count(MSHR, D) \in Nat /\ Count(inflight_fills, D) \in Nat
             /\ Count(MSHR', D) \in Nat /\ Count(inflight_fills', D) \in Nat
             /\ Filed(D) = Count(MSHR, D) + Count(inflight_fills, D)
             /\ Filed(D)' = Count(MSHR', D) + Count(inflight_fills', D)
  BY <1>1, FiledMany, FiledManyNext DEF Filed
<1>5. CASE m # 0
  <2> DEFINE e == MSHR[m]
             g == Merge(e, ToFill(pkt))
  <2>1. /\ MSHR' = [MSHR EXCEPT ![m] = g] /\ UNCHANGED inflight_fills
        /\ demoted' = IF Demotes(e, pkt) THEN demoted \cup {pkt.addr} ELSE demoted
    BY <1>3, <1>5
  <2>2. MergesIn(MSHR, MSHR', m, pkt)
    BY <1>2, <1>5, <2>1, MergedIn
  <2>3. /\ m \in 1 .. Len(MSHR) /\ e \in Fill /\ e.addr = pkt.addr
        /\ g \in Fill /\ g.addr = pkt.addr
        /\ g.type = (IF pkt.type = "PREFETCH" THEN e.type ELSE pkt.type)
        /\ g.ids = e.ids \cup pkt.ids
        /\ g.to_return = e.to_return \cup pkt.to_return
        /\ \A D : Count(MSHR', D) + One(e \in D) = Count(MSHR, D) + One(g \in D)
    BY <2>2 DEF MergesIn
  <2>4. MergedWith(pkt, e, g)
    BY <2>1, <2>3 DEF MergedWith
  <2> HIDE DEF e, g, m, f
  <2>5. ASSUME NEW D
        PROVE  Filed(D)' + One(e \in D) = Filed(D) + One(g \in D)
    <3> DEFINE E == One(e \in D)
               G == One(g \in D)
               M == Count(MSHR, D)
               M2 == Count(MSHR', D)
               F == Count(inflight_fills, D)
    <3>1. M2 + E = M + G
      BY <2>3
    <3>2. Filed(D)' = M2 + F /\ Filed(D) = M + F
      BY <1>4, <2>1
    <3>3. E \in Nat /\ G \in Nat /\ M \in Nat /\ M2 \in Nat /\ F \in Nat
      BY <1>4 DEF One
    <3> HIDE DEF E, G, M, M2, F
    <3>4. Filed(D)' + E = Filed(D) + G
      BY <3>1, <3>2, <3>3
    <3>5. QED
      BY <3>4 DEF E, G
  <2>6. QED
    BY <2>4, <2>5
<1>6. CASE m = 0
  <2> DEFINE e == inflight_fills[f]
             g == Merge(e, ToFill(pkt))
  <2>1. /\ inflight_fills' = [inflight_fills EXCEPT ![f] = g] /\ UNCHANGED MSHR /\ f # 0
        /\ demoted' = IF Demotes(e, pkt) THEN demoted \cup {pkt.addr} ELSE demoted
    BY <1>3, <1>6
  <2>2. MergesIn(inflight_fills, inflight_fills', f, pkt)
    BY <1>2, <2>1, MergedIn
  <2>3. /\ f \in 1 .. Len(inflight_fills) /\ e \in Fill /\ e.addr = pkt.addr
        /\ g \in Fill /\ g.addr = pkt.addr
        /\ g.type = (IF pkt.type = "PREFETCH" THEN e.type ELSE pkt.type)
        /\ g.ids = e.ids \cup pkt.ids
        /\ g.to_return = e.to_return \cup pkt.to_return
        /\ \A D : Count(inflight_fills', D) + One(e \in D) = Count(inflight_fills, D) + One(g \in D)
    BY <2>2 DEF MergesIn
  <2>4. MergedWith(pkt, e, g)
    BY <2>1, <2>3 DEF MergedWith
  <2> HIDE DEF e, g, m, f
  <2>5. ASSUME NEW D
        PROVE  Filed(D)' + One(e \in D) = Filed(D) + One(g \in D)
    <3> DEFINE E == One(e \in D)
               G == One(g \in D)
               M == Count(MSHR, D)
               F == Count(inflight_fills, D)
               F2 == Count(inflight_fills', D)
    <3>1. F2 + E = F + G
      BY <2>3
    <3>2. Filed(D)' = M + F2 /\ Filed(D) = M + F
      BY <1>4, <2>1
    <3>3. E \in Nat /\ G \in Nat /\ M \in Nat /\ F2 \in Nat /\ F \in Nat
      BY <1>4 DEF One
    <3> HIDE DEF E, G, M, F, F2
    <3>4. Filed(D)' + E = Filed(D) + G
      BY <3>1, <3>2, <3>3
    <3>5. QED
      BY <3>4 DEF E, G
  <2>6. QED
    BY <2>4, <2>5
<1>7. QED
  BY <1>5, <1>6

\* The steps that change neither misses nor fills.
LeavesFills ==
    \/ FinishTranslation \/ StartFills \/ StartInitiate \/ InitiateFromPrefetches
    \/ (\E k \in 1 .. NumSources : InitiateFromUpper(k))
    \/ StartTagChecks \/ TryHit \/ TryMiss \/ StartMisses \/ StallMiss \/ EndCycle
    \/ Environment \/ UNCHANGED cacheVars

\* A step is one of the six that touch the fills, or leaves them alone.
LEMMA FillKinds ==
  ASSUME [CacheNext]_cacheVars
  PROVE  \/ StartCycle \/ FinishPacket \/ (\E w \in Way \cup {Bypass} : HandleFill(w))
         \/ HandleWrite \/ MergeMiss \/ ForwardMiss \/ LeavesFills
BY DEF CacheNext, Operate, LeavesFills

\* Those steps leave the MSHRs and the fills where they are.
LEMMA FillsLeft == LeavesFills => UNCHANGED <<MSHR, inflight_fills>>
BY ZenonT(40) DEF LeavesFills, Environment, FinishTranslation, StartFills, StartInitiate,
       InitiateFromPrefetches, InitiateFromUpper, StartTagChecks, TryHit, TryMiss, StartMisses,
       StallMiss, EndCycle, Receive, Ask, Send, PrefetchLine, LowerAnswer, LowerTake,
       TranslateTake, TranslateAnswer, cacheVars

\* The other steps lose none and make none.
LEMMA FiledKept ==
  ASSUME TypeInv, CacheTyped', StartCycle \/ FinishPacket \/ LeavesFills, NEW D, FillBlind(D)
  PROVE  Filed(D)' = Filed(D)
<1>1. CacheTyped /\ inflight_fills \in Seq(Fill) /\ MSHR \in Seq(Fill)
  BY DEF TypeInv, CacheTyped
<1>2. CASE StartCycle
  <2>1. /\ Len(inflight_fills') = Len(inflight_fills) /\ inflight_fills' \in Seq(Fill)
        /\ \A i \in 1 .. Len(inflight_fills) :
              /\ inflight_fills'[i].addr = inflight_fills[i].addr
              /\ inflight_fills'[i].type = inflight_fills[i].type
              /\ inflight_fills'[i].ids = inflight_fills[i].ids
              /\ inflight_fills'[i].to_return = inflight_fills[i].to_return
    BY <1>1, <1>2, AgedFills DEF StartCycle
  <2>2. \A i \in 1 .. Len(inflight_fills) : inflight_fills'[i] \in Fill /\ inflight_fills[i] \in Fill
    BY <1>1, <2>1, ElementOfSeq
  <2>3. \A i \in 1 .. Len(inflight_fills) : inflight_fills[i] \in D <=> inflight_fills'[i] \in D
    BY <2>1, <2>2 DEF FillBlind
  <2>4. Count(inflight_fills', D) = Count(inflight_fills, D)
    BY <1>1, <2>1, <2>3, CountAlike
  <2>5. UNCHANGED MSHR
    BY <1>2 DEF StartCycle
  <2>6. QED
    BY <2>4, <2>5, FiledManyNext DEF Filed
<1>3. CASE FinishPacket
  <2> DEFINE m == IndexOf(MSHR, lower.returned[1].addr)
             f == [MSHR[m] EXCEPT !.wait = FillLatency]
  <2>1. /\ m \in 1 .. Len(MSHR)
        /\ f \in Fill /\ f.addr = MSHR[m].addr /\ f.type = MSHR[m].type
        /\ f.ids = MSHR[m].ids /\ f.to_return = MSHR[m].to_return
        /\ inflight_fills' = Append(inflight_fills, f)
        /\ Count(MSHR', D) + One(MSHR[m] \in D) = Count(MSHR, D)
    BY <1>1, <1>3, FinishPacketMoves
  <2> HIDE DEF m, f
  <2>2. MSHR[m] \in Fill
    BY <1>1, <2>1, ElementOfSeq
  <2>3. f \in D <=> MSHR[m] \in D
    BY <2>1, <2>2 DEF FillBlind
  <2>4. Count(inflight_fills', D) = Count(inflight_fills, D) + One(MSHR[m] \in D)
    BY <1>1, <2>1, <2>3, CountAppend DEF One
  <2> DEFINE N == One(MSHR[m] \in D)
             M == Count(MSHR, D)
             M2 == Count(MSHR', D)
             F == Count(inflight_fills, D)
             F2 == Count(inflight_fills', D)
  <2>5. M2 + N = M /\ F2 = F + N
    BY <2>1, <2>4
  <2>6. N \in Nat /\ M2 \in Nat /\ F \in Nat
    BY <1>1, FiledMany, FiledManyNext DEF One
  <2>7. Filed(D) = M + F /\ Filed(D)' = M2 + F2
    BY FiledManyNext DEF Filed
  <2> HIDE DEF N, M, M2, F, F2
  <2>8. QED
    BY <2>5, <2>6, <2>7
<1>4. CASE LeavesFills
  BY <1>4, FillsLeft DEF Filed
<1>5. QED
  BY <1>2, <1>3, <1>4

-----------------------------------------------------------------------------
(* Requests, lookups, misses and fills know whom they answer. *)

\* A packet enters a queue of an upper channel.
Queued(u, q, x) ==
    /\ u \in Upper /\ q \in RequestQueues /\ x \in Request
    /\ \A v \in Upper : \A p \in RequestQueues :
          upper'[v][p] = IF v = u /\ p = q THEN Append(upper[u][q], x) ELSE upper[v][p]
    /\ \A v \in Upper : upper'[v].returned = upper[v].returned

\* Putting a request into the queue of an upper level is such a step.
LEMMA QueuedBy ==
  ASSUME CacheTyped, NEW u \in Upper, NEW q \in RequestQueues, NEW x \in Request,
         upper' = [upper EXCEPT ![u] = Push(upper[u], q, x)]
  PROVE  Queued(u, q, x)
<1> DEFINE c == Push(upper[u], q, x)
<1>1. upper \in [Upper -> ChannelOf(Request, Response)]
      /\ upper[u] \in ChannelOf(Request, Response)
  BY DEF CacheTyped
<1>2. /\ \A p \in RequestQueues : c[p] = IF p = q THEN Append(upper[u][q], x) ELSE upper[u][p]
      /\ c.returned = upper[u].returned
  BY <1>1, Pushed
<1> HIDE DEF c
<1>3. \A v \in Upper : upper'[v] = IF v = u THEN c ELSE upper[v]
  BY <1>1 DEF c
<1>4. QED
  BY <1>2, <1>3 DEF Queued

\* A request of an upper level that wants an answer.
LEMMA AskMoves ==
  ASSUME CacheTyped, NEW u \in Upper, NEW q \in RequestQueues, NEW type \in Types,
         NEW a \in Line, Ask(u, q, type, a)
  PROVE  \E x : /\ Queued(u, q, x) /\ q # "WQ"
                /\ x.ids = {Len(asked) + 1} /\ x.respond = TRUE
<1> DEFINE x == [addr |-> a, type |-> type, respond |-> TRUE,
                 ids |-> {Len(asked) + 1}, translated |-> ~Translates]
<1>1. Len(asked) + 1 \in Ids
  <2>1. asked \in Seq(Upper) /\ others \in Nat /\ Len(asked) + others < MaxRequests
    BY DEF CacheTyped, Ask, MoreRequests
  <2>2. Len(asked) \in Nat
    BY <2>1, LenProperties
  <2>3. QED
    BY <2>1, <2>2, Bounds DEF Ids
<1>2. x \in Request
  BY <1>1 DEF Request
<1>3. upper' = [upper EXCEPT ![u] = Push(upper[u], q, x)]
  BY DEF Ask
<1>4. q # "WQ"
  BY DEF Ask
<1>5. x.ids = {Len(asked) + 1} /\ x.respond = TRUE
  OBVIOUS
<1> HIDE DEF x
<1>6. Queued(u, q, x)
  BY <1>2, <1>3, QueuedBy
<1>7. QED
  BY <1>4, <1>5, <1>6

\* One that wants none.
LEMMA SendMoves ==
  ASSUME CacheTyped, NEW u \in Upper, NEW q \in RequestQueues, NEW type \in Types,
         NEW a \in Line, Send(u, q, type, a)
  PROVE  \E x : Queued(u, q, x) /\ x.ids = {}
<1> DEFINE x == [addr |-> a, type |-> type, respond |-> FALSE,
                 ids |-> {}, translated |-> ~Translates]
<1>1. x \in Request
  BY DEF Request
<1>2. upper' = [upper EXCEPT ![u] = Push(upper[u], q, x)]
  BY DEF Send
<1>3. x.ids = {}
  OBVIOUS
<1> HIDE DEF x
<1>4. Queued(u, q, x)
  BY <1>1, <1>2, QueuedBy
<1>5. QED
  BY <1>3, <1>4

\* An upper level reads its responses.
LEMMA ReceiveMoves ==
  ASSUME CacheTyped, NEW u \in Upper, Receive(u)
  PROVE  /\ \A v \in Upper : \A p \in RequestQueues : upper'[v][p] = upper[v][p]
         /\ \A v \in Upper : upper'[v].returned = IF v = u THEN << >> ELSE upper[v].returned
<1> DEFINE c == [upper[u] EXCEPT !.returned = << >>]
<1>1. upper \in [Upper -> ChannelOf(Request, Response)]
      /\ upper[u] \in ChannelOf(Request, Response)
  BY DEF CacheTyped
<1>2. upper' = [upper EXCEPT ![u] = c]
  BY DEF Receive
<1>3. << >> \in Seq(Response)
  OBVIOUS
<1>4. c.returned = << >> /\ \A p \in RequestQueues : c[p] = upper[u][p]
  BY <1>1 DEF ChannelOf, RequestQueues
<1> HIDE DEF c
<1>5. \A v \in Upper : upper'[v] = IF v = u THEN c ELSE upper[v]
  BY <1>1, <1>2
<1>6. QED
  BY <1>4, <1>5

RequestsOf(who, v, q) ==
    {r \in Request : \A i \in r.ids : q # "WQ" /\ r.respond /\ i \in 1 .. Len(who) /\ who[i] = v}

ResponsesOf(who) == {r \in Response : \A i \in r.ids : i \in 1 .. Len(who)}

Astray(who) ==
    {x \in TagLookup : \/ x.skip /\ ~(x.type = "PREFETCH" /\ x.ids = {})
                       \/ \E i \in x.ids : i \notin 1 .. Len(who) \/ who[i] \notin x.to_return}

Misfiled(who) ==
    {f \in Fill : \E i \in f.ids : i \notin 1 .. Len(who) \/ who[i] \notin f.to_return}

\* Whatever carries a request carries the level that asked it, and a lookup that is
\* not to be filled here carries none.
Addressed ==
    /\ \A v \in Upper : \A q \in RequestQueues : Every(upper[v][q], RequestsOf(asked, v, q))
    /\ \A v \in Upper : Every(upper[v].returned, ResponsesOf(asked))
    /\ Held(Astray(asked)) = 0
    /\ Every(internal_PQ, OwnPrefetch)
    /\ Filed(Misfiled(asked)) = 0
    /\ \A i \in answered : i \in 1 .. Len(asked)

\* What the sets say does not depend on how far a lookup has come.
LEMMA AstrayBlind ==
  ASSUME NEW who
  PROVE  Blind(Astray(who))
BY DEF Blind, Alike, Astray

\* Who asked a request never changes.
LEMMA AskedGrows ==
  ASSUME CacheTyped, [CacheNext]_cacheVars
  PROVE  /\ Len(asked) \in Nat /\ Len(asked') \in Nat /\ Len(asked) <= Len(asked')
         /\ \A i \in 1 .. Len(asked) : i \in 1 .. Len(asked') /\ asked'[i] = asked[i]
<1>1. asked \in Seq(Upper) /\ Len(asked) \in Nat
  BY LenProperties DEF CacheTyped
<1>2. CASE UNCHANGED asked
  BY <1>1, <1>2
<1>3. ASSUME NEW u \in Upper, asked' = Append(asked, u)
      PROVE  /\ Len(asked') \in Nat /\ Len(asked) <= Len(asked')
             /\ \A i \in 1 .. Len(asked) : i \in 1 .. Len(asked') /\ asked'[i] = asked[i]
  <2>1. /\ Len(asked') = Len(asked) + 1
        /\ \A i \in 1 .. Len(asked) : asked'[i] = asked[i]
    BY <1>1, <1>3, AppendProperties
  <2>2. QED
    BY <1>1, <2>1
<1>4. UNCHANGED asked \/ \E u \in Upper : asked' = Append(asked, u)
  <2>1. CASE Settles
    BY <2>1 DEF Settles, TryHit, HandleWrite, MergeMiss, ForwardMiss
  <2>2. CASE MovesOn
    BY <2>2 DEF MovesOn, StartCycle, FinishTranslation, StartInitiate, InitiateFromPrefetches,
                StartTagChecks, TryMiss, StartMisses, StallMiss, EndCycle
  <2>3. CASE Elsewhere
    BY ZenonT(40), <2>3 DEF Elsewhere, FinishPacket, StartFills, HandleFill, Receive, Ask, Send, LowerAnswer,
                LowerTake, TranslateTake, TranslateAnswer, cacheVars
  <2>4. CASE \/ \E k \in 1 .. NumSources : InitiateFromUpper(k)
             \/ \E a \in Line, fillThisLevel \in BOOLEAN : PrefetchLine(a, fillThisLevel)
    BY <2>4 DEF InitiateFromUpper, PrefetchLine
  <2>5. QED
    BY <2>1, <2>2, <2>3, <2>4, StepKinds
<1>5. QED
  BY <1>1, <1>2, <1>3, <1>4

\* Hence what is well addressed stays so.
LEMMA AddressesLast ==
  ASSUME CacheTyped, [CacheNext]_cacheVars
  PROVE  /\ \A x : x \in Astray(asked') => x \in Astray(asked)
         /\ \A x : x \in Misfiled(asked') => x \in Misfiled(asked)
         /\ \A v, q, x : x \in RequestsOf(asked, v, q) => x \in RequestsOf(asked', v, q)
         /\ \A x : x \in ResponsesOf(asked) => x \in ResponsesOf(asked')
<1>1. \A i \in 1 .. Len(asked) : i \in 1 .. Len(asked') /\ asked'[i] = asked[i]
  BY AskedGrows
<1>2. \A x : x \in Astray(asked') => x \in Astray(asked)
  BY <1>1 DEF Astray
<1>3. \A x : x \in Misfiled(asked') => x \in Misfiled(asked)
  BY <1>1 DEF Misfiled
<1>4. \A v, q, x : x \in RequestsOf(asked, v, q) => x \in RequestsOf(asked', v, q)
  BY <1>1 DEF RequestsOf
<1>5. \A x : x \in ResponsesOf(asked) => x \in ResponsesOf(asked')
  BY <1>1 DEF ResponsesOf
<1>6. QED
  BY <1>2, <1>3, <1>4, <1>5

\* Nobody has asked for anything at first.
LEMMA AddressedInitially == CacheInit => Addressed
<1> SUFFICES ASSUME CacheInit PROVE Addressed
  OBVIOUS
<1>1. /\ inflight_tag_check = << >> /\ translation_stash = << >> /\ todo = << >>
      /\ kept = << >> /\ internal_PQ = << >> /\ MSHR = << >> /\ inflight_fills = << >>
      /\ answered = {}
  BY DEF CacheInit, QuietInit
<1>2. /\ \A D : Every(<< >>, D)
      /\ \A D : Count(<< >>, D) = 0
  BY EveryEmpty, CountEmpty
<1>3. \A D : Held(D) = 0 /\ Filed(D) = 0
  BY <1>1, <1>2 DEF Held, Filed
<1>4. \A v \in Upper : /\ upper[v].returned = << >>
                       /\ \A q \in RequestQueues : upper[v][q] = << >>
  BY DEF CacheInit, QuietInit, EmptyChannel, RequestQueues
<1>5. QED
  BY <1>1, <1>2, <1>3, <1>4 DEF Addressed

\* Nothing is held of a part of what nothing is held of.
LEMMA HeldFewer ==
  ASSUME CacheTyped', NEW D, NEW E, \A x : x \in E => x \in D, Held(D)' = 0
  PROVE  Held(E)' = 0
<1>1. /\ inflight_tag_check' \in Seq(TagLookup) /\ todo' \in Seq(TagLookup)
      /\ kept' \in Seq(TagLookup) /\ translation_stash' \in Seq(TagLookup)
      /\ internal_PQ' \in Seq(TagLookup)
  BY DEF CacheTyped
<1>2. ASSUME NEW s \in Seq(TagLookup), Count(s, D) = 0
      PROVE  Count(s, E) = 0
  <2>1. \A i \in 1 .. Len(s) : s[i] \notin D
    BY <1>2, CountZero
  <2>2. \A i \in 1 .. Len(s) : s[i] \notin E
    BY <2>1
  <2>3. QED
    BY <2>2, CountZero
<1>3. /\ Count(inflight_tag_check', D) = 0 /\ Count(todo', D) = 0 /\ Count(kept', D) = 0
      /\ Count(translation_stash', D) = 0 /\ Count(internal_PQ', D) = 0
  BY HeldManyNext
<1>4. /\ Count(inflight_tag_check', E) = 0 /\ Count(todo', E) = 0 /\ Count(kept', E) = 0
      /\ Count(translation_stash', E) = 0 /\ Count(internal_PQ', E) = 0
  BY <1>1, <1>2, <1>3
<1>5. QED
  BY <1>4, HeldManyNext

\* The lookup looked at next is well addressed.
LEMMA FirstAddressed ==
  ASSUME TypeInv, Addressed, todo # << >>
  PROVE  /\ todo[1] \in TagLookup
         /\ todo[1].skip => todo[1].type = "PREFETCH" /\ todo[1].ids = {}
         /\ \A i \in todo[1].ids : i \in 1 .. Len(asked) /\ asked[i] \in todo[1].to_return
<1>1. CacheTyped /\ todo \in Seq(TagLookup)
  BY DEF TypeInv, CacheTyped
<1>2. todo[1] \in TagLookup /\ Len(todo) \in Nat \ {0}
  BY <1>1, FirstOfTodo
<1>3. Count(todo, Astray(asked)) = 0
  <2> DEFINE D == Astray(asked)
  <2> HIDE DEF D
  <2>1. Held(D) = 0
    BY DEF Addressed, D
  <2>2. Count(todo, D) = 0
    BY <1>1, <2>1, HeldMany DEF Held
  <2>3. QED
    BY <2>2 DEF D
<1>4. todo[1] \notin Astray(asked)
  BY <1>1, <1>2, <1>3, CountZero
<1>5. QED
  BY <1>2, <1>4 DEF Astray

\* The packets an upper channel holds are that level's.
LEMMA TakenAddressed ==
  ASSUME TypeInv, Addressed, NEW u, NEW q, NEW n, NEW taken, UpperParts(u, q, n, taken)
  PROVE  \A j \in 1 .. Len(taken) :
            /\ taken[j] \in TagLookup /\ ~taken[j].skip
            /\ taken[j].ids = upper[u][q][j].ids
            /\ \A i \in taken[j].ids :
                  q # "WQ" /\ i \in 1 .. Len(asked) /\ asked[i] = u /\ taken[j].to_return = {u}
            /\ taken[j].to_return \in SUBSET {u}
<1>1. /\ u \in Upper /\ q \in RequestQueues /\ n \in 1 .. Len(upper[u][q])
      /\ taken \in Seq(TagLookup) /\ Len(taken) = n
      /\ upper[u][q] \in Seq(Request)
      /\ \A i \in 1 .. n : taken[i] = Lookup(upper[u][q][i], u)
  BY DEF UpperParts
<1>2. Every(upper[u][q], RequestsOf(asked, u, q))
  BY <1>1 DEF Addressed
<1> SUFFICES ASSUME NEW j \in 1 .. Len(taken)
             PROVE  /\ taken[j] \in TagLookup /\ ~taken[j].skip
                    /\ taken[j].ids = upper[u][q][j].ids
                    /\ \A i \in taken[j].ids :
                          /\ q # "WQ" /\ i \in 1 .. Len(asked) /\ asked[i] = u
                          /\ taken[j].to_return = {u}
                    /\ taken[j].to_return \in SUBSET {u}
  OBVIOUS
<1> DEFINE r == upper[u][q][j]
<1>3. Len(upper[u][q]) \in Nat
  BY <1>1, LenProperties
<1>4. j \in 1 .. n /\ j \in 1 .. Len(upper[u][q])
  BY <1>1, <1>3
<1>5. r \in RequestsOf(asked, u, q) /\ taken[j] = Lookup(r, u) /\ taken[j] \in TagLookup
  BY <1>1, <1>2, <1>4, ElementOfSeq DEF Every
<1> HIDE DEF r
<1>6. \A i \in r.ids : q # "WQ" /\ r.respond /\ i \in 1 .. Len(asked) /\ asked[i] = u
  BY <1>5 DEF RequestsOf
<1>7. /\ Lookup(r, u).skip = FALSE /\ Lookup(r, u).ids = r.ids
      /\ Lookup(r, u).to_return = IF r.respond THEN {u} ELSE {}
  BY DEF Lookup
<1>8. QED
  BY <1>5, <1>6, <1>7 DEF r

\* Every step keeps each lookup answering the level that asked.
LEMMA LookupsAddressed ==
  ASSUME TypeInv, CacheTyped', Addressed, [CacheNext]_cacheVars
  PROVE  Held(Astray(asked))' = 0 /\ Every(internal_PQ', OwnPrefetch)
<1>1. CacheTyped /\ internal_PQ \in Seq(TagLookup)
  BY DEF TypeInv, CacheTyped
<1>2. PICK D : D = Astray(asked)
  OBVIOUS
<1>3. Held(D) = 0 /\ Every(internal_PQ, OwnPrefetch)
  BY <1>2 DEF Addressed
<1>4. Blind(D)
  BY <1>2, AstrayBlind
<1>5. ASSUME Settles
      PROVE  Held(D)' = 0 /\ Every(internal_PQ', OwnPrefetch)
  <2>1. Held(D) = One(todo[1] \in D) + Held(D)'
    BY <1>5, HeldSettled
  <2>2. One(todo[1] \in D) \in Nat /\ Held(D)' \in Nat
    BY HeldManyNext DEF One
  <2> DEFINE N == One(todo[1] \in D)
  <2> HIDE DEF N
  <2>3. Held(D)' = 0
    BY <1>3, <2>1, <2>2 DEF N
  <2>4. UNCHANGED internal_PQ
    BY <1>5 DEF Settles, TryHit, HandleWrite, MergeMiss, ForwardMiss
  <2>5. QED
    BY <1>3, <2>3, <2>4
<1>6. ASSUME MovesOn
      PROVE  Held(D)' = 0 /\ Every(internal_PQ', OwnPrefetch)
  <2>1. Held(D)' = 0
    BY <1>3, <1>4, <1>6, HeldMoved
  <2>2. Every(internal_PQ', OwnPrefetch)
    <3>1. CASE InitiateFromPrefetches
      <4>1. PICK n, moved : PrefetchParts(n, moved)
        BY <1>1, <3>1, PrefetchMoves
      <4>2. /\ n \in 1 .. Len(internal_PQ)
            /\ internal_PQ' = SubSeq(internal_PQ, n + 1, Len(internal_PQ))
        BY <4>1 DEF PrefetchParts
      <4>3. n \in 0 .. Len(internal_PQ)
        BY <1>1, <4>2, LenProperties
      <4>4. QED
        BY <1>1, <1>3, <4>2, <4>3, EverySplit
    <3>2. CASE ~InitiateFromPrefetches
      <4>1. UNCHANGED internal_PQ
        BY <1>6, <3>2 DEF MovesOn, StartCycle, FinishTranslation, StartInitiate, StartTagChecks,
                          TryMiss, StartMisses, StallMiss, EndCycle
      <4>2. QED
        BY <1>3, <4>1
    <3>3. QED
      BY <3>1, <3>2
  <2>3. QED
    BY <2>1, <2>2
<1>7. ASSUME Elsewhere
      PROVE  Held(D)' = 0 /\ Every(internal_PQ', OwnPrefetch)
  <2>1. UNCHANGED lookupVars
    BY <1>7, ElsewhereKeeps
  <2>2. Held(D)' = 0
    BY <1>3, <2>1, HeldKept
  <2>3. QED
    BY <1>3, <2>1, <2>2 DEF lookupVars
<1>8. ASSUME NEW k \in 1 .. NumSources, InitiateFromUpper(k)
      PROVE  Held(D)' = 0 /\ Every(internal_PQ', OwnPrefetch)
  <2>1. PICK u, q, n, taken : UpperParts(u, q, n, taken)
    BY <1>1, <1>8, UpperMoves
  <2>2. taken \in Seq(TagLookup)
    BY <2>1 DEF UpperParts
  <2>3. \A j \in 1 .. Len(taken) : taken[j] \notin D
    <3>1. u \in Upper
      BY <2>1 DEF UpperParts
    <3>2. \A j \in 1 .. Len(taken) :
             /\ ~taken[j].skip
             /\ \A i \in taken[j].ids :
                   i \in 1 .. Len(asked) /\ asked[i] = u /\ taken[j].to_return = {u}
      BY <2>1, TakenAddressed
    <3>3. QED
      BY <1>2, <3>2 DEF Astray
  <2>4. Count(taken, D) = 0
    BY <2>2, <2>3, CountZero
  <2>5. Held(D)' = Held(D) + Count(taken, D)
    BY <1>8, <2>1, HeldFromUpper
  <2>6. UNCHANGED internal_PQ
    BY <1>8 DEF InitiateFromUpper
  <2>7. QED
    BY <1>3, <2>4, <2>5, <2>6
<1>9. ASSUME NEW a \in Line, NEW fillThisLevel \in BOOLEAN, PrefetchLine(a, fillThisLevel)
      PROVE  Held(D)' = 0 /\ Every(internal_PQ', OwnPrefetch)
  <2>1. PICK x \in OwnPrefetch : Held(D)' = Held(D) + One(x \in D)
    BY <1>9, HeldFromPrefetcher
  <2>2. x \notin D
    BY <1>2, <2>1 DEF OwnPrefetch, Astray
  <2>3. Held(D)' = 0
    BY <1>3, <2>1, <2>2 DEF One
  <2> DEFINE y == [addr |-> a, type |-> "PREFETCH", ids |-> {}, to_return |-> {},
                   skip |-> ~fillThisLevel, wait |-> HitLatency, told |-> 0,
                   translated |-> ~(Translates /\ VirtualPrefetch), issued |-> FALSE]
  <2>4. internal_PQ' = Append(internal_PQ, y)
    BY <1>9 DEF PrefetchLine
  <2>5. y \in TagLookup /\ y.ids = {} /\ y.type = "PREFETCH"
    BY Bounds DEF TagLookup, Types
  <2> HIDE DEF y
  <2>6. Every(internal_PQ', OwnPrefetch)
    BY <1>1, <1>3, <2>4, <2>5, EveryAppend DEF OwnPrefetch
  <2>7. QED
    BY <2>3, <2>6
<1>10. Held(D)' = 0 /\ Every(internal_PQ', OwnPrefetch)
  BY <1>5, <1>6, <1>7, <1>8, <1>9, StepKinds
<1>11. PICK E : E = Astray(asked')
  OBVIOUS
<1>12. \A x : x \in E => x \in D
  BY <1>1, <1>2, <1>11, AddressesLast
<1>13. Held(E)' = 0
  BY <1>10, <1>12, HeldFewer
<1>14. Held(Astray(asked))' = Held(E)'
  BY <1>11 DEF Held
<1>15. QED
  BY <1>10, <1>13, <1>14

\* What a fill that is well addressed says.
LEMMA FillAddressed ==
  ASSUME TypeInv, Addressed, NEW f \in Fill,
         \/ \E i \in 1 .. Len(MSHR) : MSHR[i] = f
         \/ \E i \in 1 .. Len(inflight_fills) : inflight_fills[i] = f
  PROVE  \A i \in f.ids : i \in 1 .. Len(asked) /\ asked[i] \in f.to_return
<1> DEFINE D == Misfiled(asked)
<1> HIDE DEF D
<1>1. CacheTyped /\ MSHR \in Seq(Fill) /\ inflight_fills \in Seq(Fill)
  BY DEF TypeInv, CacheTyped
<1>2. Filed(D) = 0
  BY DEF Addressed, D
<1>3. Count(MSHR, D) = 0 /\ Count(inflight_fills, D) = 0
  BY <1>1, <1>2, FiledMany DEF Filed
<1>4. /\ \A i \in 1 .. Len(MSHR) : MSHR[i] \notin D
      /\ \A i \in 1 .. Len(inflight_fills) : inflight_fills[i] \notin D
  BY <1>1, <1>3, CountZero
<1>5. f \notin D
  BY <1>4
<1>6. QED
  BY <1>5 DEF D, Misfiled

\* A part of what there is none of.
LEMMA FiledFewer ==
  ASSUME CacheTyped', NEW D, NEW E, \A x : x \in E => x \in D, Filed(D)' = 0
  PROVE  Filed(E)' = 0
<1>1. MSHR' \in Seq(Fill) /\ inflight_fills' \in Seq(Fill)
  BY DEF CacheTyped
<1>2. ASSUME NEW s \in Seq(Fill), Count(s, D) = 0
      PROVE  Count(s, E) = 0
  <2>1. \A i \in 1 .. Len(s) : s[i] \notin D
    BY <1>2, CountZero
  <2>2. \A i \in 1 .. Len(s) : s[i] \notin E
    BY <2>1
  <2>3. QED
    BY <2>2, CountZero
<1>3. Count(MSHR', D) = 0 /\ Count(inflight_fills', D) = 0
  BY FiledManyNext
<1>4. Count(MSHR', E) = 0 /\ Count(inflight_fills', E) = 0
  BY <1>1, <1>2, <1>3
<1>5. QED
  BY <1>4, FiledManyNext

\* Every step keeps each fill answering the level that asked.
LEMMA FillsAddressed ==
  ASSUME TypeInv, CacheTyped', Addressed, [CacheNext]_cacheVars
  PROVE  Filed(Misfiled(asked))' = 0
<1>1. CacheTyped
  BY DEF TypeInv
<1>2. PICK D : D = Misfiled(asked)
  OBVIOUS
<1>3. Filed(D) = 0
  BY <1>2 DEF Addressed
<1>4. FillBlind(D)
  BY <1>2 DEF FillBlind, Misfiled
<1>5. ASSUME NEW x \in TagLookup, \A i \in x.ids : i \in 1 .. Len(asked) /\ asked[i] \in x.to_return
      PROVE  ToFill(x) \notin D
  <2>1. ToFill(x).ids = x.ids /\ ToFill(x).to_return = x.to_return
    BY DEF ToFill
  <2>2. QED
    BY <1>2, <1>5, <2>1 DEF Misfiled
<1>6. ASSUME StartCycle \/ FinishPacket \/ LeavesFills
      PROVE  Filed(D)' = 0
  BY <1>3, <1>4, <1>6, FiledKept
<1>7. ASSUME NEW w \in Way \cup {Bypass}, HandleFill(w)
      PROVE  Filed(D)' = 0
  <2>1. Filed(D) = One(inflight_fills[1] \in D) + Filed(D)'
    BY <1>7, FiledFilled
  <2>2. One(inflight_fills[1] \in D) \in Nat /\ Filed(D)' \in Nat
    BY FiledManyNext DEF One
  <2> DEFINE N == One(inflight_fills[1] \in D)
  <2> HIDE DEF N
  <2>3. QED
    BY <1>3, <2>1, <2>2 DEF N
<1>8. ASSUME HandleWrite \/ ForwardMiss
      PROVE  Filed(D)' = 0
  <2>1. todo # << >>
    BY <1>8 DEF HandleWrite, ForwardMiss, NewMiss, NextMiss
  <2>2. ToFill(todo[1]) \notin D
    BY <1>5, <2>1, FirstAddressed
  <2>3. One(ToFill(todo[1]) \in D) = 0
    BY <2>2 DEF One
  <2>4. CASE HandleWrite
    BY <1>3, <2>3, <2>4, FiledWritten
  <2>5. CASE ForwardMiss
    BY <1>3, <2>3, <2>5, FiledForwarded
  <2>6. QED
    BY <1>8, <2>4, <2>5
<1>9. ASSUME MergeMiss
      PROVE  Filed(D)' = 0
  <2>1. PICK e, g : /\ MergedWith(todo[1], e, g)
                    /\ \A E : Filed(E)' + One(e \in E) = Filed(E) + One(g \in E)
    BY <1>9, FiledMerged
  <2>2. /\ e \in Fill /\ g.ids = e.ids \cup todo[1].ids
        /\ g.to_return = e.to_return \cup todo[1].to_return
        /\ \/ \E i \in 1 .. Len(MSHR) : MSHR[i] = e
           \/ \E i \in 1 .. Len(inflight_fills) : inflight_fills[i] = e
    BY <2>1 DEF MergedWith
  <2>3. \A i \in e.ids : i \in 1 .. Len(asked) /\ asked[i] \in e.to_return
    BY <2>2, FillAddressed
  <2>4. todo # << >>
    BY <1>9 DEF MergeMiss, NextMiss
  <2>5. \A i \in todo[1].ids : i \in 1 .. Len(asked) /\ asked[i] \in todo[1].to_return
    BY <2>4, FirstAddressed
  <2>6. e \notin D /\ g \notin D
    BY <1>2, <2>2, <2>3, <2>5 DEF Misfiled
  <2>7. One(e \in D) = 0 /\ One(g \in D) = 0
    BY <2>6 DEF One
  <2>8. Filed(D)' + 0 = 0 + 0
    BY <1>3, <2>1, <2>7
  <2>9. Filed(D)' \in Nat
    BY FiledManyNext
  <2>10. QED
    BY <2>8, <2>9
<1>10. Filed(D)' = 0
  BY <1>6, <1>7, <1>8, <1>9, FillKinds
<1>11. PICK E : E = Misfiled(asked')
  OBVIOUS
<1>12. \A x : x \in E => x \in D
  BY <1>1, <1>2, <1>11, AddressesLast
<1>13. Filed(E)' = 0
  BY <1>10, <1>12, FiledFewer
<1>14. Filed(Misfiled(asked))' = Filed(E)'
  BY <1>11 DEF Filed
<1>15. QED
  BY <1>13, <1>14

\* The steps that leave the upper channels alone.
LeavesUpper ==
    \/ MovesOn \/ FinishPacket \/ StartFills \/ HandleWrite \/ MergeMiss
    \/ ForwardMiss
    \/ \E a \in Line : \/ LowerAnswer(a)
                       \/ \E fillThisLevel \in BOOLEAN : PrefetchLine(a, fillThisLevel)
    \/ \E q \in RequestQueues : LowerTake(q)
    \/ TranslateTake
    \/ \E page \in Pages : TranslateAnswer(page)
    \/ UNCHANGED cacheVars

\* A step leaves the upper levels alone, answers, takes, or queues a request.
LEMMA UpperKinds ==
  ASSUME [CacheNext]_cacheVars
  PROVE  \/ LeavesUpper \/ TryHit
         \/ \E w \in Way \cup {Bypass} : HandleFill(w)
         \/ \E k \in 1 .. NumSources : InitiateFromUpper(k)
         \/ \E u \in Upper : Receive(u)
         \/ \E u \in Upper, q \in RequestQueues, type \in Types, a \in Line :
               Ask(u, q, type, a) \/ Send(u, q, type, a)
BY DEF CacheNext, Operate, Environment, LeavesUpper, MovesOn

\* Of the request history, they change nothing either.
LEMMA UpperLeft == LeavesUpper => UNCHANGED <<upper, asked, answered>>
BY DEF LeavesUpper, MovesOn, StartCycle, FinishTranslation, StartInitiate, InitiateFromPrefetches,
       StartTagChecks, TryMiss, StartMisses, StallMiss, EndCycle, FinishPacket, StartFills,
       HandleWrite, MergeMiss, ForwardMiss, PrefetchLine, LowerAnswer, LowerTake,
       TranslateTake, TranslateAnswer, cacheVars

\* A response carries what the packet carried.
LEMMA RespondedAddressed ==
  ASSUME TypeInv, Addressed, NEW pkt, pkt.addr \in Line, pkt.ids \in SUBSET Ids,
         upper' = Responded(upper, pkt), UNCHANGED asked,
         \A i \in pkt.ids : i \in 1 .. Len(asked)
  PROVE  /\ \A v \in Upper : \A q \in RequestQueues : Every(upper'[v][q], RequestsOf(asked', v, q))
         /\ \A v \in Upper : Every(upper'[v].returned, ResponsesOf(asked'))
<1> DEFINE x == [addr |-> pkt.addr, ids |-> pkt.ids]
<1>1. upper \in [Upper -> ChannelOf(Request, Response)]
  BY DEF TypeInv, CacheTyped
<1>2. /\ \A v \in Upper, q \in RequestQueues : upper'[v][q] = upper[v][q]
      /\ \A v \in Upper : upper'[v].returned =
            IF v \in pkt.to_return THEN Append(upper[v].returned, x) ELSE upper[v].returned
  BY <1>1, RespondedType
<1>3. x \in Response /\ x \in ResponsesOf(asked)
  BY DEF Response, ResponsesOf
<1>4. \A v \in Upper : upper[v].returned \in Seq(Response)
  BY <1>1 DEF ChannelOf
<1> HIDE DEF x
<1>5. /\ \A v \in Upper : \A q \in RequestQueues : Every(upper[v][q], RequestsOf(asked, v, q))
      /\ \A v \in Upper : Every(upper[v].returned, ResponsesOf(asked))
  BY DEF Addressed
<1>6. ASSUME NEW v \in Upper
      PROVE  Every(upper'[v].returned, ResponsesOf(asked'))
  <2>1. Every(Append(upper[v].returned, x), ResponsesOf(asked))
    BY <1>3, <1>4, <1>5, EveryAppend
  <2>2. QED
    BY <1>2, <1>5, <2>1
<1>7. QED
  BY <1>2, <1>5, <1>6

\* Every step keeps each queued request, and each answer, with the level that asked.
LEMMA UpperAddressed ==
  ASSUME TypeInv, CacheTyped', Addressed, [CacheNext]_cacheVars
  PROVE  /\ \A v \in Upper : \A q \in RequestQueues : Every(upper'[v][q], RequestsOf(asked', v, q))
         /\ \A v \in Upper : Every(upper'[v].returned, ResponsesOf(asked'))
<1>1. CacheTyped /\ upper \in [Upper -> ChannelOf(Request, Response)]
  BY DEF TypeInv, CacheTyped
<1>2. /\ \A v \in Upper : \A q \in RequestQueues : Every(upper[v][q], RequestsOf(asked, v, q))
      /\ \A v \in Upper : Every(upper[v].returned, ResponsesOf(asked))
  BY DEF Addressed
<1>3. ASSUME NEW v \in Upper
      PROVE  /\ \A q \in RequestQueues : upper[v][q] \in Seq(Request)
             /\ upper[v].returned \in Seq(Response)
  <2>1. upper[v] \in ChannelOf(Request, Response)
    BY <1>1
  <2>2. QED
    BY <2>1 DEF ChannelOf, RequestQueues
<1>4. CASE LeavesUpper
  BY <1>2, <1>4, UpperLeft
<1>5. CASE TryHit
  <2>1. /\ todo # << >> /\ upper' = Responded(upper, Head(todo)) /\ UNCHANGED asked
    BY <1>5 DEF TryHit
  <2>2. Head(todo) = todo[1]
    BY <1>1, <2>1, FirstOfTodo
  <2>3. /\ todo[1] \in TagLookup /\ \A i \in todo[1].ids : i \in 1 .. Len(asked)
    BY <2>1, FirstAddressed
  <2>4. todo[1].addr \in Line /\ todo[1].ids \in SUBSET Ids
    BY <2>3 DEF TagLookup
  <2>5. QED
    BY <2>1, <2>2, <2>3, <2>4, RespondedAddressed
<1>6. ASSUME NEW w \in Way \cup {Bypass}, HandleFill(w)
      PROVE  /\ \A v \in Upper : \A q \in RequestQueues : Every(upper'[v][q], RequestsOf(asked', v, q))
             /\ \A v \in Upper : Every(upper'[v].returned, ResponsesOf(asked'))
  <2> DEFINE f == inflight_fills[1]
  <2>1. f \in Fill /\ inflight_fills # << >> /\ upper' = Responded(upper, f)
    BY <1>1, <1>6, HandleFillMoves
  <2>2. inflight_fills \in Seq(Fill)
    BY <1>1 DEF CacheTyped
  <2>3. Len(inflight_fills) \in Nat \ {0}
    BY <2>1, <2>2, CountTail
  <2>4. \E i \in 1 .. Len(inflight_fills) : inflight_fills[i] = f
    BY <2>3
  <2> HIDE DEF f
  <2>5. \A i \in f.ids : i \in 1 .. Len(asked)
    BY <2>1, <2>4, FillAddressed
  <2>6. f.addr \in Line /\ f.ids \in SUBSET Ids
    BY <2>1 DEF Fill
  <2>7. UNCHANGED asked
    BY <1>6 DEF HandleFill
  <2>8. QED
    BY <2>1, <2>5, <2>6, <2>7, RespondedAddressed
<1>7. ASSUME NEW k \in 1 .. NumSources, InitiateFromUpper(k)
      PROVE  /\ \A v \in Upper : \A q \in RequestQueues : Every(upper'[v][q], RequestsOf(asked', v, q))
             /\ \A v \in Upper : Every(upper'[v].returned, ResponsesOf(asked'))
  <2>1. PICK u, q, n, taken : UpperParts(u, q, n, taken)
    BY <1>1, <1>7, UpperMoves
  <2>2. /\ u \in Upper /\ q \in RequestQueues /\ n \in 1 .. Len(upper[u][q])
        /\ upper[u][q] \in Seq(Request)
        /\ \A v \in Upper, p \in RequestQueues :
              upper'[v][p] = IF v = u /\ p = q
                               THEN SubSeq(upper[u][q], n + 1, Len(upper[u][q]))
                               ELSE upper[v][p]
        /\ \A v \in Upper : upper'[v].returned = upper[v].returned
    BY <2>1 DEF UpperParts
  <2>3. UNCHANGED asked
    BY <1>7 DEF InitiateFromUpper
  <2>4. n \in 0 .. Len(upper[u][q])
    BY <2>2, LenProperties
  <2>5. Every(SubSeq(upper[u][q], n + 1, Len(upper[u][q])), RequestsOf(asked, u, q))
    BY <1>2, <2>2, <2>4, EverySplit
  <2>6. ASSUME NEW v \in Upper, NEW p \in RequestQueues
        PROVE  Every(upper'[v][p], RequestsOf(asked', v, p))
    BY <1>2, <2>2, <2>3, <2>5
  <2>7. QED
    BY <1>2, <2>2, <2>3, <2>6
<1>8. ASSUME NEW u \in Upper, Receive(u)
      PROVE  /\ \A v \in Upper : \A q \in RequestQueues : Every(upper'[v][q], RequestsOf(asked', v, q))
             /\ \A v \in Upper : Every(upper'[v].returned, ResponsesOf(asked'))
  <2>1. UNCHANGED asked
    BY <1>8 DEF Receive
  <2>2. Every(<< >>, ResponsesOf(asked))
    BY EveryEmpty
  <2>3. QED
    BY <1>1, <1>2, <1>8, <2>1, <2>2, ReceiveMoves
\* A packet is queued: those queued before are as well addressed as they were.
<1>9. ASSUME NEW u, NEW q, NEW x, Queued(u, q, x), x \in RequestsOf(asked', u, q)
      PROVE  /\ \A v \in Upper : \A p \in RequestQueues : Every(upper'[v][p], RequestsOf(asked', v, p))
             /\ \A v \in Upper : Every(upper'[v].returned, ResponsesOf(asked'))
  <2>1. /\ u \in Upper /\ q \in RequestQueues /\ x \in Request
        /\ \A v \in Upper : \A p \in RequestQueues :
              upper'[v][p] = IF v = u /\ p = q THEN Append(upper[u][q], x) ELSE upper[v][p]
        /\ \A v \in Upper : upper'[v].returned = upper[v].returned
    BY <1>9 DEF Queued
  <2>2. ASSUME NEW v \in Upper, NEW p \in RequestQueues
        PROVE  Every(upper[v][p], RequestsOf(asked', v, p))
    <3>1. \A r : r \in RequestsOf(asked, v, p) => r \in RequestsOf(asked', v, p)
      BY <1>1, AddressesLast
    <3>2. QED
      BY <1>2, <3>1, EveryWider
  <2>3. Every(Append(upper[u][q], x), RequestsOf(asked', u, q))
    BY <1>3, <1>9, <2>1, <2>2, EveryAppend
  <2>4. ASSUME NEW v \in Upper
        PROVE  Every(upper'[v].returned, ResponsesOf(asked'))
    <3>1. \A r : r \in ResponsesOf(asked) => r \in ResponsesOf(asked')
      BY <1>1, AddressesLast
    <3>2. Every(upper[v].returned, ResponsesOf(asked'))
      BY <1>2, <3>1, EveryWider
    <3>3. QED
      BY <2>1, <3>2
  <2>5. ASSUME NEW v \in Upper, NEW p \in RequestQueues
        PROVE  Every(upper'[v][p], RequestsOf(asked', v, p))
    BY <2>1, <2>2, <2>3
  <2>6. QED
    BY <2>4, <2>5
<1>10. ASSUME NEW u \in Upper, NEW q \in RequestQueues, NEW type \in Types, NEW a \in Line,
              Ask(u, q, type, a)
       PROVE  /\ \A v \in Upper : \A p \in RequestQueues : Every(upper'[v][p], RequestsOf(asked', v, p))
              /\ \A v \in Upper : Every(upper'[v].returned, ResponsesOf(asked'))
  <2>1. PICK x : /\ Queued(u, q, x) /\ q # "WQ" /\ x.ids = {Len(asked) + 1} /\ x.respond = TRUE
    BY <1>1, <1>10, AskMoves
  <2>2. asked \in Seq(Upper) /\ asked' = Append(asked, u)
    BY <1>1, <1>10 DEF CacheTyped, Ask
  <2>3. /\ Len(asked') = Len(asked) + 1 /\ Len(asked) \in Nat
        /\ asked'[Len(asked) + 1] = u
    BY <2>2, AppendProperties, LenProperties
  <2>4. Len(asked) + 1 \in 1 .. Len(asked')
    BY <2>3
  <2>5. x \in RequestsOf(asked', u, q)
    BY <2>1, <2>3, <2>4 DEF RequestsOf, Queued
  <2>6. QED
    BY <1>9, <2>1, <2>5
<1>11. ASSUME NEW u \in Upper, NEW q \in RequestQueues, NEW type \in Types, NEW a \in Line,
              Send(u, q, type, a)
       PROVE  /\ \A v \in Upper : \A p \in RequestQueues : Every(upper'[v][p], RequestsOf(asked', v, p))
              /\ \A v \in Upper : Every(upper'[v].returned, ResponsesOf(asked'))
  <2>1. PICK x : Queued(u, q, x) /\ x.ids = {}
    BY <1>1, <1>11, SendMoves
  <2>2. x \in RequestsOf(asked', u, q)
    BY <2>1 DEF RequestsOf, Queued
  <2>3. QED
    BY <1>9, <2>1, <2>2
<1>12. QED
  BY <1>4, <1>5, <1>6, <1>7, <1>8, <1>10, <1>11, UpperKinds

\* Every step keeps all of it.
LEMMA AddressedStep ==
  ASSUME TypeInv, Addressed, [CacheNext]_cacheVars
  PROVE  Addressed'
<1>1. CacheTyped /\ CacheTyped'
  BY TypedStep, TypeInvStutters DEF TypeInv
<1>2. \A i \in 1 .. Len(asked) : i \in 1 .. Len(asked')
  BY <1>1, AskedGrows
<1>3. \A i \in answered' : i \in 1 .. Len(asked')
  <2>1. CASE UNCHANGED answered
    BY <1>2, <2>1 DEF Addressed
  <2>2. ASSUME NEW u \in Upper, Receive(u)
        PROVE  \A i \in answered' : i \in 1 .. Len(asked')
    <3>1. DOMAIN asked = 1 .. Len(asked)
      BY <1>1, LenProperties DEF CacheTyped
    <3>2. QED
      BY <1>2, <2>2, <3>1 DEF Receive, Addressed
  <2>3. UNCHANGED answered \/ \E u \in Upper : Receive(u)
    <3>1. CASE LeavesUpper
      BY <3>1, UpperLeft
    <3>2. CASE \/ TryHit
               \/ \E w \in Way \cup {Bypass} : HandleFill(w)
               \/ \E k \in 1 .. NumSources : InitiateFromUpper(k)
               \/ \E u \in Upper, q \in RequestQueues, type \in Types, a \in Line :
                     Ask(u, q, type, a) \/ Send(u, q, type, a)
      BY ZenonT(40), <3>2 DEF TryHit, HandleFill, InitiateFromUpper, Ask, Send
    <3>3. QED
      BY <3>1, <3>2, UpperKinds
  <2>4. QED
    BY <2>1, <2>2, <2>3
<1>4. QED
  BY <1>1, <1>3, LookupsAddressed, FillsAddressed, UpperAddressed DEF Addressed

-----------------------------------------------------------------------------
(* Writes are not lost. *)

WritesOf(a) == {f \in Fill : f.addr = a /\ f.type = "WRITE"}

\* A line and its dirty bit, in a way of the set it belongs to.
DirtyWay(blocks, a, w) ==
    blocks[SetOf[a]][w] # NoBlock /\ blocks[SetOf[a]][w].addr = a /\ blocks[SetOf[a]][w].dirty

DirtyIn(blocks, a) == \E w \in Way : DirtyWay(blocks, a, w)

\* A line written and not demoted is dirty, or a write of it is on its way.
Dirty == \A a \in written \ demoted : DirtyIn(block, a) \/ Filed(WritesOf(a)) >= 1

\* Whether a fill writes does not depend on the time it has left.
LEMMA WritesBlind ==
  ASSUME NEW a
  PROVE  FillBlind(WritesOf(a))
BY DEF FillBlind, WritesOf

\* No line has been written yet.
LEMMA DirtyInitially == CacheInit => Dirty
BY DEF CacheInit, QuietInit, Dirty

\* A hit keeps dirty lines dirty, and a write that hits makes its line dirty.
LEMMA TouchedDirty ==
  ASSUME CacheTyped, TryHit
  PROVE  /\ \A a \in Line : DirtyIn(block, a) => DirtyIn(block', a)
         /\ todo[1].type = "WRITE" => DirtyIn(block', todo[1].addr)
<1> DEFINE pkt == todo[1]
           s == SetOf[pkt.addr]
           w == Min(HitWays(pkt.addr))
           b == block[s][w]
           b2 == [b EXCEPT !.dirty = b.dirty \/ pkt.type = "WRITE"]
           R == [addr : Line, dirty : BOOLEAN]
<1>1. pkt \in TagLookup /\ pkt = Head(todo)
  BY FirstOfTodo DEF TryHit
<1>2. HitWays(pkt.addr) # {} /\ block' = [block EXCEPT ![s][w] = b2]
  BY <1>1 DEF TryHit, Touched
<1>3. s \in CacheSets /\ pkt.addr \in Line
  BY <1>1, CacheAssumption DEF TagLookup
<1>4. w \in HitWays(pkt.addr)
  <2>1. HitWays(pkt.addr) \in SUBSET Nat
    BY DEF HitWays, Way
  <2>2. QED
    BY <1>2, <2>1, MinOf
<1>5. block \in [CacheSets -> [Way -> R \cup {NoBlock}]]
  BY DEF CacheTyped
<1>6. w \in Way /\ b # NoBlock /\ b.addr = pkt.addr
  BY <1>4 DEF HitWays
<1> HIDE DEF pkt, s, w
<1>7. b \in R
  BY <1>3, <1>5, <1>6
<1>8. b2 \in R /\ b2.addr = b.addr /\ b2.dirty = (b.dirty \/ pkt.type = "WRITE")
  <2>1. (b.dirty \/ pkt.type = "WRITE") \in BOOLEAN
    OBVIOUS
  <2> HIDE DEF b
  <2>2. QED
    BY <1>7, <2>1
<1>9. b2 # NoBlock
  BY <1>8, CacheAssumption
<1> HIDE DEF b2, R
<1>10. ASSUME NEW a \in Line, NEW x \in Way
       PROVE  block'[SetOf[a]][x] = IF SetOf[a] = s /\ x = w THEN b2 ELSE block[SetOf[a]][x]
  <2>1. SetOf[a] \in CacheSets
    BY CacheAssumption
  <2>2. QED
    BY <1>2, <1>3, <1>5, <1>6, <2>1
<1>11. ASSUME NEW a \in Line, NEW x \in Way, DirtyWay(block, a, x)
       PROVE  DirtyWay(block', a, x)
  <2>1. CASE SetOf[a] = s /\ x = w
    <3>1. block'[SetOf[a]][x] = b2 /\ block[SetOf[a]][x] = b
      BY <1>10, <2>1
    <3> HIDE DEF b
    <3>2. b.addr = a /\ b.dirty
      BY <1>11, <3>1 DEF DirtyWay
    <3>3. QED
      BY <3>1, <3>2, <1>8, <1>9 DEF DirtyWay
  <2>2. CASE ~(SetOf[a] = s /\ x = w)
    <3>1. block'[SetOf[a]][x] = block[SetOf[a]][x]
      BY <1>10, <2>2
    <3>2. QED
      BY <3>1, <1>11 DEF DirtyWay
  <2>3. QED
    BY <2>1, <2>2
<1>12. ASSUME pkt.type = "WRITE"
       PROVE  DirtyWay(block', pkt.addr, w)
  <2>1. block'[SetOf[pkt.addr]][w] = b2
    BY <1>3, <1>6, <1>10 DEF s
  <2> HIDE DEF b
  <2>2. b2.addr = pkt.addr /\ b2.dirty
    BY <1>6, <1>8, <1>12
  <2>3. QED
    BY <2>1, <2>2, <1>9 DEF DirtyWay
<1>13. QED
  BY <1>6, <1>11, <1>12 DEF DirtyIn, pkt

\* A fill keeps dirty lines dirty, but for the victim, which is written back; and a
\* fill that writes is placed, in a way that becomes dirty.
LEMMA FilledDirty ==
  ASSUME CacheTyped, NEW w \in Way \cup {Bypass}, HandleFill(w)
  PROVE  /\ \A a \in written' : DirtyIn(block, a) => DirtyIn(block', a)
         /\ inflight_fills[1].type = "WRITE" => DirtyIn(block', inflight_fills[1].addr)
         /\ written' \in SUBSET written
<1> DEFINE f == inflight_fills[1]
           s == SetOf[f.addr]
           b == FillBlock(f)
           v == Victim(f, w)
           R == [addr : Line, dirty : BOOLEAN]
<1>1. /\ f \in Fill /\ w \in FillWay(f)
      /\ \/ NeedsWriteback(v) /\ written' = written \ {v.addr}
         \/ ~NeedsWriteback(v) /\ UNCHANGED written
      /\ \/ w \in Way /\ block' = [block EXCEPT ![s][w] = b]
         \/ w = Bypass /\ block' = block
      /\ b \in R
  BY HandleFillMoves
<1>2. s \in CacheSets /\ f.addr \in Line /\ written \in SUBSET Line
  BY <1>1, CacheAssumption DEF Fill, CacheTyped
<1>3. b.addr = f.addr /\ b.dirty = (f.type = "WRITE") /\ b # NoBlock
  BY <1>1, CacheAssumption DEF FillBlock
<1>4. block \in [CacheSets -> [Way -> R \cup {NoBlock}]]
  BY DEF CacheTyped
<1>5. Bypass \notin Way
  BY Bounds DEF Bypass, Way
<1>6. w \in Way => v = block[s][w]
  BY <1>5 DEF Victim
<1>7. f.type = "WRITE" => w \in Way
  <2>1. ASSUME f.type = "WRITE", w \notin Way
        PROVE  FALSE
    <3>1. w \in {Min(InvalidWay(s))} /\ InvalidWay(s) # {}
      BY <1>1, <2>1 DEF FillWay
    <3>2. InvalidWay(s) \in SUBSET Way /\ InvalidWay(s) \in SUBSET Nat
      BY DEF InvalidWay, Way
    <3>3. QED
      BY <3>1, <3>2, <2>1, MinOf
  <2>2. QED
    BY <2>1
<1> HIDE DEF s, b, v, R, f
<1>8. ASSUME NEW a \in Line, NEW x \in Way, w \in Way
      PROVE  block'[SetOf[a]][x] = IF SetOf[a] = s /\ x = w THEN b ELSE block[SetOf[a]][x]
  <2>1. SetOf[a] \in CacheSets
    BY CacheAssumption
  <2>2. block' = [block EXCEPT ![s][w] = b]
    BY <1>1, <1>5, <1>8
  <2>3. QED
    BY <1>2, <1>4, <1>8, <2>1, <2>2
<1>9. ASSUME NEW a \in written', NEW x \in Way, DirtyWay(block, a, x)
      PROVE  DirtyWay(block', a, x)
  <2>0. a \in Line
    BY <1>1, <1>2
  <2>1. CASE w \notin Way
    BY <1>1, <1>9, <2>1
  <2>2. CASE w \in Way /\ SetOf[a] = s /\ x = w
    <3>1. v # NoBlock /\ v.addr = a /\ v.dirty
      BY <1>6, <1>9, <2>2 DEF DirtyWay
    <3>2. a \notin written'
      BY <1>1, <3>1 DEF NeedsWriteback
    <3>3. QED
      BY <3>2
  <2>3. CASE w \in Way /\ ~(SetOf[a] = s /\ x = w)
    <3>1. block'[SetOf[a]][x] = block[SetOf[a]][x]
      BY <1>8, <2>0, <2>3
    <3>2. QED
      BY <1>9, <3>1 DEF DirtyWay
  <2>4. QED
    BY <2>1, <2>2, <2>3
<1>10. ASSUME f.type = "WRITE"
       PROVE  DirtyWay(block', f.addr, w) /\ w \in Way
  <2>1. w \in Way
    BY <1>7, <1>10
  <2>2. block'[SetOf[f.addr]][w] = b
    BY <1>2, <1>8, <2>1 DEF s
  <2>3. QED
    BY <1>3, <1>10, <2>1, <2>2 DEF DirtyWay
<1>11. written' \in SUBSET written
  BY <1>1
<1>12. QED
  BY <1>9, <1>10, <1>11 DEF DirtyIn, f

\* The steps that neither place a block nor write nor demote.
LeavesBlocks ==
    \/ StartCycle \/ FinishPacket \/ FinishTranslation \/ StartFills \/ StartInitiate
    \/ InitiateFromPrefetches \/ (\E k \in 1 .. NumSources : InitiateFromUpper(k))
    \/ StartTagChecks \/ TryMiss \/ StartMisses \/ StallMiss \/ EndCycle
    \/ Environment \/ UNCHANGED cacheVars

\* They are all but five.
LEMMA BlockKinds ==
  ASSUME [CacheNext]_cacheVars
  PROVE  \/ LeavesBlocks \/ TryHit \/ HandleWrite \/ MergeMiss \/ ForwardMiss
         \/ \E w \in Way \cup {Bypass} : HandleFill(w)
BY DEF CacheNext, Operate, LeavesBlocks

\* And keep what the property speaks of.
LEMMA BlocksLeft == LeavesBlocks => UNCHANGED <<block, written, demoted>>
<1>1. Environment => UNCHANGED <<block, written, demoted>>
  BY ZenonT(40) DEF Environment, Receive, Ask, Send, PrefetchLine, LowerAnswer, LowerTake,
         TranslateTake, TranslateAnswer
<1>2. QED
  BY <1>1 DEF LeavesBlocks, StartCycle, FinishPacket, FinishTranslation, StartFills,
     StartInitiate, InitiateFromPrefetches, InitiateFromUpper, StartTagChecks, TryMiss,
     StartMisses, StallMiss, EndCycle, cacheVars

\* Every step keeps the writes.
LEMMA DirtyStep ==
  ASSUME TypeInv, Addressed, Dirty, [CacheNext]_cacheVars
  PROVE  Dirty'
<1>1. CacheTyped /\ CacheTyped' /\ written \in SUBSET Line /\ written' \in SUBSET Line
  BY TypedStep, TypeInvStutters DEF TypeInv, CacheTyped
<1>2. ASSUME NEW a
      PROVE  Filed(WritesOf(a)) \in Nat /\ Filed(WritesOf(a))' \in Nat
  BY <1>1, FiledMany, FiledManyNext
<1>3. \A x : One(x) \in {0, 1} /\ (x => One(x) = 1) /\ (~x => One(x) = 0)
  BY DEF One
<1>4. SUFFICES ASSUME NEW a \in written' \ demoted'
               PROVE  DirtyIn(block', a) \/ Filed(WritesOf(a))' >= 1
  BY DEF Dirty, WritesOf, Filed
<1>5. a \in Line
  BY <1>1
<1>6. ASSUME a \in written, a \notin demoted
      PROVE  DirtyIn(block, a) \/ Filed(WritesOf(a)) >= 1
  BY <1>6 DEF Dirty
<1> DEFINE D == WritesOf(a)
<1>7. CASE LeavesBlocks
  <2>1. UNCHANGED <<block, written, demoted>>
    BY <1>7, BlocksLeft
  <2>2. Filed(D)' = Filed(D)
    <3>1. CASE StartCycle \/ FinishPacket \/ LeavesFills
      BY <1>1, <3>1, FiledKept, WritesBlind
    <3>2. QED
      BY <1>7, <3>1 DEF LeavesBlocks, LeavesFills
  <2>3. QED
    BY <1>6, <2>1, <2>2
<1>8. CASE TryHit
  <2>1. /\ todo[1] \in TagLookup /\ Head(todo) = todo[1] /\ UNCHANGED demoted
        /\ written' = IF todo[1].type = "WRITE" THEN written \cup {todo[1].addr} ELSE written
    BY <1>1, <1>8, FirstOfTodo DEF TryHit
  <2>2. Filed(D)' = Filed(D)
    BY <1>1, <1>8, FiledKept, WritesBlind DEF LeavesFills
  <2>3. CASE a \in written
    BY <1>1, <1>5, <1>6, <1>8, <2>1, <2>2, <2>3, TouchedDirty
  <2>4. CASE a \notin written
    BY <1>1, <1>8, <2>1, <2>4, TouchedDirty
  <2>5. QED
    BY <2>3, <2>4
<1>9. ASSUME NEW w \in Way \cup {Bypass}, HandleFill(w)
      PROVE  DirtyIn(block', a) \/ Filed(D)' >= 1
  <2>1. /\ DirtyIn(block, a) => DirtyIn(block', a)
        /\ inflight_fills[1].type = "WRITE" => DirtyIn(block', inflight_fills[1].addr)
        /\ a \in written
    BY <1>1, <1>9, FilledDirty
  <2>2. UNCHANGED demoted
    BY <1>9 DEF HandleFill
  <2>3. Filed(D) = One(inflight_fills[1] \in D) + Filed(D)'
    BY <1>1, <1>9, FiledFilled
  <2>4. CASE DirtyIn(block, a)
    BY <2>1, <2>4
  <2>5. CASE inflight_fills[1] \in D
    BY <2>1, <2>5 DEF WritesOf
  <2>6. CASE Filed(D) >= 1 /\ inflight_fills[1] \notin D
    <3>1. One(inflight_fills[1] \in D) = 0
      BY <2>6 DEF One
    <3>2. QED
      BY <1>2, <2>3, <2>6, <3>1
  <2>7. QED
    BY <1>6, <2>1, <2>2, <2>4, <2>5, <2>6
<1>10. ASSUME NEW g, NEW n \in Nat, Filed(D)' = Filed(D) + n, UNCHANGED <<block, demoted>>,
              written' \in SUBSET (written \cup {g}), g = a /\ a \notin written => n >= 1
       PROVE  DirtyIn(block', a) \/ Filed(D)' >= 1
  <2>1. CASE a \in written
    BY <1>2, <1>6, <1>10, <2>1
  <2>2. CASE a \notin written
    BY <1>2, <1>10, <2>2
  <2>3. QED
    BY <2>1, <2>2
<1>11. CASE HandleWrite
  <2>1. /\ todo[1] \in TagLookup /\ Head(todo) = todo[1] /\ UNCHANGED <<block, demoted>>
        /\ written' = written \cup {todo[1].addr} /\ todo[1].type = "WRITE"
    BY <1>1, <1>11, FirstOfTodo DEF HandleWrite, IsWriteback
  <2>2. Filed(D)' = Filed(D) + One(ToFill(todo[1]) \in D)
    BY <1>1, <1>11, FiledWritten
  <2>3. /\ ToFill(todo[1]) \in Fill /\ ToFill(todo[1]).addr = todo[1].addr
        /\ ToFill(todo[1]).type = todo[1].type
    BY <2>1, ToFillType DEF ToFill
  <2>4. todo[1].addr = a => ToFill(todo[1]) \in D
    BY <2>1, <2>3 DEF WritesOf
  <2> DEFINE n == One(ToFill(todo[1]) \in D)
  <2>5. n \in Nat /\ (todo[1].addr = a => n >= 1)
    BY <2>4 DEF One
  <2> HIDE DEF n
  <2>6. Filed(D)' = Filed(D) + n
    BY <2>2 DEF n
  <2>7. QED
    BY <1>10, <2>1, <2>5, <2>6
<1>12. CASE ForwardMiss
  <2>1. /\ todo # << >> /\ todo[1] \in TagLookup /\ Head(todo) = todo[1]
        /\ UNCHANGED <<block, demoted>>
        /\ written' = IF todo[1].type = "WRITE" THEN written \cup {todo[1].addr} ELSE written
    BY <1>1, <1>12, FirstOfTodo DEF ForwardMiss, NewMiss, NextMiss
  <2>2. Filed(D)' = Filed(D) + IF todo[1].skip THEN 0 ELSE One(ToFill(todo[1]) \in D)
    BY <1>1, <1>12, FiledForwarded
  <2>3. /\ ToFill(todo[1]) \in Fill /\ ToFill(todo[1]).addr = todo[1].addr
        /\ ToFill(todo[1]).type = todo[1].type
    BY <2>1, ToFillType DEF ToFill
  <2>4. todo[1].skip => todo[1].type = "PREFETCH"
    BY <2>1, FirstAddressed
  <2>5. todo[1].addr = a /\ todo[1].type = "WRITE" => ToFill(todo[1]) \in D /\ ~todo[1].skip
    BY <2>1, <2>3, <2>4 DEF WritesOf
  <2> DEFINE n == IF todo[1].skip THEN 0 ELSE One(ToFill(todo[1]) \in D)
  <2>6. n \in Nat /\ (todo[1].addr = a /\ todo[1].type = "WRITE" => n >= 1)
    BY <2>5 DEF One
  <2> HIDE DEF n
  <2>7. Filed(D)' = Filed(D) + n
    BY <2>2 DEF n
  <2>8. CASE todo[1].type = "WRITE"
    BY <1>10, <2>1, <2>6, <2>7, <2>8
  <2>9. CASE todo[1].type # "WRITE"
    BY <1>10, <2>1, <2>6, <2>7, <2>9
  <2>10. QED
    BY <2>8, <2>9
<1>13. CASE MergeMiss
  <2>1. /\ todo # << >> /\ todo[1] \in TagLookup /\ Head(todo) = todo[1] /\ UNCHANGED block
        /\ written' = IF todo[1].type = "WRITE" THEN written \cup {todo[1].addr} ELSE written
    BY <1>1, <1>13, FirstOfTodo DEF MergeMiss, NextMiss
  <2>2. PICK e, g : /\ MergedWith(todo[1], e, g)
                    /\ Filed(D)' + One(e \in D) = Filed(D) + One(g \in D)
    BY <1>1, <1>13, FiledMerged
  <2>3. /\ e \in Fill /\ e.addr = todo[1].addr /\ g \in Fill /\ g.addr = todo[1].addr
        /\ g.type = (IF todo[1].type = "PREFETCH" THEN e.type ELSE todo[1].type)
        /\ demoted' = IF Demotes(e, todo[1]) THEN demoted \cup {todo[1].addr} ELSE demoted
        /\ todo[1].type \in {"LOAD", "PREFETCH", "WRITE"}
    BY <2>1, <2>2 DEF MergedWith, TagLookup, Types
  <2>4. e \in D => Filed(D) >= 1
    <3>1. MSHR \in Seq(Fill) /\ inflight_fills \in Seq(Fill)
      BY <1>1 DEF CacheTyped
    <3>2. ASSUME e \in D
          PROVE  Count(MSHR, D) >= 1 \/ Count(inflight_fills, D) >= 1
      BY <2>2, <3>1, <3>2, CountSome DEF MergedWith
    <3>3. Count(MSHR, D) \in Nat /\ Count(inflight_fills, D) \in Nat
      BY <1>1, FiledMany
    <3>4. QED
      BY <3>2, <3>3 DEF Filed
  <2>5. a \notin demoted
    BY <2>3
  <2>6. CASE g \in D
    <3>1. One(g \in D) = 1 /\ One(e \in D) \in {0, 1} /\ (e \notin D => One(e \in D) = 0)
      BY <1>3, <2>6
    <3>2. Filed(D)' >= 1
      BY <1>2, <2>2, <2>4, <3>1
    <3>3. QED
      BY <3>2
  <2>7. CASE g \notin D
    <3>1. ~(a = todo[1].addr /\ todo[1].type = "WRITE")
      BY <2>3, <2>7 DEF WritesOf
    <3>2. a \in written
      BY <2>1, <3>1
    <3>3. e \notin D
      BY <2>3, <2>7 DEF WritesOf, Demotes
    <3>4. One(g \in D) = 0 /\ One(e \in D) = 0
      BY <2>7, <3>3 DEF One
    <3>5. Filed(D)' = Filed(D)
      BY <1>2, <2>2, <3>4
    <3>6. QED
      BY <1>6, <2>1, <2>5, <3>2, <3>5
  <2>8. QED
    BY <2>6, <2>7
<1>14. QED
  BY <1>7, <1>8, <1>9, <1>11, <1>12, <1>13, BlockKinds

\* What the invariant says in the words of the property.
LEMMA DirtyImplies == TypeInv /\ Dirty => WrittenIsDirtyUnlessMerged
<1> SUFFICES ASSUME TypeInv, Dirty, NEW a \in written \ demoted
             PROVE  CarriesWrite(a)
  BY DEF WrittenIsDirtyUnlessMerged
<1>1. /\ CacheTyped /\ MSHR \in Seq(Fill) /\ inflight_fills \in Seq(Fill)
      /\ Len(MSHR) \in Nat /\ Len(inflight_fills) \in Nat
  BY LenProperties DEF TypeInv, CacheTyped
<1>2. CASE DirtyIn(block, a)
  BY <1>2 DEF DirtyIn, DirtyWay, CarriesWrite, HitWays
<1>3. CASE Filed(WritesOf(a)) >= 1
  <2> DEFINE s == MSHR \o inflight_fills
             D == WritesOf(a)
  <2>1. s \in Seq(Fill) /\ Count(s, D) = Count(MSHR, D) + Count(inflight_fills, D)
    BY <1>1, CountJoined, ConcatProperties
  <2>2. Count(s, D) # 0
    BY <1>3, <2>1 DEF Filed
  <2> HIDE DEF s
  <2>3. PICK i \in 1 .. Len(s) : s[i] \in D
    BY <2>1, <2>2, CountZero
  <2>4. DOMAIN s = 1 .. Len(s)
    BY <2>1, LenProperties
  <2>5. s[i] \in ToSet(s)
    BY <2>3, <2>4 DEF ToSet
  <2>6. \E f \in ToSet(s) : f.addr = a /\ f.type = "WRITE"
    BY <2>3, <2>5 DEF WritesOf
  <2>7. QED
    BY <2>6 DEF CarriesWrite, s
<1>4. QED
  BY <1>2, <1>3 DEF Dirty

\* A write is lost in one way only: a demand miss that merges with the fill that
\* carries it takes over its type (cache.cc:117).  Evictions, bypasses, refused
\* writebacks, duplicate fills and hits keep it.
THEOREM WritesAreKept == CacheSpec => []WrittenIsDirtyUnlessMerged
<1>1. CacheInit => TypeInv /\ Addressed /\ Dirty
  BY TypeInvInitially, AddressedInitially, DirtyInitially
<1>2. TypeInv /\ Addressed /\ Dirty /\ [CacheNext]_cacheVars => TypeInv' /\ Addressed' /\ Dirty'
  BY TypedStep, SizedStep, TypeInvStutters, AddressedStep, DirtyStep DEF TypeInv
<1>3. TypeInv /\ Dirty => WrittenIsDirtyUnlessMerged
  BY DirtyImplies
<1>4. QED
  BY <1>1, <1>2, <1>3, PTL DEF CacheSpec

-----------------------------------------------------------------------------
(* A request is owed once. *)

Asks(i) == {r \in Request : i \in r.ids}
Tells(i) == {r \in Response : i \in r.ids}

\* The lookups, the misses and fills, that answer request i to the level u.
Bearing(i, u) == {x \in TagLookup : i \in x.ids /\ u \in x.to_return}
BearingFill(i, u) == {f \in Fill : i \in f.ids /\ u \in f.to_return}

\* Where the level u itself knows of its request i.
Above(i, u) ==
    Count(upper[u]["RQ"], Asks(i)) + Count(upper[u]["PQ"], Asks(i))
    + Count(upper[u].returned, Tells(i)) + One(i \in answered)

OwedTo(i, u) == Above(i, u) + Held(Bearing(i, u)) + Filed(BearingFill(i, u))

OwedOnce == \A i \in 1 .. Len(asked) : OwedTo(i, asked[i]) = 1

\* Its parts are numbers.
LEMMA AboveMany ==
  ASSUME CacheTyped, NEW i, NEW u \in Upper
  PROVE  /\ upper[u]["RQ"] \in Seq(Request) /\ upper[u]["PQ"] \in Seq(Request)
         /\ upper[u].returned \in Seq(Response)
         /\ Count(upper[u]["RQ"], Asks(i)) \in Nat /\ Count(upper[u]["PQ"], Asks(i)) \in Nat
         /\ Count(upper[u].returned, Tells(i)) \in Nat
         /\ One(i \in answered) \in {0, 1} /\ Above(i, u) \in Nat
<1>1. upper[u] \in ChannelOf(Request, Response)
  BY DEF CacheTyped
<1>2. /\ upper[u]["RQ"] \in Seq(Request) /\ upper[u]["PQ"] \in Seq(Request)
      /\ upper[u].returned \in Seq(Response)
  BY <1>1 DEF ChannelOf
<1>3. /\ Count(upper[u]["RQ"], Asks(i)) \in Nat /\ Count(upper[u]["PQ"], Asks(i)) \in Nat
      /\ Count(upper[u].returned, Tells(i)) \in Nat
  BY <1>2, CountType
<1>4. One(i \in answered) \in {0, 1}
  BY DEF One
<1>5. QED
  BY <1>2, <1>3, <1>4 DEF Above

\* The same in the next state.
LEMMA AboveManyNext ==
  ASSUME CacheTyped', NEW i, NEW u \in Upper
  PROVE  Above(i, u)' \in Nat
<1>1. upper'[u] \in ChannelOf(Request, Response)
  BY DEF CacheTyped
<1>2. /\ upper'[u]["RQ"] \in Seq(Request) /\ upper'[u]["PQ"] \in Seq(Request)
      /\ upper'[u].returned \in Seq(Response)
  BY <1>1 DEF ChannelOf
<1>3. /\ Count(upper'[u]["RQ"], Asks(i)) \in Nat /\ Count(upper'[u]["PQ"], Asks(i)) \in Nat
      /\ Count(upper'[u].returned, Tells(i)) \in Nat
  BY <1>2, CountType
<1>4. One(i \in answered') \in {0, 1}
  BY DEF One
<1>5. QED
  BY <1>3, <1>4 DEF Above

\* Nobody has asked anything.
LEMMA OwedOnceInitially == CacheInit => OwedOnce
BY DEF CacheInit, QuietInit, OwedOnce

\* Who is answered does not depend on how far a lookup or a fill has come.
LEMMA BearingBlind ==
  ASSUME NEW i, NEW u
  PROVE  Blind(Bearing(i, u)) /\ FillBlind(BearingFill(i, u))
BY DEF Blind, Alike, Bearing, FillBlind, BearingFill

\* A response takes over from the lookup or the fill.
LEMMA AboveResponded ==
  ASSUME CacheTyped, NEW pkt, pkt.addr \in Line, pkt.ids \in SUBSET Ids,
         upper' = Responded(upper, pkt), UNCHANGED answered, NEW i, NEW u \in Upper
  PROVE  Above(i, u)' = Above(i, u) + One(i \in pkt.ids /\ u \in pkt.to_return)
<1> DEFINE x == [addr |-> pkt.addr, ids |-> pkt.ids]
           s == upper[u].returned
           n == One(i \in pkt.ids /\ u \in pkt.to_return)
<1>1. upper \in [Upper -> ChannelOf(Request, Response)]
  BY DEF CacheTyped
<1>2. /\ \A q \in RequestQueues : upper'[u][q] = upper[u][q]
      /\ upper'[u].returned = IF u \in pkt.to_return THEN Append(s, x) ELSE s
  BY <1>1, RespondedType
<1>3. upper'[u]["RQ"] = upper[u]["RQ"] /\ upper'[u]["PQ"] = upper[u]["PQ"]
  BY <1>2 DEF RequestQueues
<1>4. x \in Response /\ x.ids = pkt.ids
  BY DEF Response
<1>5. s \in Seq(Response)
  BY AboveMany
<1> HIDE DEF x, s
<1>6. Count(Append(s, x), Tells(i)) = Count(s, Tells(i)) + One(x \in Tells(i))
  BY <1>4, <1>5, CountAppend
<1>7. x \in Tells(i) <=> i \in pkt.ids
  BY <1>4 DEF Tells
<1>8. Count(s, Tells(i)) \in Nat
  BY <1>5, CountType
<1>9. Count(upper'[u].returned, Tells(i)) = Count(s, Tells(i)) + n
  <2>1. CASE u \in pkt.to_return
    BY <1>2, <1>6, <1>7, <2>1 DEF One
  <2>2. CASE u \notin pkt.to_return
    BY <1>2, <1>8, <2>2 DEF One
  <2>3. QED
    BY <2>1, <2>2
<1>10. n \in Nat
  BY DEF One
<1> HIDE DEF n
<1> DEFINE A == Count(upper[u]["RQ"], Asks(i))
           B == Count(upper[u]["PQ"], Asks(i))
           C == Count(s, Tells(i))
           E == One(i \in answered)
<1>11. Above(i, u) = A + B + C + E
  BY DEF Above, s
<1>12. Above(i, u)' = A + B + (C + n) + E
  BY <1>3, <1>9 DEF Above
<1>13. A \in Nat /\ B \in Nat /\ C \in Nat /\ E \in Nat
  <2>1. /\ Count(upper[u]["RQ"], Asks(i)) \in Nat /\ Count(upper[u]["PQ"], Asks(i)) \in Nat
        /\ Count(upper[u].returned, Tells(i)) \in Nat /\ One(i \in answered) \in {0, 1}
    BY AboveMany
  <2>2. QED
    BY <2>1 DEF s
<1> HIDE DEF A, B, C, E
<1>14. QED
  BY <1>10, <1>11, <1>12, <1>13 DEF n

\* Another request is queued.
LEMMA AboveQueued ==
  ASSUME CacheTyped, NEW v, NEW q, NEW x, Queued(v, q, x), UNCHANGED answered,
         NEW i, i \notin x.ids, NEW u \in Upper
  PROVE  Above(i, u)' = Above(i, u)
<1>1. /\ v \in Upper /\ q \in RequestQueues /\ x \in Request
      /\ \A p \in RequestQueues :
          upper'[u][p] = IF u = v /\ p = q THEN Append(upper[v][q], x) ELSE upper[u][p]
      /\ upper'[u].returned = upper[u].returned
  BY DEF Queued
<1>2. x \notin Asks(i)
  BY DEF Asks
<1>3. ASSUME NEW p \in {"RQ", "PQ"}
      PROVE  Count(upper'[u][p], Asks(i)) = Count(upper[u][p], Asks(i))
  <2>1. upper[u][p] \in Seq(Request) /\ p \in RequestQueues /\ Count(upper[u][p], Asks(i)) \in Nat
    BY <1>3, AboveMany DEF RequestQueues
  <2>2. Count(Append(upper[u][p], x), Asks(i)) = Count(upper[u][p], Asks(i))
    <3>1. Count(Append(upper[u][p], x), Asks(i)) = Count(upper[u][p], Asks(i)) + One(x \in Asks(i))
      BY <1>1, <2>1, CountAppend
    <3>2. One(x \in Asks(i)) = 0
      BY <1>2 DEF One
    <3>3. QED
      BY <2>1, <3>1, <3>2
  <2>3. QED
    BY <1>1, <2>1, <2>2
<1>4. QED
  BY <1>1, <1>3 DEF Above

\* The lookups taken from a queue take over its requests.
LEMMA AboveTaken ==
  ASSUME TypeInv, Addressed, UNCHANGED answered, NEW i, NEW u \in Upper,
         i \in 1 .. Len(asked), asked[i] = u,
         NEW v, NEW q, NEW n, NEW taken, UpperParts(v, q, n, taken)
  PROVE  Above(i, u) = Above(i, u)' + Count(taken, Bearing(i, u))
<1>1. /\ v \in Upper /\ q \in RequestQueues
      /\ n \in 1 .. Len(upper[v][q])
      /\ upper[v][q] \in Seq(Request)
      /\ taken \in Seq(TagLookup) /\ Len(taken) = n
      /\ \A p \in RequestQueues :
            upper'[u][p] = IF u = v /\ p = q
                             THEN SubSeq(upper[v][q], n + 1, Len(upper[v][q]))
                             ELSE upper[u][p]
      /\ upper'[u].returned = upper[u].returned
  BY DEF UpperParts
<1>2. \A j \in 1 .. Len(taken) :
         /\ taken[j] \in TagLookup
         /\ taken[j].ids = upper[v][q][j].ids
         /\ \A k \in taken[j].ids :
               q # "WQ" /\ asked[k] = v /\ taken[j].to_return = {v}
  BY TakenAddressed
<1>3. CacheTyped
  BY DEF TypeInv
<1> DEFINE D == Bearing(i, u)
<1>4. Count(taken, D) \in Nat
  BY <1>1, CountType
<1>5. CASE u # v \/ q = "WQ"
  <2>1. \A j \in 1 .. Len(taken) : taken[j] \notin D
    BY <1>2, <1>5 DEF Bearing
  <2>2. Count(taken, D) = 0
    BY <1>1, <2>1, CountZero
  <2>3. upper'[u]["RQ"] = upper[u]["RQ"] /\ upper'[u]["PQ"] = upper[u]["PQ"]
    BY <1>1, <1>5 DEF RequestQueues
  <2>4. Above(i, u)' = Above(i, u) /\ Above(i, u) \in Nat
    BY <1>1, <1>3, <2>3, AboveMany DEF Above
  <2>5. QED
    BY <2>2, <2>4
<1>6. CASE u = v /\ q # "WQ"
  <2> DEFINE s == upper[u][q]
             F == Asks(i)
  <2>1. s \in Seq(Request) /\ n \in 1 .. Len(s) /\ Len(s) \in Nat /\ n \in 0 .. Len(s)
    BY <1>1, <1>6, LenProperties
  <2>0. upper[u][q] = s /\ upper[v][q] = s
    BY <1>6
  <2> HIDE DEF s, F, D
  <2>2. \A j \in 1 .. n : taken[j] \in D <=> s[j] \in F
    <3> SUFFICES ASSUME NEW j \in 1 .. n
                 PROVE  taken[j] \in D <=> s[j] \in F
      OBVIOUS
    <3>1. j \in 1 .. Len(s) /\ j \in 1 .. Len(taken) /\ s[j] \in Request
      BY <1>1, <2>1, ElementOfSeq
    <3>2. /\ taken[j] \in TagLookup /\ taken[j].ids = s[j].ids
          /\ (i \in taken[j].ids => taken[j].to_return = {u})
      BY <1>2, <1>6, <2>0, <3>1
    <3>3. QED
      BY <3>1, <3>2 DEF Bearing, Asks, D, F
  <2>3. /\ SubSeq(s, n + 1, Len(s)) \in Seq(Request)
        /\ Count(s, F) = Count(taken, D) + Count(SubSeq(s, n + 1, Len(s)), F)
    BY <1>1, <2>1, <2>2, CountTaken
  <2>5. /\ upper'[u][q] = SubSeq(s, n + 1, Len(s))
        /\ \A p \in RequestQueues : p # q => upper'[u][p] = upper[u][p]
    BY <1>1, <1>6, <2>0
  <2>6. Count(upper[u][q], F) = Count(taken, D) + Count(upper'[u][q], F)
    BY <2>0, <2>3, <2>5
  <2>7. Count(upper'[u][q], F) \in Nat
    BY <2>3, <2>5, CountType
  <2>8. /\ Count(upper[u]["RQ"], F) \in Nat /\ Count(upper[u]["PQ"], F) \in Nat
        /\ Count(upper[u].returned, Tells(i)) \in Nat /\ One(i \in answered) \in Nat
    <3>1. /\ Count(upper[u]["RQ"], Asks(i)) \in Nat /\ Count(upper[u]["PQ"], Asks(i)) \in Nat
          /\ Count(upper[u].returned, Tells(i)) \in Nat /\ One(i \in answered) \in {0, 1}
      BY <1>3, AboveMany
    <3>2. QED
      BY <3>1 DEF F
  <2> DEFINE A == Count(upper[u]["RQ"], F)
             B == Count(upper[u]["PQ"], F)
             C == Count(upper[u].returned, Tells(i))
             E == One(i \in answered)
             A2 == Count(upper'[u]["RQ"], F)
             B2 == Count(upper'[u]["PQ"], F)
             N == Count(taken, D)
  <2>9. Above(i, u) = A + B + C + E
    BY DEF Above, F
  <2>10. Above(i, u)' = A2 + B2 + C + E
    BY <1>1 DEF Above, F
  <2>11. q \in {"RQ", "PQ"}
    BY <1>1, <1>6 DEF RequestQueues
  <2>12. \/ A = N + A2 /\ B2 = B /\ A2 \in Nat
         \/ B = N + B2 /\ A2 = A /\ B2 \in Nat
    <3>1. CASE q = "RQ"
      BY <2>0, <2>5, <2>6, <2>7, <3>1 DEF RequestQueues
    <3>2. CASE q = "PQ"
      BY <2>0, <2>5, <2>6, <2>7, <3>2 DEF RequestQueues
    <3>3. QED
      BY <2>11, <3>1, <3>2
  <2>13. A \in Nat /\ B \in Nat /\ C \in Nat /\ E \in Nat /\ N \in Nat
    BY <1>4, <2>8
  <2> HIDE DEF A, B, C, E, A2, B2, N
  <2>14. A + B + C + E = (A2 + B2 + C + E) + N
    <3>1. CASE A = N + A2 /\ B2 = B /\ A2 \in Nat
      BY <2>13, <3>1
    <3>2. CASE B = N + B2 /\ A2 = A /\ B2 \in Nat
      BY <2>13, <3>2
    <3>3. QED
      BY <2>12, <3>1, <3>2
  <2>15. QED
    BY <2>9, <2>10, <2>14 DEF N, D
<1>7. QED
  BY <1>5, <1>6

\* The level reads its responses, each of which answers once.
LEMMA AboveReceived ==
  ASSUME TypeInv, CacheTyped', OwedOnce, NEW i \in 1 .. Len(asked), NEW u \in Upper, asked[i] = u,
         NEW v \in Upper, Receive(v)
  PROVE  Above(i, u)' = Above(i, u)
<1>1. CacheTyped /\ DOMAIN asked = 1 .. Len(asked)
  BY LenProperties DEF TypeInv, CacheTyped
<1>2. /\ \A p \in RequestQueues : upper'[u][p] = upper[u][p]
      /\ upper'[u].returned = IF u = v THEN << >> ELSE upper[u].returned
  BY <1>1, ReceiveMoves
<1>3. answered' = answered \cup
          {j \in DOMAIN asked :
              asked[j] = v /\ \E r \in ToSet(upper[v].returned) : j \in r.ids}
  BY DEF Receive
<1>4. upper'[u]["RQ"] = upper[u]["RQ"] /\ upper'[u]["PQ"] = upper[u]["PQ"]
  BY <1>2 DEF RequestQueues
<1>5. CASE u # v
  <2>1. upper'[u].returned = upper[u].returned /\ (i \in answered' <=> i \in answered)
    BY <1>2, <1>3, <1>5
  <2>2. QED
    BY <1>4, <2>1 DEF Above, One
<1>6. CASE u = v
  <2> DEFINE s == upper[u].returned
             A == Count(upper[u]["RQ"], Asks(i))
             B == Count(upper[u]["PQ"], Asks(i))
             C == Count(s, Tells(i))
             H == Held(Bearing(i, u))
             F == Filed(BearingFill(i, u))
  <2>1. s \in Seq(Response) /\ A \in Nat /\ B \in Nat /\ C \in Nat
    BY <1>1, AboveMany
  <2>2. H \in Nat /\ F \in Nat
    BY <1>1, HeldMany, FiledMany
  <2>3. A + B + C + One(i \in answered) + H + F = 1
    BY DEF OwedOnce, OwedTo, Above
  <2>4. i \in answered' <=> i \in answered \/ \E r \in ToSet(s) : i \in r.ids
    BY <1>1, <1>3, <1>6
  <2> HIDE DEF s
  <2>5. (\E r \in ToSet(s) : i \in r.ids) <=> C # 0
    <3>1. C = 0 <=> \A k \in 1 .. Len(s) : s[k] \notin Tells(i)
      BY <2>1, CountZero
    <3>2. DOMAIN s = 1 .. Len(s) /\ \A k \in 1 .. Len(s) : s[k] \in Response
      BY <2>1, LenProperties, ElementOfSeq
    <3>3. ToSet(s) = {s[k] : k \in 1 .. Len(s)}
      BY <3>2 DEF ToSet
    <3>4. QED
      BY <3>1, <3>2, <3>3 DEF Tells
  <2>6. Count(upper'[u].returned, Tells(i)) = 0
    BY <1>2, <1>6, CountEmpty
  <2> HIDE DEF A, B, C, H, F
  <2>7. One(i \in answered') = C + One(i \in answered)
    <3>1. CASE i \in answered
      <4>1. One(i \in answered) = 1 /\ One(i \in answered') = 1
        BY <2>4, <3>1 DEF One
      <4>2. C = 0
        BY <2>1, <2>2, <2>3, <4>1
      <4>3. QED
        BY <4>1, <4>2
    <3>2. CASE i \notin answered
      <4>1. One(i \in answered) = 0
        BY <3>2 DEF One
      <4>2. C \in {0, 1}
        BY <2>1, <2>2, <2>3, <4>1
      <4>3. One(i \in answered') = C
        BY <2>4, <2>5, <3>2, <4>2 DEF One
      <4>4. QED
        BY <4>1, <4>2, <4>3
    <3>3. QED
      BY <3>1, <3>2
  <2> DEFINE E == One(i \in answered)
  <2>8. Above(i, u) = A + B + C + E
    BY DEF Above, A, B, C, s
  <2>9. Above(i, u)' = A + B + 0 + (C + E)
    BY <1>4, <2>6, <2>7 DEF Above, A, B
  <2>10. E \in Nat
    BY DEF One
  <2> HIDE DEF E
  <2>11. QED
    BY <2>1, <2>8, <2>9, <2>10
<1>7. QED
  BY <1>5, <1>6

\* A request already asked stays owed once, whatever step is taken.
LEMMA OwedStays ==
  ASSUME TypeInv, CacheTyped', Addressed, OwedOnce, [CacheNext]_cacheVars,
         NEW i \in 1 .. Len(asked), NEW u \in Upper, asked[i] = u
  PROVE  OwedTo(i, u)' = 1
<1> DEFINE D == Bearing(i, u)
           F == BearingFill(i, u)
           A == Above(i, u)
           H == Held(D)
           G == Filed(F)
           B == Above(i, u)'
           I == Held(D)'
           J == Filed(F)'
<1>1. CacheTyped
  BY DEF TypeInv
<1>2. Blind(D) /\ FillBlind(F)
  BY BearingBlind
<1>3. A \in Nat /\ H \in Nat /\ G \in Nat /\ B \in Nat /\ I \in Nat /\ J \in Nat
  BY <1>1, AboveMany, AboveManyNext, HeldMany, HeldManyNext, FiledMany, FiledManyNext
<1>4. A + H + G = 1
  BY DEF OwedOnce, OwedTo
<1>5. OwedTo(i, u)' = B + I + J
  BY DEF OwedTo
<1>6. \A x : One(x) \in {0, 1}
  BY DEF One
<1> HIDE DEF A, H, G, B, I, J
\* What leaves one of the three parts joins another.
<1>a. ASSUME NEW n \in Nat, \/ B = A + n /\ H = n + I /\ J = G
                            \/ B = A + n /\ I = H /\ G = n + J
                            \/ B = A /\ H = n + I /\ J = G + n
                            \/ A = B + n /\ I = H + n /\ J = G
      PROVE  OwedTo(i, u)' = 1
  BY <1>a, <1>3, <1>4, <1>5
<1>l. LeavesUpper => B = A
  BY UpperLeft DEF A, B, Above
<1>m. \A x \in TagLookup : (i \in x.ids /\ u \in x.to_return) = (x \in D)
  BY DEF Bearing
<1>7. CASE TryHit
  <2>1. /\ todo # << >> /\ todo[1] \in TagLookup /\ Head(todo) = todo[1]
        /\ H = One(todo[1] \in D) + I
    BY <1>7, HeldSettled DEF Settles, H, I
  <2>2. upper' = Responded(upper, todo[1]) /\ UNCHANGED answered
    BY <1>7, <2>1 DEF TryHit
  <2>3. B = A + One(i \in todo[1].ids /\ u \in todo[1].to_return)
    <3>1. todo[1].addr \in Line /\ todo[1].ids \in SUBSET Ids
      BY <2>1 DEF TagLookup
    <3>2. QED
      BY <1>1, <2>2, <3>1, AboveResponded DEF A, B
  <2>4. One(i \in todo[1].ids /\ u \in todo[1].to_return) = One(todo[1] \in D)
    BY <2>1 DEF One, Bearing
  <2>5. J = G
    BY <1>2, <1>7, FiledKept DEF LeavesFills, J, G
  <2> DEFINE n == One(todo[1] \in D)
  <2>6. n \in Nat /\ B = A + n /\ H = n + I
    BY <1>6, <2>1, <2>3, <2>4
  <2> HIDE DEF n
  <2>7. QED
    BY <1>a, <2>5, <2>6
<1>8. ASSUME NEW w \in Way \cup {Bypass}, HandleFill(w)
      PROVE  OwedTo(i, u)' = 1
  <2> DEFINE f == inflight_fills[1]
             n == One(f \in F)
  <2>1. f \in Fill /\ upper' = Responded(upper, f)
    BY <1>1, <1>8, HandleFillMoves
  <2>2. UNCHANGED answered
    BY <1>8 DEF HandleFill
  <2>3. f.addr \in Line /\ f.ids \in SUBSET Ids
    BY <2>1 DEF Fill
  <2>4. G = n + J
    BY <1>8, FiledFilled DEF G, J
  <2> HIDE DEF f
  <2>5. B = A + One(i \in f.ids /\ u \in f.to_return)
    BY <1>1, <2>1, <2>2, <2>3, AboveResponded DEF A, B
  <2>6. One(i \in f.ids /\ u \in f.to_return) = n
    BY <2>1 DEF One, BearingFill
  <2>7. I = H
    BY <1>8, ElsewhereKeeps, HeldKept DEF Elsewhere, I, H
  <2>8. n \in Nat
    BY <1>6
  <2> HIDE DEF n
  <2>9. QED
    BY <1>a, <2>4, <2>5, <2>6, <2>7, <2>8
<1>9. CASE HandleWrite
  <2> DEFINE n == One(todo[1] \in D)
  <2>1. todo[1] \in TagLookup /\ H = n + I
    BY <1>9, HeldSettled DEF Settles, H, I
  <2>2. J = G + One(ToFill(todo[1]) \in F)
    BY <1>9, FiledWritten DEF J, G
  <2>3. One(ToFill(todo[1]) \in F) = n
    <3>1. /\ ToFill(todo[1]) \in Fill /\ ToFill(todo[1]).ids = todo[1].ids
          /\ ToFill(todo[1]).to_return = todo[1].to_return
      BY <2>1, ToFillType DEF ToFill
    <3>2. ToFill(todo[1]) \in F <=> todo[1] \in D
      BY <2>1, <3>1 DEF Bearing, BearingFill
    <3>3. QED
      BY <3>2 DEF One
  <2>4. B = A
    BY <1>9, <1>l DEF LeavesUpper
  <2>5. n \in Nat
    BY <1>6
  <2> HIDE DEF n
  <2>6. QED
    BY <1>a, <2>1, <2>2, <2>3, <2>4, <2>5
<1>10. CASE ForwardMiss
  <2> DEFINE n == One(todo[1] \in D)
  <2>1. todo # << >> /\ todo[1] \in TagLookup /\ H = n + I
    BY <1>10, HeldSettled DEF Settles, H, I
  <2>2. J = G + IF todo[1].skip THEN 0 ELSE One(ToFill(todo[1]) \in F)
    BY <1>10, FiledForwarded DEF J, G
  <2>3. (IF todo[1].skip THEN 0 ELSE One(ToFill(todo[1]) \in F)) = n
    <3>1. /\ ToFill(todo[1]) \in Fill /\ ToFill(todo[1]).ids = todo[1].ids
          /\ ToFill(todo[1]).to_return = todo[1].to_return
      BY <2>1, ToFillType DEF ToFill
    <3>2. ToFill(todo[1]) \in F <=> todo[1] \in D
      BY <2>1, <3>1 DEF Bearing, BearingFill
    <3>3. todo[1].skip => todo[1] \notin D
      BY <2>1, FirstAddressed DEF Bearing
    <3>4. QED
      BY <3>2, <3>3 DEF One
  <2>4. B = A
    BY <1>10, <1>l DEF LeavesUpper
  <2>5. n \in Nat
    BY <1>6
  <2> HIDE DEF n
  <2>6. QED
    BY <1>a, <2>1, <2>2, <2>3, <2>4, <2>5
<1>11. CASE MergeMiss
  <2> DEFINE n == One(todo[1] \in D)
  <2>1. todo # << >> /\ todo[1] \in TagLookup /\ H = n + I
    BY <1>11, HeldSettled DEF Settles, H, I
  <2>2. PICK e, g : MergedWith(todo[1], e, g) /\ J + One(e \in F) = G + One(g \in F)
    BY <1>11, FiledMerged DEF J, G
  <2>3. /\ e \in Fill /\ g \in Fill
        /\ g.ids = e.ids \cup todo[1].ids /\ g.to_return = e.to_return \cup todo[1].to_return
        /\ \/ \E k \in 1 .. Len(MSHR) : MSHR[k] = e
           \/ \E k \in 1 .. Len(inflight_fills) : inflight_fills[k] = e
    BY <2>2 DEF MergedWith
  <2>4. i \in e.ids => u \in e.to_return
    BY <2>3, FillAddressed
  <2>5. i \in todo[1].ids => u \in todo[1].to_return
    BY <2>1, FirstAddressed
  <2>6. g \in F <=> e \in F \/ todo[1] \in D
    BY <2>1, <2>3, <2>4, <2>5 DEF Bearing, BearingFill
  <2>7. e \in F => G >= 1
    <3>1. MSHR \in Seq(Fill) /\ inflight_fills \in Seq(Fill)
      BY <1>1 DEF CacheTyped
    <3>2. ASSUME e \in F
          PROVE  Count(MSHR, F) >= 1 \/ Count(inflight_fills, F) >= 1
      BY <2>3, <3>1, <3>2, CountSome
    <3>3. Count(MSHR, F) \in Nat /\ Count(inflight_fills, F) \in Nat
      BY <1>1, FiledMany
    <3>4. QED
      BY <3>2, <3>3 DEF Filed, G
  <2>8. One(g \in F) = One(e \in F) + n
    <3>1. CASE e \in F
      <4>1. G >= 1
        BY <2>7, <3>1
      <4>2. n \in {0, 1}
        BY <1>6
      <4>3. n = 0
        <5> HIDE DEF n
        <5>1. QED
          BY <1>3, <1>4, <2>1, <4>1, <4>2
      <4>4. One(g \in F) = 1 /\ One(e \in F) = 1
        BY <2>6, <3>1 DEF One
      <4>5. QED
        BY <4>3, <4>4
    <3>2. CASE e \notin F
      <4>1. One(e \in F) = 0 /\ One(g \in F) = n
        BY <2>6, <3>2 DEF One
      <4>2. n \in {0, 1}
        BY <1>6
      <4>3. QED
        BY <4>1, <4>2
    <3>3. QED
      BY <3>1, <3>2
  <2>9. B = A
    BY <1>11, <1>l DEF LeavesUpper
  <2>10. n \in Nat /\ One(e \in F) \in Nat
    BY <1>6
  <2> DEFINE m == One(e \in F)
  <2> HIDE DEF n, m
  <2>11. J + m = G + (m + n)
    BY <2>2, <2>8 DEF m
  <2>12. m \in Nat
    BY <2>10 DEF m
  <2>13. J = G + n
    BY <1>3, <2>10, <2>11, <2>12
  <2>14. QED
    BY <1>a, <2>1, <2>9, <2>10, <2>13
<1>z. ASSUME B = A, I = H, J = G
      PROVE  OwedTo(i, u)' = 1
  BY <1>z, <1>4, <1>5
<1>12. CASE MovesOn
  <2>1. I = H
    BY <1>2, <1>12, HeldMoved DEF I, H
  <2>2. StartCycle \/ LeavesFills
    BY <1>12 DEF MovesOn, LeavesFills
  <2>3. J = G
    BY <1>2, <2>2, FiledKept DEF J, G
  <2>4. B = A
    BY <1>12, <1>l DEF LeavesUpper
  <2>5. QED
    BY <1>z, <2>1, <2>3, <2>4
<1>13. ASSUME NEW k \in 1 .. NumSources, InitiateFromUpper(k)
       PROVE  OwedTo(i, u)' = 1
  <2>1. PICK v, q, n, taken : UpperParts(v, q, n, taken)
    BY <1>1, <1>13, UpperMoves
  <2> DEFINE m == Count(taken, D)
  <2>2. I = H + m /\ m \in Nat
    BY <1>13, <2>1, HeldFromUpper DEF I, H
  <2>3. UNCHANGED answered
    BY <1>13 DEF InitiateFromUpper
  <2>4. A = B + m
    BY <2>1, <2>3, AboveTaken DEF A, B
  <2>5. J = G
    BY <1>2, <1>13, FiledKept DEF LeavesFills, J, G
  <2> HIDE DEF m
  <2>6. QED
    BY <1>a, <2>2, <2>4, <2>5
<1>14. ASSUME NEW a \in Line, NEW fillThisLevel \in BOOLEAN, PrefetchLine(a, fillThisLevel)
       PROVE  OwedTo(i, u)' = 1
  <2>1. PICK x \in OwnPrefetch : Held(D)' = Held(D) + One(x \in D)
    BY <1>14, HeldFromPrefetcher
  <2>2. One(x \in D) = 0
    BY <2>1 DEF OwnPrefetch, Bearing, One
  <2>3. I = H
    BY <1>3, <2>1, <2>2 DEF I, H
  <2>4. B = A
    BY <1>14, <1>l DEF LeavesUpper
  <2>5. J = G
    BY <1>2, <1>14, FiledKept DEF LeavesFills, Environment, J, G
  <2>6. QED
    BY <1>z, <2>3, <2>4, <2>5
<1>15. CASE Elsewhere
  <2>1. I = H
    BY <1>15, ElsewhereKeeps, HeldKept DEF I, H
  <2>2. CASE \E w \in Way \cup {Bypass} : HandleFill(w)
    BY <1>8, <2>2
  <2>3. ASSUME FinishPacket \/ StartFills \/ Environment \/ UNCHANGED cacheVars
        PROVE  J = G
    BY <1>2, <2>3, FiledKept DEF LeavesFills, J, G
  <2>4. CASE \/ FinishPacket \/ StartFills
             \/ \E a \in Line : LowerAnswer(a)
             \/ \E q \in RequestQueues : LowerTake(q)
             \/ TranslateTake
             \/ \E page \in Pages : TranslateAnswer(page)
             \/ UNCHANGED cacheVars
    <3>1. LeavesUpper /\ (FinishPacket \/ StartFills \/ Environment \/ UNCHANGED cacheVars)
      BY <2>4 DEF LeavesUpper, Environment
    <3>2. QED
      BY <1>l, <1>z, <2>1, <2>3, <3>1
  <2>5. ASSUME NEW v \in Upper, Receive(v)
        PROVE  OwedTo(i, u)' = 1
    <3>1. B = A
      BY <2>5, AboveReceived DEF A, B
    <3>2. Environment
      BY <2>5 DEF Environment
    <3>3. QED
      BY <1>z, <2>1, <2>3, <3>1, <3>2
  <2>6. ASSUME NEW v \in Upper, NEW q \in RequestQueues, NEW type \in Types, NEW a \in Line,
               Ask(v, q, type, a) \/ Send(v, q, type, a)
        PROVE  OwedTo(i, u)' = 1
    <3>1. Environment
      BY <2>6 DEF Environment
    <3>2. UNCHANGED answered
      BY <2>6 DEF Ask, Send
    <3>3. \E x : Queued(v, q, x) /\ i \notin x.ids
      <4>1. Len(asked) \in Nat
        BY <1>1, LenProperties DEF CacheTyped
      <4>2. i # Len(asked) + 1
        BY <4>1
      <4>3. QED
        BY <1>1, <2>6, <4>2, AskMoves, SendMoves
    <3>4. B = A
      BY <1>1, <3>2, <3>3, AboveQueued DEF A, B
    <3>5. QED
      BY <1>z, <2>1, <2>3, <3>1, <3>4
  <2>7. QED
    BY <1>15, <2>2, <2>4, <2>5, <2>6 DEF Elsewhere
<1>16. QED
  BY <1>7, <1>8, <1>9, <1>10, <1>11, <1>12, <1>13, <1>14, <1>15, StepKinds DEF Settles

\* A new request is in the queue it was put in and nowhere else.
LEMMA OwedStarts ==
  ASSUME TypeInv, CacheTyped', Addressed, NEW v \in Upper, NEW q \in RequestQueues,
         NEW type \in Types, NEW a \in Line, Ask(v, q, type, a), NEW i, i = Len(asked) + 1
  PROVE  OwedTo(i, v)' = 1 /\ asked'[i] = v /\ Len(asked') = i
<1> DEFINE D == Bearing(i, v)
           F == BearingFill(i, v)
<1>1. CacheTyped /\ asked \in Seq(Upper) /\ Len(asked) \in Nat
  BY LenProperties DEF TypeInv, CacheTyped
<1>2. i \notin 1 .. Len(asked)
  BY <1>1
<1>3. asked' = Append(asked, v) /\ UNCHANGED answered
  BY DEF Ask
<1>4. asked'[i] = v /\ Len(asked') = i
  BY <1>1, <1>3, AppendProperties
<1>5. Elsewhere /\ LeavesFills
  BY DEF Elsewhere, LeavesFills, Environment
<1>6. Held(D)' = 0
  <2>1. PICK A : A = Astray(asked)
    OBVIOUS
  <2>2. Held(A) = 0
    BY <2>1 DEF Addressed
  <2>3. Held(A)' = 0
    BY <1>5, <2>2, ElsewhereKeeps, HeldKept
  <2>4. \A x : x \in D => x \in A
    BY <1>2, <2>1 DEF Bearing, Astray
  <2>5. QED
    BY <2>3, <2>4, HeldFewer
<1>7. Filed(F)' = 0
  <2>1. PICK A : A = Misfiled(asked)
    OBVIOUS
  <2>2. Filed(A) = 0
    BY <2>1 DEF Addressed
  <2>3. Filed(A)' = 0
    BY <1>5, <2>2, FillsLeft DEF Filed
  <2>4. \A x : x \in F => x \in A
    BY <1>2, <2>1 DEF BearingFill, Misfiled
  <2>5. QED
    BY <2>3, <2>4, FiledFewer
<1>8. One(i \in answered') = 0
  BY <1>2, <1>3 DEF Addressed, One
<1>9. PICK x : Queued(v, q, x) /\ q # "WQ" /\ x.ids = {i}
  BY <1>1, AskMoves
<1>10. /\ x \in Request /\ q \in {"RQ", "PQ"}
       /\ \A p \in RequestQueues :
             upper'[v][p] = IF p = q THEN Append(upper[v][q], x) ELSE upper[v][p]
       /\ upper'[v].returned = upper[v].returned
  BY <1>9 DEF Queued, RequestQueues
<1>11. ASSUME NEW p \in {"RQ", "PQ"}
       PROVE  /\ Count(upper[v][p], Asks(i)) = 0
              /\ Count(upper'[v][p], Asks(i)) = One(p = q)
  <2>1. upper[v][p] \in Seq(Request) /\ p \in RequestQueues
    BY <1>1, <1>11, AboveMany DEF RequestQueues
  <2>2. \A j \in 1 .. Len(upper[v][p]) : upper[v][p][j] \in RequestsOf(asked, v, p)
    BY <2>1 DEF Addressed, Every
  <2>3. \A j \in 1 .. Len(upper[v][p]) : upper[v][p][j] \notin Asks(i)
    BY <1>2, <2>2 DEF RequestsOf, Asks
  <2>4. Count(upper[v][p], Asks(i)) = 0
    BY <2>1, <2>3, CountZero
  <2>5. CASE p = q
    <3>1. Count(Append(upper[v][p], x), Asks(i)) = Count(upper[v][p], Asks(i)) + One(x \in Asks(i))
      BY <1>10, <2>1, CountAppend
    <3>2. One(x \in Asks(i)) = 1 /\ One(p = q) = 1
      BY <1>9, <1>10, <2>5 DEF Asks, One
    <3>3. upper'[v][p] = Append(upper[v][p], x)
      BY <1>10, <2>1, <2>5
    <3>4. QED
      BY <2>4, <3>1, <3>2, <3>3
  <2>6. CASE p # q
    BY <1>10, <2>1, <2>4, <2>6 DEF One
  <2>7. QED
    BY <2>4, <2>5, <2>6
<1>12. Count(upper'[v].returned, Tells(i)) = 0
  <2>1. upper[v].returned \in Seq(Response)
    BY <1>1, AboveMany
  <2>2. \A j \in 1 .. Len(upper[v].returned) : upper[v].returned[j] \in ResponsesOf(asked)
    BY DEF Addressed, Every
  <2>3. \A j \in 1 .. Len(upper[v].returned) : upper[v].returned[j] \notin Tells(i)
    BY <1>2, <2>2 DEF ResponsesOf, Tells
  <2>4. Count(upper[v].returned, Tells(i)) = 0
    BY <2>1, <2>3, CountZero
  <2>5. QED
    BY <1>10, <2>4
<1>13. Above(i, v)' = 1
  <2>1. Above(i, v)' = Count(upper'[v]["RQ"], Asks(i)) + Count(upper'[v]["PQ"], Asks(i))
                          + Count(upper'[v].returned, Tells(i)) + One(i \in answered')
    BY DEF Above
  <2>2. CASE q = "RQ"
    BY <1>8, <1>11, <1>12, <2>1, <2>2 DEF One
  <2>3. CASE q = "PQ"
    BY <1>8, <1>11, <1>12, <2>1, <2>3 DEF One
  <2>4. QED
    BY <1>10, <2>2, <2>3
<1>14. OwedTo(i, v)' = Above(i, v)' + Held(D)' + Filed(F)'
  BY DEF OwedTo
<1>15. QED
  BY <1>4, <1>6, <1>7, <1>13, <1>14

\* Only a request changes who asked.
LEMMA AskingOnly ==
  ASSUME [CacheNext]_cacheVars, asked' # asked
  PROVE  \E v \in Upper : \E q \in RequestQueues, type \in Types, a \in Line : Ask(v, q, type, a)
<1>1. LeavesUpper => UNCHANGED asked
  BY UpperLeft
<1>2. /\ TryHit => UNCHANGED asked
      /\ (\E w \in Way \cup {Bypass} : HandleFill(w)) => UNCHANGED asked
      /\ (\E k \in 1 .. NumSources : InitiateFromUpper(k)) => UNCHANGED asked
      /\ (\E u \in Upper : Receive(u)) => UNCHANGED asked
      /\ \A u, q, type, a : Send(u, q, type, a) => UNCHANGED asked
  BY DEF TryHit, HandleFill, InitiateFromUpper, Receive, Send
<1>3. QED
  BY <1>1, <1>2, UpperKinds

\* Every step keeps every request owed once.
LEMMA OwedStep ==
  ASSUME TypeInv, CacheTyped', Addressed, OwedOnce, [CacheNext]_cacheVars
  PROVE  OwedOnce'
<1>1. CacheTyped /\ asked \in Seq(Upper) /\ Len(asked) \in Nat
  BY LenProperties DEF TypeInv, CacheTyped
<1>2. SUFFICES ASSUME NEW i \in 1 .. Len(asked')
               PROVE  OwedTo(i, asked[i])' = 1
  BY DEF OwedOnce, OwedTo, Above, Held, Filed
<1>3. PICK u : u = asked'[i]
  OBVIOUS
<1>4. OwedTo(i, u)' = 1
  <2>1. CASE i \in 1 .. Len(asked)
    <3>1. asked[i] = u /\ u \in Upper
      BY <1>1, <1>3, <2>1, AskedGrows, ElementOfSeq
    <3>2. QED
      BY <2>1, <3>1, OwedStays
  <2>2. CASE i \notin 1 .. Len(asked)
    <3>1. asked' # asked
      BY <2>2
    <3>2. \E v \in Upper : \E q \in RequestQueues, type \in Types, a \in Line : Ask(v, q, type, a)
      BY <3>1, AskingOnly
    <3>p. PICK v \in Upper, q \in RequestQueues, type \in Types, a \in Line : Ask(v, q, type, a)
      BY <3>2
    <3>3. asked' = Append(asked, v)
      BY <3>p DEF Ask
    <3>4. Len(asked') = Len(asked) + 1
      BY <1>1, <3>3, AppendProperties
    <3>5. i = Len(asked) + 1
      BY <1>1, <2>2, <3>4
    <3>6. OwedTo(i, v)' = 1 /\ asked'[i] = v
      BY <3>p, <3>5, OwedStarts
    <3>7. QED
      BY <1>3, <3>6
  <2>3. QED
    BY <2>1, <2>2
<1>5. QED
  BY <1>3, <1>4 DEF OwedTo, Above, Held, Filed

\* What the invariant says in the words of the property.
LEMMA OwedImplies == TypeInv /\ Addressed /\ OwedOnce => EveryRequestOwedOnce
<1> SUFFICES ASSUME TypeInv, Addressed, OwedOnce, NEW i \in DOMAIN asked
             PROVE  Carrying(upper[asked[i]].RQ, i) + Carrying(upper[asked[i]].PQ, i)
                    + Holding(Lookups, i) + Holding(MSHR, i) + Holding(inflight_fills, i)
                    + Carrying(upper[asked[i]].returned, i)
                    + (IF i \in answered THEN 1 ELSE 0) = 1
  BY DEF EveryRequestOwedOnce
<1>1. /\ CacheTyped /\ MSHR \in Seq(Fill) /\ inflight_fills \in Seq(Fill)
      /\ internal_PQ \in Seq(TagLookup)
  BY DEF TypeInv, CacheTyped
<1>2. asked \in Seq(Upper) /\ i \in 1 .. Len(asked) /\ asked[i] \in Upper
  <2>1. asked \in Seq(Upper)
    BY <1>1 DEF CacheTyped
  <2>2. QED
    BY <2>1, LenProperties, ElementOfSeq
<1> DEFINE u == asked[i]
           D == Bearing(i, u)
           F == BearingFill(i, u)
           c == upper[u]
<1>3. /\ c.RQ \in Seq(Request) /\ c.PQ \in Seq(Request) /\ c.returned \in Seq(Response)
      /\ c.RQ = c["RQ"] /\ c.PQ = c["PQ"]
  BY <1>1, <1>2, AboveMany
<1>4. OwedTo(i, u) = 1
  BY <1>2 DEF OwedOnce
<1>5. ASSUME NEW s \in Seq(TagLookup)
      PROVE  Holding(s, i) = Count(s, D)
  <2>1. DOMAIN s = 1 .. Len(s) /\ \A j \in 1 .. Len(s) : s[j] \in TagLookup
    BY LenProperties, ElementOfSeq
  <2>2. {j \in DOMAIN s : i \in s[j].ids /\ asked[i] \in s[j].to_return} = Places(s, D)
    BY <2>1 DEF Places, Bearing
  <2>3. QED
    BY <2>2 DEF Holding, Count
<1>6. ASSUME NEW s \in Seq(Fill)
      PROVE  Holding(s, i) = Count(s, F)
  <2>1. DOMAIN s = 1 .. Len(s) /\ \A j \in 1 .. Len(s) : s[j] \in Fill
    BY LenProperties, ElementOfSeq
  <2>2. {j \in DOMAIN s : i \in s[j].ids /\ asked[i] \in s[j].to_return} = Places(s, F)
    BY <2>1 DEF Places, BearingFill
  <2>3. QED
    BY <2>2 DEF Holding, Count
<1>7. ASSUME NEW s \in Seq(Request)
      PROVE  Carrying(s, i) = Count(s, Asks(i))
  <2>1. DOMAIN s = 1 .. Len(s) /\ \A j \in 1 .. Len(s) : s[j] \in Request
    BY LenProperties, ElementOfSeq
  <2>2. {j \in DOMAIN s : i \in s[j].ids} = Places(s, Asks(i))
    BY <2>1 DEF Places, Asks
  <2>3. QED
    BY <2>2 DEF Carrying, Count
<1>8. ASSUME NEW s \in Seq(Response)
      PROVE  Carrying(s, i) = Count(s, Tells(i))
  <2>1. DOMAIN s = 1 .. Len(s) /\ \A j \in 1 .. Len(s) : s[j] \in Response
    BY LenProperties, ElementOfSeq
  <2>2. {j \in DOMAIN s : i \in s[j].ids} = Places(s, Tells(i))
    BY <2>1 DEF Places, Tells
  <2>3. QED
    BY <2>2 DEF Carrying, Count
<1> HIDE DEF u, D, F, c
<1>9. Count(internal_PQ, D) = 0
  <2>1. \A j \in 1 .. Len(internal_PQ) : internal_PQ[j] \notin D
    BY DEF Addressed, Every, OwnPrefetch, D, Bearing
  <2>2. QED
    BY <1>1, <2>1, CountZero
<1> DEFINE H == Holding(Lookups, i)
           M == Holding(MSHR, i)
           N == Holding(inflight_fills, i)
           R == Carrying(c.RQ, i)
           P == Carrying(c.PQ, i)
           T == Carrying(c.returned, i)
           E == One(i \in answered)
<1>10. H = Held(D)
  <2>1. Lookups \in Seq(TagLookup) /\
        Count(Lookups, D) = Count(inflight_tag_check, D) + Count(todo, D)
                            + Count(kept, D) + Count(translation_stash, D)
    BY <1>1, LookupsMany
  <2>2. Holding(Lookups, i) = Count(Lookups, D)
    BY <1>5, <2>1
  <2>3. /\ Count(inflight_tag_check, D) \in Nat /\ Count(todo, D) \in Nat
        /\ Count(kept, D) \in Nat /\ Count(translation_stash, D) \in Nat
    BY <1>1, HeldMany
  <2>4. QED
    BY <1>9, <2>1, <2>2, <2>3 DEF Held
<1>11. M + N = Filed(F) /\ M \in Nat /\ N \in Nat
  BY <1>1, <1>6, FiledMany DEF Filed
<1>12. R + P + T + E = Above(i, u) /\ R \in Nat /\ P \in Nat /\ T \in Nat /\ E \in {0, 1}
  <2>1. R = Count(upper[u]["RQ"], Asks(i)) /\ P = Count(upper[u]["PQ"], Asks(i))
        /\ T = Count(upper[u].returned, Tells(i))
    BY <1>3, <1>7, <1>8 DEF c
  <2>2. u \in Upper
    BY <1>2 DEF u
  <2>3. R \in Nat /\ P \in Nat /\ T \in Nat /\ E \in {0, 1}
    BY <1>1, <2>1, <2>2, AboveMany
  <2>4. QED
    BY <2>1, <2>3 DEF Above
<1>13. Held(D) \in Nat
  BY <1>1, HeldMany
<1>14. Above(i, u) + Held(D) + Filed(F) = 1
  BY <1>4 DEF OwedTo, D, F
<1>15. (IF i \in answered THEN 1 ELSE 0) = E
  BY DEF One
<1> HIDE DEF H, M, N, R, P, T, E
<1>16. R + P + H + M + N + T + E = 1
  BY <1>10, <1>11, <1>12, <1>13, <1>14
<1>17. QED
  BY <1>15, <1>16 DEF H, M, N, R, P, T, c, u

\* A request that wants an answer is, until it is answered, in exactly one place,
\* and that place knows whom to answer: no path through the queues, the lookups,
\* the stash, the MSHRs, their merges and the fills loses it or answers it twice.
THEOREM RequestsAreOwedOnce == CacheSpec => []EveryRequestOwedOnce
<1>1. CacheInit => TypeInv /\ Addressed /\ OwedOnce
  BY TypeInvInitially, AddressedInitially, OwedOnceInitially
<1>2. TypeInv /\ Addressed /\ OwedOnce /\ [CacheNext]_cacheVars
         => TypeInv' /\ Addressed' /\ OwedOnce'
  BY TypedStep, SizedStep, TypeInvStutters, AddressedStep, OwedStep DEF TypeInv
<1>3. TypeInv /\ Addressed /\ OwedOnce => EveryRequestOwedOnce
  BY OwedImplies
<1>4. QED
  BY <1>1, <1>2, <1>3, PTL DEF CacheSpec
=============================================================================

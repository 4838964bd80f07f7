---------------------------- MODULE ModuleProofs ----------------------------
(***************************************************************************)
(* Proofs about the parts that CACHE and the core call: the sets of        *)
(* lru_table, the policies that keep times of use and re-reference values, *)
(* ip_stride, the trace reader and the CVP converter.                      *)
(***************************************************************************)
EXTENDS Modules, SequenceCounts

-----------------------------------------------------------------------------
(* The blocks of lru_table are the list of LRUTable. *)

BlockData == [tag : Tag \cup {DefaultTag}, value : Value \cup {DefaultValue}]

\* A list of the ways in V, by the time of their last use, and what they hold.
Lists(ways, s, V) ==
    /\ ways \in Seq(TableWays) /\ s \in Seq(BlockData) /\ Len(ways) = Len(s)
    /\ \A i \in 1 .. Len(ways) : ways[i] \in V /\ s[i] = blocks[ways[i]].data
    /\ \A w \in V : \E i \in 1 .. Len(ways) : ways[i] = w
    /\ \A i, j \in 1 .. Len(ways) :
          i < j => blocks[ways[i]].last_used < blocks[ways[j]].last_used

BlocksInv ==
    /\ access_count \in Nat
    /\ blocks \in [TableWays -> [last_used : Nat, data : BlockData]]
    /\ \A w \in TableWays : blocks[w].last_used <= access_count
    /\ OncePerTag(entries)
    /\ \E ways : Lists(ways, entries, Valid)

\* Numbers listed without repetition are as many as their places.
LEMMA ListedOnce ==
  ASSUME NEW n \in Nat, NEW T, NEW f \in [1 .. n -> T],
         \A t \in T : \E i \in 1 .. n : f[i] = t,
         \A i, j \in 1 .. n : i < j => f[i] # f[j]
  PROVE  IsFiniteSet(T) /\ Cardinality(T) = n
<1>1. \A i, j \in 1 .. n : f[i] = f[j] => i = j
  <2> SUFFICES ASSUME NEW i \in 1 .. n, NEW j \in 1 .. n, f[i] = f[j], i # j PROVE FALSE
    OBVIOUS
  <2>1. i < j \/ j < i
    OBVIOUS
  <2>2. QED
    BY <2>1
<1>2. f \in Bijection(1 .. n, T)
  BY <1>1 DEF Bijection, Injection, Surjection, IsInjective
<1>3. ExistsBijection(1 .. n, T)
  BY <1>2 DEF ExistsBijection
<1>4. QED
  BY <1>3, FirstNumbers, FS_Bijection

LEMMA ListFacts ==
  ASSUME BlocksInv, NEW ways, NEW s, NEW V \in SUBSET TableWays, Lists(ways, s, V)
  PROVE  /\ Len(ways) \in Nat /\ Len(s) = Len(ways)
         /\ \A i \in 1 .. Len(ways) : ways[i] \in TableWays /\ blocks[ways[i]].last_used \in Nat
         /\ \A i, j \in 1 .. Len(ways) : ways[i] = ways[j] => i = j
         /\ IsFiniteSet(V) /\ Cardinality(V) = Len(ways)
<1> DEFINE n == Len(ways)
           f == [i \in 1 .. n |-> ways[i]]
<1>1. n \in Nat /\ Len(s) = n
  BY LenProperties DEF Lists
<1>2. \A i \in 1 .. n : ways[i] \in TableWays /\ ways[i] \in V /\ blocks[ways[i]].last_used \in Nat
  BY DEF Lists, BlocksInv
<1>3. \A i, j \in 1 .. n : i < j => ways[i] # ways[j]
  BY <1>2 DEF Lists
<1>4. \A i, j \in 1 .. n : ways[i] = ways[j] => i = j
  <2> SUFFICES ASSUME NEW i \in 1 .. n, NEW j \in 1 .. n, ways[i] = ways[j], i # j PROVE FALSE
    OBVIOUS
  <2>1. i < j \/ j < i
    BY <1>1
  <2>2. QED
    BY <1>3, <2>1
<1>5. /\ f \in [1 .. n -> V]
      /\ \A w \in V : \E i \in 1 .. n : f[i] = w
      /\ \A i, j \in 1 .. n : i < j => f[i] # f[j]
  BY <1>2, <1>3 DEF Lists
<1>6. IsFiniteSet(V) /\ Cardinality(V) = n
  <2> HIDE DEF f, n
  <2>1. QED
    BY <1>1, <1>5, ListedOnce
<1>7. QED
  BY <1>1, <1>2, <1>4, <1>6

\* A list without one of its ways.
LEMMA ListsWithout ==
  ASSUME BlocksInv, NEW ways, NEW s, NEW V \in SUBSET TableWays, Lists(ways, s, V),
         NEW k \in 1 .. Len(s)
  PROVE  Lists(RemoveAt(ways, k), RemoveAt(s, k), V \ {ways[k]})
<1> DEFINE n == Len(ways)
           o == RemoveAt(ways, k)
           r == RemoveAt(s, k)
           At(i) == IF i < k THEN i ELSE i + 1
           W == V \ {ways[k]}
<1>1. /\ n \in Nat /\ Len(s) = n /\ k \in 1 .. n /\ k \in Nat
      /\ ways \in Seq(TableWays) /\ s \in Seq(BlockData)
      /\ \A i, j \in 1 .. n : ways[i] = ways[j] => i = j
  <2>1. /\ n \in Nat /\ Len(s) = n
        /\ \A i, j \in 1 .. n : ways[i] = ways[j] => i = j
    BY ListFacts
  <2>2. k \in 1 .. n
    BY <2>1
  <2> HIDE DEF n
  <2>3. ways \in Seq(TableWays) /\ s \in Seq(BlockData) /\ k \in Nat
    BY <2>1, <2>2 DEF Lists
  <2>4. QED
    BY <2>1, <2>2, <2>3
<1>2. /\ o \in Seq(TableWays) /\ Len(o) = n - 1
      /\ \A i \in 1 .. n - 1 : o[i] = IF i < k THEN ways[i] ELSE ways[i + 1]
  BY <1>1, Removed
<1>3. /\ r \in Seq(BlockData) /\ Len(r) = n - 1
      /\ \A i \in 1 .. n - 1 : r[i] = IF i < k THEN s[i] ELSE s[i + 1]
  BY <1>1, Removed
<1> HIDE DEF o, r, n
<1>4. \A i \in 1 .. n - 1 : /\ At(i) \in 1 .. n /\ At(i) # k
                            /\ o[i] = ways[At(i)] /\ r[i] = s[At(i)]
  BY <1>1, <1>2, <1>3
<1>5. \A i, j \in 1 .. n - 1 : i < j => At(i) < At(j)
  BY <1>1
<1>6. \A j \in 1 .. n : j # k => \E i \in 1 .. n - 1 : At(i) = j
  <2> SUFFICES ASSUME NEW j \in 1 .. n, j # k PROVE \E i \in 1 .. n - 1 : At(i) = j
    OBVIOUS
  <2>1. CASE j < k
    <3>1. j \in 1 .. n - 1 /\ At(j) = j
      BY <1>1, <2>1
    <3>2. QED
      BY <3>1
  <2>2. CASE ~(j < k)
    <3>1. j - 1 \in 1 .. n - 1 /\ At(j - 1) = j
      BY <1>1, <2>2
    <3>2. QED
      BY <3>1
  <2>3. QED
    BY <2>1, <2>2
<1> HIDE DEF At
<1>7. \A i \in 1 .. n - 1 : o[i] \in W /\ r[i] = blocks[o[i]].data
  <2> SUFFICES ASSUME NEW i \in 1 .. n - 1 PROVE o[i] \in W /\ r[i] = blocks[o[i]].data
    OBVIOUS
  <2>1. ways[At(i)] \in V /\ s[At(i)] = blocks[ways[At(i)]].data
    BY <1>4 DEF Lists, n
  <2>2. ways[At(i)] # ways[k]
    BY <1>1, <1>4
  <2>3. QED
    BY <1>4, <2>1, <2>2
<1>8. \A w \in W : \E i \in 1 .. n - 1 : o[i] = w
  <2> SUFFICES ASSUME NEW w \in W PROVE \E i \in 1 .. n - 1 : o[i] = w
    OBVIOUS
  <2>1. PICK j \in 1 .. n : ways[j] = w
    BY DEF Lists, n
  <2>2. PICK i \in 1 .. n - 1 : At(i) = j
    BY <1>6, <2>1
  <2>3. QED
    BY <1>4, <2>1, <2>2
<1>9. \A i, j \in 1 .. n - 1 : i < j => blocks[o[i]].last_used < blocks[o[j]].last_used
  <2> SUFFICES ASSUME NEW i \in 1 .. n - 1, NEW j \in 1 .. n - 1, i < j
               PROVE  blocks[o[i]].last_used < blocks[o[j]].last_used
    OBVIOUS
  <2>1. At(i) \in 1 .. n /\ At(j) \in 1 .. n /\ At(i) < At(j)
    BY <1>4, <1>5
  <2>2. blocks[ways[At(i)]].last_used < blocks[ways[At(j)]].last_used
    BY <2>1 DEF Lists, n
  <2>3. QED
    BY <1>4, <2>2
<1> HIDE DEF W
<1>10. Lists(o, r, W)
  BY <1>2, <1>3, <1>7, <1>8, <1>9 DEF Lists
<1>11. QED
  BY <1>10 DEF o, r, W

\* A way that is used is the last of the list.
LEMMA ListsUsed ==
  ASSUME BlocksInv, NEW ways, NEW s, NEW w \in TableWays, Lists(ways, s, Valid \ {w}),
         NEW d \in BlockData, Used(w, d), entries' = Append(s, d), OncePerTag(entries')
  PROVE  BlocksInv'
<1> DEFINE n == Len(ways)
           V == Valid \ {w}
           o == Append(ways, w)
           r == Append(s, d)
<1>1. /\ access_count' = access_count + 1
      /\ blocks' = [blocks EXCEPT ![w] = [last_used |-> access_count + 1, data |-> d]]
  BY DEF Used
<1>2. /\ access_count \in Nat /\ blocks \in [TableWays -> [last_used : Nat, data : BlockData]]
      /\ \A x \in TableWays : blocks[x].last_used <= access_count /\ blocks[x].last_used \in Nat
  BY DEF BlocksInv
<1>3. V \in SUBSET TableWays
  BY DEF Valid
<1> HIDE DEF V
<1>4. /\ n \in Nat /\ Len(s) = n /\ ways \in Seq(TableWays) /\ s \in Seq(BlockData)
      /\ \A i \in 1 .. n : ways[i] \in TableWays /\ ways[i] \in V /\ ways[i] # w
                           /\ s[i] = blocks[ways[i]].data
  <2>1. Lists(ways, s, V)
    BY DEF V
  <2>2. \A x \in V : x # w
    BY DEF V
  <2>3. QED
    BY <1>3, <2>1, <2>2, ListFacts DEF Lists
<1>5. /\ access_count' \in Nat /\ blocks' \in [TableWays -> [last_used : Nat, data : BlockData]]
      /\ blocks'[w].last_used = access_count + 1 /\ blocks'[w].data = d
      /\ \A x \in TableWays : x # w => blocks'[x] = blocks[x]
  BY <1>1, <1>2
<1>6. Valid' = V \cup {w}
  <2>1. \A x \in TableWays : x # w => (blocks'[x].last_used > 0 <=> blocks[x].last_used > 0)
    BY <1>5
  <2>2. blocks'[w].last_used > 0
    BY <1>2, <1>5
  <2>3. QED
    BY <2>1, <2>2 DEF Valid, V
<1>7. \A x \in TableWays : blocks'[x].last_used <= access_count'
  <2> SUFFICES ASSUME NEW x \in TableWays PROVE blocks'[x].last_used <= access_count'
    OBVIOUS
  <2>1. CASE x = w
    BY <1>1, <1>2, <1>5, <2>1
  <2>2. CASE x # w
    BY <1>1, <1>2, <1>5, <2>2
  <2>3. QED
    BY <2>1, <2>2
<1>8. /\ o \in Seq(TableWays) /\ Len(o) = n + 1 /\ o[n + 1] = w
      /\ \A i \in 1 .. n : o[i] = ways[i]
  BY <1>4, AppendProperties
<1>9. /\ r \in Seq(BlockData) /\ Len(r) = n + 1 /\ r[n + 1] = d
      /\ \A i \in 1 .. n : r[i] = s[i]
  BY <1>4, AppendProperties
<1> HIDE DEF o, r, n
<1>10. \A i \in 1 .. n + 1 : i \in 1 .. n \/ i = n + 1
  BY <1>4
<1>11. n + 1 \in 1 .. n + 1 /\ \A i \in 1 .. n : i \in 1 .. n + 1
  BY <1>4
<1>12. ASSUME NEW i \in 1 .. n + 1
       PROVE  o[i] \in Valid' /\ r[i] = blocks'[o[i]].data
  <2>1. CASE i \in 1 .. n
    <3>1. o[i] = ways[i] /\ r[i] = s[i] /\ ways[i] \in V /\ ways[i] \in TableWays /\ ways[i] # w
          /\ s[i] = blocks[ways[i]].data
      BY <1>4, <1>8, <1>9, <2>1
    <3>2. blocks'[ways[i]] = blocks[ways[i]]
      BY <1>5, <3>1
    <3>3. QED
      BY <1>6, <3>1, <3>2
  <2>2. CASE i = n + 1
    BY <1>5, <1>6, <1>8, <1>9, <2>2
  <2>3. QED
    BY <1>10, <2>1, <2>2
<1>13. ASSUME NEW x \in Valid'
       PROVE  \E i \in 1 .. n + 1 : o[i] = x
  <2>1. CASE x = w
    BY <1>8, <1>11, <2>1
  <2>2. CASE x # w
    <3>1. PICK i \in 1 .. n : ways[i] = x
      BY <1>6, <2>2 DEF Lists, n, V
    <3>2. QED
      BY <1>8, <1>11, <3>1
  <2>3. QED
    BY <2>1, <2>2
<1>14. ASSUME NEW i \in 1 .. n + 1, NEW j \in 1 .. n + 1, i < j
       PROVE  blocks'[o[i]].last_used < blocks'[o[j]].last_used
  <2>1. i \in 1 .. n
    BY <1>4, <1>14
  <2>2. blocks'[o[i]] = blocks[ways[i]] /\ ways[i] \in TableWays
    BY <1>4, <1>5, <1>8, <2>1
  <2>3. CASE j \in 1 .. n
    <3>1. blocks'[o[j]] = blocks[ways[j]]
      BY <1>4, <1>5, <1>8, <2>3
    <3>2. blocks[ways[i]].last_used < blocks[ways[j]].last_used
      BY <1>14, <2>1, <2>3 DEF Lists, n
    <3>3. QED
      BY <2>2, <3>1, <3>2
  <2>4. CASE j = n + 1
    <3>1. blocks'[o[j]].last_used = access_count + 1
      BY <1>5, <1>8, <2>4
    <3> DEFINE t == blocks[ways[i]].last_used
    <3>2. t <= access_count /\ t \in Nat
      BY <1>2, <2>2
    <3> HIDE DEF t
    <3>3. t < access_count + 1
      BY <1>2, <3>2
    <3>4. QED
      BY <2>2, <3>1, <3>3 DEF t
  <2>5. QED
    BY <1>10, <2>3, <2>4
<1>15. entries' = r
  BY DEF r
<1>16. Lists(o, r, Valid)'
  <2>1. /\ o \in Seq(TableWays) /\ r \in Seq(BlockData) /\ Len(o) = Len(r) /\ Len(o) = n + 1
    BY <1>8, <1>9
  <2>2. o' = o /\ r' = r
    OBVIOUS
  <2>3. QED
    BY <2>1, <1>12, <1>13, <1>14 DEF Lists
<1>17. QED
  BY <1>5, <1>7, <1>15, <1>16 DEF BlocksInv

\* The block of a tag is the one listed at the place of the tag.
LEMMA MatchingListed ==
  ASSUME BlocksInv, NEW ways, Lists(ways, entries, Valid), NEW tag
  PROVE  /\ tag \notin Tags(entries) => MatchingBlocks(tag) = {}
         /\ tag \in Tags(entries) =>
              LET k == PlaceOf(entries, tag)
              IN  /\ k \in 1 .. Len(entries) /\ ways[k] \in TableWays
                  /\ MatchingBlocks(tag) = {ways[k]}
                  /\ blocks[ways[k]].data = entries[k]
<1> DEFINE n == Len(ways)
           k == PlaceOf(entries, tag)
<1>1. /\ n \in Nat /\ Len(entries) = n /\ entries \in Seq(BlockData) /\ Valid \in SUBSET TableWays
      /\ DOMAIN entries = 1 .. n /\ OncePerTag(entries)
      /\ \A i \in 1 .. n : ways[i] \in TableWays /\ ways[i] \in Valid /\ entries[i] = blocks[ways[i]].data
      /\ \A w \in Valid : \E i \in 1 .. n : ways[i] = w
  <2>1. Valid \in SUBSET TableWays
    BY DEF Valid
  <2>2. n \in Nat /\ Len(entries) = n /\ \A i \in 1 .. n : ways[i] \in TableWays
    BY <2>1, ListFacts
  <2>3. entries \in Seq(BlockData) /\ OncePerTag(entries)
    BY DEF Lists, BlocksInv
  <2>4. DOMAIN entries = 1 .. n
    BY <2>2, <2>3, LenProperties
  <2>5. QED
    BY <2>1, <2>2, <2>3, <2>4 DEF Lists
<1> HIDE DEF n
<1>2. \A w \in MatchingBlocks(tag) : \E i \in 1 .. n : ways[i] = w /\ entries[i].tag = tag
  BY <1>1 DEF MatchingBlocks
<1>3. tag \notin Tags(entries) => MatchingBlocks(tag) = {}
  BY <1>1, <1>2 DEF Tags
<1>4. ASSUME tag \in Tags(entries)
      PROVE  /\ k \in 1 .. n /\ MatchingBlocks(tag) = {ways[k]}
  <2>1. k \in 1 .. n /\ entries[k].tag = tag
    BY <1>1, <1>4, PlaceOfTag
  <2> HIDE DEF k
  <2>2. ways[k] \in MatchingBlocks(tag)
    BY <1>1, <2>1 DEF MatchingBlocks
  <2>3. \A w \in MatchingBlocks(tag) : w = ways[k]
    <3> SUFFICES ASSUME NEW w \in MatchingBlocks(tag) PROVE w = ways[k]
      OBVIOUS
    <3>1. PICK i \in 1 .. n : ways[i] = w /\ entries[i].tag = tag
      BY <1>2
    <3>2. i = k
      BY <1>1, <2>1, <3>1 DEF OncePerTag
    <3>3. QED
      BY <3>1, <3>2
  <2>4. QED
    BY <2>1, <2>2, <2>3
<1>5. QED
  BY <1>1, <1>3, <1>4 DEF n

LEMMA BlocksCheckHit ==
  ASSUME BlocksInv, NEW tag, CheckHit(tag)
  PROVE  BlocksInv'
<1>1. PICK ways : Lists(ways, entries, Valid)
  BY DEF BlocksInv
<1>2. entries' = check_hit(entries, tag) /\ entries \in Seq(BlockData) /\ OncePerTag(entries)
  BY <1>1 DEF CheckHit, BlocksInv, Lists
<1>3. CASE tag \notin Tags(entries)
  <2>1. MatchingBlocks(tag) = {} /\ entries' = entries
    BY <1>1, <1>2, <1>3, MatchingListed DEF check_hit
  <2>2. UNCHANGED <<blocks, access_count>>
    BY <2>1 DEF CheckHit
  <2>3. QED
    BY <2>1, <2>2 DEF BlocksInv, Lists, Valid
<1>4. CASE tag \in Tags(entries)
  <2> DEFINE k == PlaceOf(entries, tag)
             w == ways[k]
             d == blocks[w].data
  <2>1. /\ k \in 1 .. Len(entries) /\ w \in TableWays /\ MatchingBlocks(tag) = {w} /\ d = entries[k]
    BY <1>1, <1>4, MatchingListed
  <2>2. Used(w, d)
    BY <2>1 DEF CheckHit
  <2>3. entries' = Append(RemoveAt(entries, k), d)
    BY <1>2, <1>4, <2>1 DEF check_hit, Without, EntryOf
  <2>4. OncePerTag(entries')
    BY <1>2, UsedTable
  <2>5. Valid \in SUBSET TableWays /\ d \in BlockData
    BY <2>1 DEF Valid, BlocksInv
  <2>6. Lists(RemoveAt(ways, k), RemoveAt(entries, k), Valid \ {w})
    BY <1>1, <2>1, <2>5, ListsWithout
  <2> HIDE DEF d, w, k
  <2>7. QED
    BY <2>1, <2>2, <2>3, <2>4, <2>5, <2>6, ListsUsed
<1>5. QED
  BY <1>3, <1>4

\* What is replaced when no block has the tag: an unused one, or the first of the list.
LEMMA ReplacedListed ==
  ASSUME BlocksInv, NEW ways, Lists(ways, entries, Valid), NEW tag,
         MatchingBlocks(tag) = {}, NEW w \in Replaced(tag)
  PROVE  /\ w \in TableWays /\ Len(entries) \in 0 .. NUM_WAY
         /\ IF Len(entries) = NUM_WAY THEN w = ways[1] ELSE w \notin Valid
<1> DEFINE n == Len(ways)
<1>1. /\ n \in Nat /\ Len(entries) = n /\ IsFiniteSet(Valid) /\ Cardinality(Valid) = n
      /\ Valid \in SUBSET TableWays
      /\ \A i \in 1 .. n : ways[i] \in TableWays /\ blocks[ways[i]].last_used \in Nat
  <2>1. Valid \in SUBSET TableWays
    BY DEF Valid
  <2>2. QED
    BY <2>1, ListFacts
<1>2. IsFiniteSet(TableWays) /\ Cardinality(TableWays) = NUM_WAY /\ NUM_WAY \in Nat /\ NUM_WAY >= 1
  BY TableAssumption, FirstNumbers DEF TableWays
<1>3. n <= NUM_WAY /\ (n = NUM_WAY => Valid = TableWays)
  BY <1>1, <1>2, FS_Subset
<1>4. w \in TableWays /\ \A v \in TableWays : blocks[w].last_used <= blocks[v].last_used
  BY DEF Replaced
<1>5. \A v \in TableWays : blocks[v].last_used \in Nat
  BY DEF BlocksInv
<1> HIDE DEF n
<1>6. ASSUME n = NUM_WAY
      PROVE  w = ways[1]
  <2>1. 1 \in 1 .. n /\ ways[1] \in TableWays
    BY <1>1, <1>2, <1>6
  <2>2. PICK i \in 1 .. n : ways[i] = w
    BY <1>3, <1>4, <1>6 DEF Lists, n
  <2>3. CASE i = 1
    BY <2>2, <2>3
  <2>4. CASE i # 1
    <3>1. 1 < i
      BY <2>4
    <3>2. blocks[ways[1]].last_used < blocks[ways[i]].last_used
      BY <2>1, <3>1 DEF Lists, n
    <3> DEFINE a == blocks[ways[1]].last_used
               b == blocks[ways[i]].last_used
    <3>3. b <= a /\ a \in Nat /\ b \in Nat /\ a < b
      BY <1>4, <1>5, <2>1, <2>2, <3>2
    <3> HIDE DEF a, b
    <3>4. QED
      BY <3>3
  <2>5. QED
    BY <2>3, <2>4
<1>7. ASSUME n # NUM_WAY
      PROVE  w \notin Valid
  <2>1. Valid # TableWays
    BY <1>1, <1>2, <1>7
  <2>2. PICK v \in TableWays : v \notin Valid
    BY <1>1, <2>1
  <2>3. blocks[v].last_used = 0
    BY <1>5, <2>2 DEF Valid
  <2>4. blocks[w].last_used <= 0
    BY <1>4, <2>3
  <2>5. QED
    BY <1>4, <1>5, <2>4 DEF Valid
<1>8. QED
  BY <1>1, <1>2, <1>3, <1>4, <1>6, <1>7

LEMMA BlocksFill ==
  ASSUME BlocksInv, NEW tag \in Tag, NEW value \in Value, FillBlock(tag, value)
  PROVE  BlocksInv'
<1> DEFINE d == [tag |-> tag, value |-> value]
<1>1. PICK ways : Lists(ways, entries, Valid)
  BY DEF BlocksInv
<1>2. PICK w \in Replaced(tag) : Used(w, d)
  BY DEF FillBlock
<1>3. /\ entries' = fill(entries, NUM_WAY, d) /\ entries \in Seq(BlockData) /\ OncePerTag(entries)
      /\ d \in BlockData /\ d.tag = tag /\ NUM_WAY \in Nat /\ NUM_WAY # 0
      /\ Valid \in SUBSET TableWays
  BY TableAssumption, <1>1 DEF FillBlock, BlocksInv, Lists, BlockData, Valid
<1> HIDE DEF d
<1>4. Len(entries) \in Nat /\ Len(entries) <= NUM_WAY
  <2>1. IsFiniteSet(TableWays) /\ Cardinality(TableWays) = NUM_WAY
    BY <1>3, FirstNumbers DEF TableWays
  <2>2. Len(ways) \in Nat /\ Len(entries) = Len(ways) /\ Cardinality(Valid) = Len(ways)
    BY <1>1, <1>3, ListFacts
  <2>3. Cardinality(Valid) <= Cardinality(TableWays)
    BY <1>3, <2>1, FS_Subset
  <2>4. QED
    BY <2>1, <2>2, <2>3
<1>5. OncePerTag(entries')
  BY <1>3, <1>4, FilledTable
<1>6. CASE tag \in Tags(entries)
  <2> DEFINE k == PlaceOf(entries, tag)
             rest == RemoveAt(entries, k)
  <2>1. k \in 1 .. Len(entries) /\ ways[k] \in TableWays /\ MatchingBlocks(tag) = {ways[k]}
    BY <1>1, <1>6, MatchingListed
  <2>2. w = ways[k]
    BY <1>2, <2>1 DEF Replaced
  <2>3. Without(entries, tag) = rest /\ Len(rest) = Len(entries) - 1
    BY <1>3, <1>6, <2>1, Removed DEF Without
  <2>4. Len(rest) # NUM_WAY
    BY <1>3, <1>4, <2>3
  <2>5. entries' = Append(rest, d)
    BY <1>3, <2>3, <2>4 DEF fill
  <2>6. Lists(RemoveAt(ways, k), rest, Valid \ {w})
    BY <1>1, <1>3, <2>1, <2>2, ListsWithout
  <2> HIDE DEF k, rest
  <2>7. QED
    BY <1>2, <1>3, <1>5, <2>1, <2>2, <2>5, <2>6, ListsUsed
<1>7. CASE tag \notin Tags(entries)
  <2>1. MatchingBlocks(tag) = {}
    BY <1>1, <1>7, MatchingListed
  <2>2. /\ w \in TableWays
        /\ IF Len(entries) = NUM_WAY THEN w = ways[1] ELSE w \notin Valid
    BY <1>1, <2>1, ReplacedListed
  <2>3. Without(entries, tag) = entries
    BY <1>7 DEF Without
  <2>4. CASE Len(entries) = NUM_WAY
    <3>1. entries' = Append(Tail(entries), d) /\ w = ways[1] /\ 1 \in 1 .. Len(entries)
      BY <1>3, <1>4, <2>2, <2>3, <2>4 DEF fill
    <3>2. RemoveAt(entries, 1) = Tail(entries)
      <4> DEFINE a == RemoveAt(entries, 1)
                 b == Tail(entries)
                 m == Len(entries) - 1
      <4>1. a \in Seq(BlockData) /\ Len(a) = m /\ \A i \in 1 .. m : a[i] = entries[i + 1]
        <5>1. /\ a \in Seq(BlockData) /\ Len(a) = m
              /\ \A i \in 1 .. m : a[i] = IF i < 1 THEN entries[i] ELSE entries[i + 1]
          BY <1>3, <3>1, Removed
        <5>2. \A i \in 1 .. m : ~(i < 1)
          BY <1>4
        <5>3. QED
          BY <5>1, <5>2
      <4>2. b \in Seq(BlockData) /\ Len(b) = m /\ \A i \in 1 .. m : b[i] = entries[i + 1]
        <5>1. entries # << >>
          BY <1>3, <1>4, <2>4, EmptySeq
        <5>2. QED
          BY <1>3, <5>1, HeadTailProperties
      <4> HIDE DEF a, b, m
      <4>3. \A i \in 1 .. Len(a) : a[i] = b[i]
        BY <4>1, <4>2
      <4>4. a = b
        BY <4>1, <4>2, <4>3, SeqEqual
      <4>5. QED
        BY <4>4 DEF a, b
    <3>3. Lists(RemoveAt(ways, 1), RemoveAt(entries, 1), Valid \ {w})
      BY <1>1, <1>3, <3>1, ListsWithout
    <3>4. QED
      BY <1>2, <1>3, <1>5, <2>2, <3>1, <3>2, <3>3, ListsUsed
  <2>5. CASE Len(entries) # NUM_WAY
    <3>1. entries' = Append(entries, d) /\ Valid \ {w} = Valid
      BY <1>3, <2>2, <2>3, <2>5 DEF fill
    <3>2. QED
      BY <1>1, <1>2, <1>3, <1>5, <2>2, <3>1, ListsUsed
  <2>6. QED
    BY <2>4, <2>5
<1>8. QED
  BY <1>6, <1>7

LEMMA BlocksInvalidate ==
  ASSUME BlocksInv, NEW tag, Invalidate(tag)
  PROVE  BlocksInv'
<1>1. PICK ways : Lists(ways, entries, Valid)
  BY DEF BlocksInv
<1>2. /\ entries' = Without(entries, tag) /\ access_count' = access_count
      /\ blocks' = [w \in TableWays |-> IF w \in MatchingBlocks(tag) THEN Unused ELSE blocks[w]]
      /\ entries \in Seq(BlockData) /\ OncePerTag(entries) /\ access_count \in Nat
      /\ blocks \in [TableWays -> [last_used : Nat, data : BlockData]]
      /\ \A w \in TableWays : blocks[w].last_used <= access_count
  BY <1>1 DEF Invalidate, invalidate, BlocksInv, Lists
<1>3. Unused \in [last_used : Nat, data : BlockData] /\ Unused.last_used = 0
  BY DEF Unused, BlockData
<1>4. blocks' \in [TableWays -> [last_used : Nat, data : BlockData]]
  BY <1>2, <1>3
<1>5. \A w \in TableWays : blocks'[w].last_used <= access_count'
  BY <1>2, <1>3
<1>6. OncePerTag(entries')
  BY <1>2, WithoutTag
<1>7. Valid' = Valid \ MatchingBlocks(tag)
  BY <1>2, <1>3 DEF Valid
<1>8. \E o : Lists(o, entries', Valid \ MatchingBlocks(tag))
  <2>1. CASE tag \notin Tags(entries)
    <3>1. MatchingBlocks(tag) = {} /\ entries' = entries
      BY <1>1, <1>2, <2>1, MatchingListed DEF Without
    <3>2. Valid \ MatchingBlocks(tag) = Valid
      BY <3>1
    <3>3. QED
      BY <1>1, <3>1, <3>2
  <2>2. CASE tag \in Tags(entries)
    <3> DEFINE k == PlaceOf(entries, tag)
    <3>1. k \in 1 .. Len(entries) /\ MatchingBlocks(tag) = {ways[k]}
      BY <1>1, <2>2, MatchingListed
    <3>2. entries' = RemoveAt(entries, k)
      BY <1>2, <2>2 DEF Without
    <3>3. Valid \in SUBSET TableWays
      BY DEF Valid
    <3> HIDE DEF k
    <3>4. Lists(RemoveAt(ways, k), RemoveAt(entries, k), Valid \ {ways[k]})
      BY <1>1, <3>1, <3>3, ListsWithout
    <3>5. QED
      BY <3>1, <3>2, <3>4
  <2>3. QED
    BY <2>1, <2>2
<1>9. PICK o : Lists(o, entries', Valid \ MatchingBlocks(tag))
  BY <1>8
<1>10. /\ o \in Seq(TableWays) /\ entries' \in Seq(BlockData) /\ Len(o) = Len(entries')
       /\ \A i \in 1 .. Len(o) : /\ o[i] \in Valid' /\ o[i] \in TableWays
                                  /\ entries'[i] = blocks[o[i]].data /\ blocks'[o[i]] = blocks[o[i]]
       /\ \A w \in Valid' : \E i \in 1 .. Len(o) : o[i] = w
       /\ \A i, j \in 1 .. Len(o) : i < j => blocks[o[i]].last_used < blocks[o[j]].last_used
  <2>1. \A w \in Valid \ MatchingBlocks(tag) : w \in TableWays /\ blocks'[w] = blocks[w]
    BY <1>2 DEF Valid
  <2>2. QED
    BY <1>7, <1>9, <2>1 DEF Lists
<1>11. Lists(o, entries, Valid)'
  BY <1>10 DEF Lists
<1>12. QED
  BY <1>2, <1>4, <1>5, <1>6, <1>11 DEF BlocksInv

\* The place of a way in the list is its rank by the time of the last use.
LEMMA ListedAreEntries ==
  ASSUME BlocksInv
  PROVE  BlocksAreEntries
<1> DEFINE rank(w) == Cardinality({v \in Valid : blocks[v].last_used <= blocks[w].last_used})
<1>1. PICK ways : Lists(ways, entries, Valid)
  BY DEF BlocksInv
<1> DEFINE n == Len(ways)
<1>2. /\ n \in Nat /\ Len(entries) = n /\ Cardinality(Valid) = n
      /\ \A i \in 1 .. n : ways[i] \in TableWays /\ blocks[ways[i]].last_used \in Nat
  <2>1. Valid \in SUBSET TableWays
    BY DEF Valid
  <2>2. QED
    BY <1>1, <2>1, ListFacts
<1>3. /\ \A i \in 1 .. n : ways[i] \in Valid /\ entries[i] = blocks[ways[i]].data
      /\ \A w \in Valid : \E i \in 1 .. n : ways[i] = w
      /\ \A i, j \in 1 .. n : i < j => blocks[ways[i]].last_used < blocks[ways[j]].last_used
  BY <1>1 DEF Lists
<1> HIDE DEF n
<1>4. ASSUME NEW k \in 1 .. n
      PROVE  rank(ways[k]) = k
  <2> DEFINE T == {v \in Valid : blocks[v].last_used <= blocks[ways[k]].last_used}
             f == [i \in 1 .. k |-> ways[i]]
  <2>1. k \in Nat /\ \A i \in 1 .. k : i \in 1 .. n
    BY <1>2
  <2>2. \A i \in 1 .. n : i <= k <=> blocks[ways[i]].last_used <= blocks[ways[k]].last_used
    <3> SUFFICES ASSUME NEW i \in 1 .. n
                 PROVE  i <= k <=> blocks[ways[i]].last_used <= blocks[ways[k]].last_used
      OBVIOUS
    <3> DEFINE a == blocks[ways[i]].last_used
               b == blocks[ways[k]].last_used
    <3>1. /\ a \in Nat /\ b \in Nat
          /\ i < k => a < b
          /\ k < i => b < a
          /\ i = k => a = b
      BY <1>2, <1>3
    <3> HIDE DEF a, b
    <3>2. i <= k <=> a <= b
      BY <1>2, <3>1
    <3>3. QED
      BY <3>2 DEF a, b
  <2>3. \A i \in 1 .. k : ways[i] \in T
    BY <1>3, <2>1, <2>2
  <2>4. \A t \in T : \E i \in 1 .. k : ways[i] = t
    <3> SUFFICES ASSUME NEW t \in T PROVE \E i \in 1 .. k : ways[i] = t
      OBVIOUS
    <3>1. PICK i \in 1 .. n : ways[i] = t
      BY <1>3
    <3>2. i <= k
      BY <2>2, <3>1
    <3>3. i \in 1 .. k
      BY <2>1, <3>2
    <3>4. QED
      BY <3>1, <3>3
  <2>5. \A i, j \in 1 .. k : i < j => ways[i] # ways[j]
    <3> SUFFICES ASSUME NEW i \in 1 .. k, NEW j \in 1 .. k, i < j, ways[i] = ways[j] PROVE FALSE
      OBVIOUS
    <3>1. blocks[ways[i]].last_used < blocks[ways[i]].last_used
      BY <1>3, <2>1
    <3>2. QED
      BY <1>2, <2>1, <3>1
  <2> HIDE DEF T
  <2>6. /\ f \in [1 .. k -> T]
        /\ \A t \in T : \E i \in 1 .. k : f[i] = t
        /\ \A i, j \in 1 .. k : i < j => f[i] # f[j]
    BY <2>3, <2>4, <2>5
  <2> HIDE DEF f
  <2>7. Cardinality(T) = k
    BY <2>1, <2>6, ListedOnce
  <2>8. QED
    BY <2>7 DEF T
<1> HIDE DEF rank
<1>5. \A w \in Valid : entries[rank(w)] = blocks[w].data
  <2> SUFFICES ASSUME NEW w \in Valid PROVE entries[rank(w)] = blocks[w].data
    OBVIOUS
  <2>1. PICK k \in 1 .. n : ways[k] = w
    BY <1>3
  <2>2. rank(w) = k
    BY <1>4, <2>1
  <2>3. QED
    BY <1>3, <2>1, <2>2
<1>6. QED
  BY <1>2, <1>5 DEF BlocksAreEntries, rank

\* The blocks of a set of an lru_table are, by the time of their last use, the entries
\* that LRUTable says it holds (lru_table.h:114-166), for any number of ways, any tags
\* and any values: what is proved with LRUTable holds of the table as the code keeps it.
THEOREM TableIsLeastRecentlyUsed == BlocksSpec => []BlocksAreEntries
<1>1. BlocksInit => BlocksInv
  <2> SUFFICES ASSUME BlocksInit PROVE BlocksInv
    OBVIOUS
  <2>1. blocks = [w \in TableWays |-> Unused] /\ access_count = 0 /\ entries = << >>
    BY DEF BlocksInit
  <2>2. Unused \in [last_used : Nat, data : BlockData] /\ Unused.last_used = 0
    BY DEF Unused, BlockData
  <2>3. /\ blocks \in [TableWays -> [last_used : Nat, data : BlockData]]
        /\ \A w \in TableWays : blocks[w].last_used = 0
    BY <2>1, <2>2
  <2>4. Valid = {}
    BY <2>3 DEF Valid
  <2>5. << >> \in Seq(TableWays) /\ << >> \in Seq(BlockData) /\ Len(<< >>) = 0
    OBVIOUS
  <2>6. Lists(<< >>, << >>, {})
    BY <2>5 DEF Lists
  <2>7. OncePerTag(<< >>)
    BY <2>5 DEF OncePerTag
  <2>8. QED
    BY <2>1, <2>3, <2>4, <2>6, <2>7 DEF BlocksInv
<1>2. BlocksInv /\ [BlocksNext]_blocksVars => BlocksInv'
  <2> SUFFICES ASSUME BlocksInv, [BlocksNext]_blocksVars PROVE BlocksInv'
    OBVIOUS
  <2>1. CASE UNCHANGED blocksVars
    BY <2>1 DEF blocksVars, BlocksInv, Lists, Valid
  <2>2. CASE BlocksNext
    BY <2>2, BlocksCheckHit, BlocksFill, BlocksInvalidate DEF BlocksNext
  <2>3. QED
    BY <2>1, <2>2
<1>3. BlocksInv => BlocksAreEntries
  BY ListedAreEntries
<1>4. QED
  BY <1>1, <1>2, <1>3, PTL DEF BlocksSpec

-----------------------------------------------------------------------------
(* The lru policy. *)

\* The stamps of the ways used grow along the order of their last uses, every way
\* that holds a line was used, and the next stamp is larger than all.
LRUInv ==
    /\ cycle \in Nat /\ filled \in 0 .. NumLRUWay /\ last_used_cycles \in [LRUWay -> Nat]
    /\ order \in Seq(LRUWay)
    /\ \A i \in 1 .. Len(order) : last_used_cycles[order[i]] < cycle
    /\ \A i, j \in 1 .. Len(order) :
          i < j => last_used_cycles[order[i]] < last_used_cycles[order[j]]
    /\ \A w \in 1 .. filled : \E i \in 1 .. Len(order) : order[i] = w

\* The order without a way is that of the others.
LEMMA OrderOfOthers ==
  ASSUME LRUInv, NEW w \in LRUWay
  PROVE  /\ OrderWithout(w) \in Seq(LRUWay)
         /\ \A i \in 1 .. Len(OrderWithout(w)) :
               /\ OrderWithout(w)[i] # w
               /\ \E k \in 1 .. Len(order) : OrderWithout(w)[i] = order[k]
         /\ \A i, j \in 1 .. Len(OrderWithout(w)) : i < j =>
               last_used_cycles[OrderWithout(w)[i]] < last_used_cycles[OrderWithout(w)[j]]
         /\ \A k \in 1 .. Len(order) : order[k] # w =>
               \E i \in 1 .. Len(OrderWithout(w)) : OrderWithout(w)[i] = order[k]
<1> DEFINE n == Len(order)
           r == OrderWithout(w)
<1>1. /\ order \in Seq(LRUWay) /\ DOMAIN order = 1 .. n /\ n \in Nat
      /\ \A i \in 1 .. n : order[i] \in LRUWay
      /\ last_used_cycles \in [LRUWay -> Nat]
  BY LenProperties, ElementOfSeq DEF LRUInv
<1>2. \A i, j \in 1 .. n : i < j => last_used_cycles[order[i]] < last_used_cycles[order[j]]
  BY DEF LRUInv
<1>3. CASE ~\E i \in 1 .. n : order[i] = w
  <2>1. r = order
    BY <1>1, <1>3 DEF OrderWithout
  <2>2. QED
    BY <1>1, <1>2, <1>3, <2>1
<1>4. CASE \E i \in 1 .. n : order[i] = w
  <2> DEFINE k == CHOOSE i \in DOMAIN order : order[i] = w
  <2>1. k \in 1 .. n /\ order[k] = w
    BY <1>1, <1>4
  <2>2. r = RemoveAt(order, k)
    BY <1>1, <1>4 DEF OrderWithout
  <2> HIDE DEF k, r
  <2>3. /\ r \in Seq(LRUWay) /\ Len(r) = n - 1
        /\ \A i \in 1 .. n - 1 : r[i] = IF i < k THEN order[i] ELSE order[i + 1]
    BY <1>1, <2>1, <2>2, Removed
  <2>4. \A i \in 1 .. n : i # k => order[i] # w
    <3> SUFFICES ASSUME NEW i \in 1 .. n, i # k, order[i] = w PROVE FALSE
      OBVIOUS
    <3>1. i < k \/ k < i
      BY <1>1, <2>1
    <3>2. last_used_cycles[w] < last_used_cycles[w]
      BY <1>2, <2>1, <3>1
    <3>3. QED
      BY <1>1, <3>2
  <2> DEFINE At(i) == IF i < k THEN i ELSE i + 1
  <2>5. ASSUME NEW i \in 1 .. Len(r)
        PROVE  At(i) \in 1 .. n /\ At(i) # k /\ r[i] = order[At(i)]
    BY <1>1, <2>1, <2>3
  <2>6. \A i, j \in 1 .. Len(r) : i < j => At(i) < At(j)
    <3>1. Len(r) \in Int /\ k \in Int
      BY <1>1, <2>1, <2>3
    <3>2. QED
      BY <3>1
  <2> HIDE DEF At
  <2>7. ASSUME NEW j \in 1 .. n, j # k
        PROVE  \E i \in 1 .. Len(r) : r[i] = order[j]
    <3>1. CASE j < k
      <4>1. j \in 1 .. n - 1 /\ r[j] = order[j]
        BY <1>1, <2>1, <2>3, <3>1
      <4>2. QED
        BY <2>3, <4>1
    <3>2. CASE ~(j < k)
      <4>1. j - 1 \in 1 .. n - 1 /\ ~(j - 1 < k) /\ (j - 1) + 1 = j
        BY <1>1, <2>1, <2>7, <3>2
      <4>2. r[j - 1] = order[j]
        BY <2>3, <4>1
      <4>3. QED
        BY <2>3, <4>1, <4>2
    <3>3. QED
      BY <3>1, <3>2
  <2>8. /\ \A i \in 1 .. Len(r) : r[i] # w /\ \E j \in 1 .. n : r[i] = order[j]
        /\ \A j \in 1 .. n : order[j] # w => \E i \in 1 .. Len(r) : r[i] = order[j]
    BY <2>1, <2>4, <2>5, <2>7
  <2>9. \A i, j \in 1 .. Len(r) : i < j => last_used_cycles[r[i]] < last_used_cycles[r[j]]
    BY <1>2, <2>5, <2>6
  <2>10. QED
    BY <2>3, <2>8, <2>9 DEF r
<1>5. QED
  BY <1>3, <1>4

\* A use puts its way last.
LEMMA UseKeepsOrder ==
  ASSUME LRUInv, NEW w \in LRUWay, Use(w), filled' \in 0 .. NumLRUWay,
         \A v \in 1 .. filled' : v \in 1 .. filled \/ v = w
  PROVE  LRUInv'
<1> DEFINE r == OrderWithout(w)
           n == Len(r)
<1>1. /\ last_used_cycles' = [last_used_cycles EXCEPT ![w] = cycle] /\ cycle' = cycle + 1
      /\ order' = Append(r, w)
  BY DEF Use
<1>2. /\ cycle \in Nat /\ last_used_cycles \in [LRUWay -> Nat] /\ order \in Seq(LRUWay)
      /\ \A i \in 1 .. Len(order) : last_used_cycles[order[i]] < cycle /\ order[i] \in LRUWay
      /\ \A v \in 1 .. filled : \E i \in 1 .. Len(order) : order[i] = v
  BY ElementOfSeq DEF LRUInv
<1>3. /\ r \in Seq(LRUWay) /\ n \in Nat
      /\ \A i \in 1 .. n : r[i] \in LRUWay /\ r[i] # w
      /\ \A i \in 1 .. n : \E k \in 1 .. Len(order) : r[i] = order[k]
      /\ \A i, j \in 1 .. n : i < j => last_used_cycles[r[i]] < last_used_cycles[r[j]]
      /\ \A k \in 1 .. Len(order) : order[k] # w => \E i \in 1 .. n : r[i] = order[k]
  BY OrderOfOthers, LenProperties, ElementOfSeq
<1> HIDE DEF r, n
<1>4. /\ order' \in Seq(LRUWay) /\ Len(order') = n + 1
      /\ \A i \in 1 .. n : order'[i] = r[i]
      /\ order'[n + 1] = w
  BY <1>1, <1>3, AppendProperties DEF n
<1>5. /\ last_used_cycles' \in [LRUWay -> Nat] /\ cycle' \in Nat
      /\ last_used_cycles'[w] = cycle
      /\ \A v \in LRUWay : v # w => last_used_cycles'[v] = last_used_cycles[v]
  BY <1>1, <1>2
<1>6. \A i \in 1 .. n + 1 : i \in 1 .. n \/ i = n + 1
  BY <1>3
<1>7. \A i \in 1 .. n : /\ last_used_cycles'[order'[i]] = last_used_cycles[r[i]]
                        /\ last_used_cycles[r[i]] < cycle
  BY <1>2, <1>3, <1>4, <1>5
<1>8. \A i \in 1 .. Len(order') : last_used_cycles'[order'[i]] < cycle'
  <2> SUFFICES ASSUME NEW i \in 1 .. n + 1 PROVE last_used_cycles'[order'[i]] < cycle'
    BY <1>4
  <2>1. CASE i \in 1 .. n
    <3> DEFINE t == last_used_cycles[r[i]]
    <3>1. last_used_cycles'[order'[i]] = t /\ t < cycle
      BY <1>7, <2>1
    <3>2. t \in Nat
      BY <1>2, <1>3, <2>1
    <3> HIDE DEF t
    <3>3. t < cycle'
      BY <1>1, <1>2, <3>1, <3>2
    <3>4. QED
      BY <3>1, <3>3
  <2>2. CASE i = n + 1
    BY <1>1, <1>2, <1>4, <1>5, <2>2
  <2>3. QED
    BY <1>6, <2>1, <2>2
<1>9. ASSUME NEW i \in 1 .. n + 1, NEW j \in 1 .. n + 1, i < j
      PROVE  last_used_cycles'[order'[i]] < last_used_cycles'[order'[j]]
  <2>1. i \in 1 .. n
    BY <1>3, <1>9
  <2>2. CASE j \in 1 .. n
    BY <1>3, <1>7, <1>9, <2>1, <2>2
  <2>3. CASE j = n + 1
    BY <1>4, <1>5, <1>7, <2>1, <2>3
  <2>4. QED
    BY <1>6, <2>2, <2>3
<1>10. ASSUME NEW v \in 1 .. filled'
       PROVE  \E i \in 1 .. n + 1 : order'[i] = v
  <2>1. CASE v = w
    <3>1. n + 1 \in 1 .. n + 1
      BY <1>3
    <3>2. QED
      BY <1>4, <2>1, <3>1
  <2>2. CASE v # w
    <3>1. PICK k \in 1 .. Len(order) : order[k] = v
      BY <1>2, <2>2
    <3>2. PICK i \in 1 .. n : r[i] = v
      BY <1>3, <2>2, <3>1
    <3>3. i \in 1 .. n + 1
      BY <1>3
    <3>4. QED
      BY <1>4, <3>2, <3>3
  <2>3. QED
    BY <2>1, <2>2
<1>11. QED
  BY <1>4, <1>5, <1>8, <1>9, <1>10 DEF LRUInv

\* In a full set with lines of increasing stamps the first is the victim.
LEMMA VictimIsFirst ==
  ASSUME LRUInv, filled = NumLRUWay
  PROVE  find_victim \in LRUWay /\ find_victim = Head(order)
<1> DEFINE h == order[1]
           v == find_victim
           n == Len(order)
           stamp(w) == last_used_cycles[w]
<1>1. /\ last_used_cycles \in [LRUWay -> Nat] /\ n \in Nat
      /\ \A i \in 1 .. n : order[i] \in LRUWay
      /\ \A i, j \in 1 .. n : i < j => stamp(order[i]) < stamp(order[j])
      /\ \A w \in LRUWay : \E i \in 1 .. n : order[i] = w
  BY LenProperties, ElementOfSeq DEF LRUInv, LRUWay
<1>2. 1 \in LRUWay /\ \A w \in LRUWay : w \in Int
  BY LRUAssumption DEF LRUWay
<1>3. 1 \in 1 .. n /\ h \in LRUWay
  BY <1>1, <1>2
<1>4. ASSUME NEW x \in LRUWay, x # h
      PROVE  stamp(h) < stamp(x)
  <2>1. PICK j \in 1 .. n : order[j] = x
    BY <1>1
  <2>2. 1 < j
    BY <1>4, <2>1
  <2>3. QED
    BY <1>1, <1>3, <2>1, <2>2
<1> HIDE DEF h, stamp
<1>5. \A w \in LRUWay : stamp(w) \in Nat
  BY <1>1 DEF stamp
<1>6. \A x \in LRUWay : stamp(h) < stamp(x) \/ (stamp(h) = stamp(x) /\ h <= x)
  BY <1>2, <1>3, <1>4
<1>7. v \in LRUWay /\ \A x \in LRUWay : stamp(v) < stamp(x) \/ (stamp(v) = stamp(x) /\ v <= x)
  BY <1>3, <1>6 DEF find_victim, stamp
<1> HIDE DEF v
<1>8. v = h
  <2> SUFFICES ASSUME v # h PROVE FALSE
    OBVIOUS
  <2>1. stamp(h) < stamp(v)
    BY <1>4, <1>7
  <2>2. ~(stamp(v) < stamp(h)) /\ stamp(v) # stamp(h)
    BY <1>3, <1>5, <1>7, <2>1
  <2>3. QED
    BY <1>3, <1>7, <2>2
<1>9. Head(order) = order[1]
  BY <1>3
<1>10. QED
  BY <1>7, <1>8, <1>9 DEF v, h

\* lru's victim is the way that was filled or read longest ago, in sets of any
\* number of ways, and however often other sets move the counter on (lru.cc:10-36).
THEOREM LRUVictimIsLeastRecent == LRUSpec => []VictimIsLeastRecent
<1>1. LRUInit => LRUInv
  <2> SUFFICES ASSUME LRUInit PROVE LRUInv
    OBVIOUS
  <2>1. /\ cycle = 0 /\ filled = 0 /\ order = << >> /\ last_used_cycles = [w \in LRUWay |-> 0]
    BY DEF LRUInit
  <2>2. order \in Seq(LRUWay) /\ Len(order) = 0
    BY <2>1, EmptySeq
  <2>3. QED
    BY LRUAssumption, <2>1, <2>2 DEF LRUInv
<1>2. LRUInv /\ [LRUNext]_lruVars => LRUInv'
  <2> SUFFICES ASSUME LRUInv, [LRUNext]_lruVars PROVE LRUInv'
    OBVIOUS
  <2>1. filled \in 0 .. NumLRUWay
    BY DEF LRUInv
  <2>2. CASE FillLRU
    <3> DEFINE w == IF filled < NumLRUWay THEN filled + 1 ELSE find_victim
    <3>1. Use(w) /\ filled' = IF filled < NumLRUWay THEN filled + 1 ELSE filled
      BY <2>2 DEF FillLRU
    <3>2. w \in LRUWay
      <4>1. CASE filled < NumLRUWay
        BY LRUAssumption, <2>1, <4>1 DEF LRUWay
      <4>2. CASE ~(filled < NumLRUWay)
        <5>1. filled = NumLRUWay
          BY LRUAssumption, <2>1, <4>2
        <5>2. QED
          BY <4>2, <5>1, VictimIsFirst
      <4>3. QED
        BY <4>1, <4>2
    <3>3. filled' \in 0 .. NumLRUWay /\ \A v \in 1 .. filled' : v \in 1 .. filled \/ v = w
      <4>1. CASE filled < NumLRUWay
        BY LRUAssumption, <2>1, <3>1, <4>1
      <4>2. CASE ~(filled < NumLRUWay)
        BY LRUAssumption, <2>1, <3>1, <4>2
      <4>3. QED
        BY <4>1, <4>2
    <3> HIDE DEF w
    <3>4. QED
      BY <3>1, <3>2, <3>3, UseKeepsOrder
  <2>3. ASSUME NEW w \in LRUWay, NEW write \in BOOLEAN, HitLRU(w, write)
        PROVE  LRUInv'
    <3>1. filled' = filled
      BY <2>3 DEF HitLRU
    <3>2. CASE write
      BY <2>3, <3>1, <3>2 DEF HitLRU, LRUInv
    <3>3. CASE ~write
      <4>1. Use(w)
        BY <2>3, <3>3 DEF HitLRU
      <4>2. QED
        BY <2>1, <3>1, <4>1, UseKeepsOrder
    <3>4. QED
      BY <3>2, <3>3
  <2>4. CASE UseElsewhere
    <3>1. cycle' = cycle + 1 /\ UNCHANGED <<last_used_cycles, filled, order>>
      BY <2>4 DEF UseElsewhere
    <3>2. \A i \in 1 .. Len(order) : last_used_cycles[order[i]] < cycle + 1
      <4>1. \A i \in 1 .. Len(order) : last_used_cycles[order[i]] \in Nat
        BY ElementOfSeq DEF LRUInv
      <4>2. QED
        BY <4>1 DEF LRUInv
    <3>3. QED
      BY <3>1, <3>2 DEF LRUInv
  <2>5. CASE UNCHANGED lruVars
    BY <2>5 DEF lruVars, LRUInv
  <2>6. QED
    BY <2>2, <2>3, <2>4, <2>5 DEF LRUNext
<1>3. LRUInv => VictimIsLeastRecent
  BY VictimIsFirst DEF VictimIsLeastRecent
<1>4. QED
  BY <1>1, <1>2, <1>3, PTL DEF LRUSpec

-----------------------------------------------------------------------------
(* srrip, drrip and ship. *)

\* A way that holds a line has the value 0 just when it was hit since the set was last
\* aged; for srrip, whose fills leave the values alone, an invalid way has the largest.
PolicyInv ==
    /\ policy \in {"srrip", "drrip", "ship"}
    /\ rrpv_values \in [Way -> 0 .. maxRRPV]
    /\ block \in [Way -> Line \cup {NoLine}]
    /\ recent \subseteq Way
    /\ \A w \in Way : w \in recent => rrpv_values[w] = 0
    /\ \A w \in Way : block[w] # NoLine /\ w \notin recent => rrpv_values[w] >= 1
    /\ policy = "srrip" => \A w \in Way : block[w] = NoLine => rrpv_values[w] = maxRRPV

\* The victim has the largest of the values.
LEMMA VictimIsLargest ==
  ASSUME NEW values \in [Way -> 0 .. maxRRPV]
  PROVE  /\ Largest(values) \in 0 .. maxRRPV
         /\ \A w \in Way : values[w] <= Largest(values)
         /\ OldestWay(values) \in Way /\ values[OldestWay(values)] = Largest(values)
<1> DEFINE S == {values[w] : w \in Way}
           T == {maxRRPV - s : s \in S}
<1>1. 1 \in Way /\ maxRRPV \in Nat /\ Way \subseteq Nat
  BY PolicyAssumption DEF Way
<1>2. S \subseteq 0 .. maxRRPV /\ values[1] \in S
  BY <1>1
<1> HIDE DEF S
<1>3. T \subseteq Nat /\ T # {}
  BY <1>1, <1>2
<1>4. PICK t \in T : \A y \in T : t <= y
  BY <1>3, SmallestOf
<1>5. PICK m \in S : t = maxRRPV - m
  OBVIOUS
<1>6. \A y \in S : m >= y
  <2> SUFFICES ASSUME NEW y \in S PROVE m >= y
    OBVIOUS
  <2>1. maxRRPV - y \in T
    OBVIOUS
  <2>2. maxRRPV - m <= maxRRPV - y
    BY <1>4, <1>5, <2>1
  <2>3. QED
    BY <1>1, <1>2, <2>2
<1>7. Largest(values) \in S /\ \A y \in S : Largest(values) >= y
  BY <1>6 DEF Largest, Max, S
<1>8. \A w \in Way : values[w] \in S /\ values[w] <= Largest(values)
  <2> SUFFICES ASSUME NEW w \in Way PROVE values[w] \in S /\ values[w] <= Largest(values)
    OBVIOUS
  <2>1. values[w] \in S
    BY DEF S
  <2>2. QED
    BY <1>1, <1>2, <1>7, <2>1
<1> DEFINE V == {w \in Way : values[w] = Largest(values)}
<1>9. V \subseteq Nat /\ V # {}
  BY <1>1, <1>7 DEF S
<1>10. PICK v \in V : \A y \in V : v <= y
  BY <1>9, SmallestOf
<1>11. OldestWay(values) \in V
  BY <1>10 DEF OldestWay, Min
<1>12. QED
  BY <1>1, <1>2, <1>7, <1>8, <1>11

\* An aged set has a line with the largest value that there is, and forgets its hits
\* unless it had one already.
LEMMA AgedValues ==
  ASSUME PolicyInv
  PROVE  /\ AllAged(rrpv_values) \in [Way -> 0 .. maxRRPV]
         /\ AllAged(rrpv_values)[OldestWay(rrpv_values)] = maxRRPV
         /\ \A w \in Way : IF StillRecent(rrpv_values) = recent
                             THEN rrpv_values[w] <= AllAged(rrpv_values)[w] ELSE AllAged(rrpv_values)[w] >= 1
         /\ \A w \in Way : w \in StillRecent(rrpv_values) => w \in recent /\ AllAged(rrpv_values)[w] = rrpv_values[w]
         /\ \A w \in Way : w \notin StillRecent(rrpv_values) => w \notin recent \/ AllAged(rrpv_values)[w] >= 1
<1> DEFINE L == Largest(rrpv_values)
           d == maxRRPV - L
<1>1. /\ rrpv_values \in [Way -> 0 .. maxRRPV] /\ L \in 0 .. maxRRPV /\ maxRRPV \in Nat
      /\ \A w \in Way : rrpv_values[w] <= L
      /\ OldestWay(rrpv_values) \in Way /\ rrpv_values[OldestWay(rrpv_values)] = L
  BY PolicyAssumption, VictimIsLargest DEF PolicyInv
<1>2. AllAged(rrpv_values) = [w \in Way |-> rrpv_values[w] + d]
  BY DEF AllAged
<1>3. StillRecent(rrpv_values) = IF L = maxRRPV THEN recent ELSE {}
  BY DEF StillRecent
<1> HIDE DEF L
<1>4. \A w \in Way : rrpv_values[w] \in 0 .. maxRRPV /\ AllAged(rrpv_values)[w] = rrpv_values[w] + d
  BY <1>1, <1>2
<1>5. \A w \in Way : rrpv_values[w] + d \in 0 .. maxRRPV
  BY <1>1, <1>4
<1>6. AllAged(rrpv_values) \in [Way -> 0 .. maxRRPV]
  BY <1>2, <1>5
<1>7. AllAged(rrpv_values)[OldestWay(rrpv_values)] = maxRRPV
  BY <1>1, <1>4
<1>8. CASE L = maxRRPV
  <2>1. d = 0 /\ StillRecent(rrpv_values) = recent
    BY <1>1, <1>3, <1>8
  <2>2. \A w \in Way : AllAged(rrpv_values)[w] = rrpv_values[w] /\ rrpv_values[w] <= rrpv_values[w]
    BY <1>1, <1>4, <2>1
  <2>3. QED
    BY <1>6, <1>7, <2>1, <2>2
<1>9. CASE L # maxRRPV
  <2>1. d >= 1 /\ d \in Nat /\ StillRecent(rrpv_values) = {}
    BY <1>1, <1>3, <1>9
  <2>2. \A w \in Way : AllAged(rrpv_values)[w] >= 1 /\ rrpv_values[w] <= AllAged(rrpv_values)[w]
    BY <1>1, <1>4, <2>1
  <2>3. QED
    BY <1>6, <1>7, <2>1, <2>2
<1>10. QED
  BY <1>8, <1>9

\* A fill is of a way whose old value is the largest, and leaves it one above 0.
LEMMA FilledValue ==
  ASSUME PolicyInv, NEW old \in 0 .. maxRRPV, NEW ip, NEW write \in BOOLEAN,
         policy = "srrip" => old = maxRRPV
  PROVE  FillValue(old, ip, write) \in 1 .. maxRRPV
<1>1. maxRRPV \in 1 .. maxRRPV /\ maxRRPV - 1 \in 1 .. maxRRPV
  BY PolicyAssumption
<1>2. policy \in {"srrip", "drrip", "ship"}
  BY DEF PolicyInv
<1>3. CASE policy = "srrip"
  BY <1>1, <1>3 DEF FillValue
<1>4. CASE policy = "drrip"
  <2>1. CASE write
    BY <1>1, <1>4, <2>1 DEF FillValue
  <2>2. CASE ~write
    BY <1>1, <1>4, <2>2 DEF FillValue
  <2>3. QED
    BY <2>1, <2>2
<1>5. CASE policy = "ship"
  <2>1. CASE write
    BY <1>1, <1>5, <2>1 DEF FillValue
  <2>2. CASE ~write
    BY <1>1, <1>5, <2>2 DEF FillValue
  <2>3. QED
    BY <2>1, <2>2
<1>6. QED
  BY <1>2, <1>3, <1>4, <1>5

LEMMA PolicyHit ==
  ASSUME PolicyInv, NEW w \in Way, NEW ip, NEW write \in BOOLEAN, Hit(w, ip, write)
  PROVE  PolicyInv'
<1>1. /\ rrpv_values' = [rrpv_values EXCEPT ![w] = HitValue(write)]
      /\ recent' = IF HitValue(write) = 0 THEN recent \cup {w} ELSE recent \ {w}
      /\ UNCHANGED <<policy, block>> /\ block[w] # NoLine
  BY DEF Hit
<1>2. HitValue(write) \in 0 .. maxRRPV
  BY PolicyAssumption DEF HitValue
<1>3. /\ rrpv_values' \in [Way -> 0 .. maxRRPV] /\ rrpv_values'[w] = HitValue(write)
      /\ \A x \in Way : x # w => rrpv_values'[x] = rrpv_values[x]
  BY <1>1, <1>2 DEF PolicyInv
<1>4. CASE HitValue(write) = 0
  BY <1>1, <1>3, <1>4 DEF PolicyInv
<1>5. CASE HitValue(write) # 0
  <2>1. HitValue(write) >= 1
    BY PolicyAssumption, <1>2, <1>5
  <2>2. QED
    BY <1>1, <1>3, <1>5, <2>1 DEF PolicyInv
<1>6. QED
  BY <1>4, <1>5

LEMMA PolicyFill ==
  ASSUME PolicyInv, NEW addr \in Line, NEW ip, NEW write \in BOOLEAN,
         Fill(addr, ip, write)
  PROVE  PolicyInv'
<1> DEFINE free   == InvalidWays # {}
           w      == IF free THEN Min(InvalidWays) ELSE OldestWay(rrpv_values)
           values == IF free THEN rrpv_values ELSE AllAged(rrpv_values)
           kept   == IF free THEN recent ELSE StillRecent(rrpv_values)
           v      == FillValue(values[w], ip, write)
<1>1. /\ block' = [block EXCEPT ![w] = addr]
      /\ rrpv_values' = [values EXCEPT ![w] = v]
      /\ recent' = kept \ {w}
      /\ policy' = policy
  BY DEF Fill
<1>2. /\ policy \in {"srrip", "drrip", "ship"} /\ rrpv_values \in [Way -> 0 .. maxRRPV]
      /\ block \in [Way -> Line \cup {NoLine}] /\ recent \subseteq Way /\ maxRRPV \in Nat
      /\ \A x \in Way : x \in recent => rrpv_values[x] = 0
      /\ \A x \in Way : block[x] # NoLine /\ x \notin recent => rrpv_values[x] >= 1
      /\ policy = "srrip" => \A x \in Way : block[x] = NoLine => rrpv_values[x] = maxRRPV
      /\ addr # NoLine
  BY PolicyAssumption DEF PolicyInv
<1>3. /\ w \in Way /\ values \in [Way -> 0 .. maxRRPV]
      /\ policy = "srrip" => values[w] = maxRRPV
      /\ kept \subseteq Way
      /\ \A x \in Way : x \in kept => values[x] = 0
      /\ \A x \in Way : block[x] # NoLine /\ x \notin kept => values[x] >= 1
      /\ \A x \in Way : block[x] = NoLine => values[x] = rrpv_values[x]
  <2>1. CASE free
    <3>1. InvalidWays \subseteq Nat /\ InvalidWays \subseteq Way
      BY DEF InvalidWays, Way
    <3>2. PICK p \in InvalidWays : \A y \in InvalidWays : p <= y
      BY <2>1, <3>1, SmallestOf
    <3>3. Min(InvalidWays) \in InvalidWays
      BY <3>2 DEF Min
    <3>4. w = Min(InvalidWays) /\ values = rrpv_values /\ kept = recent
      BY <2>1
    <3> HIDE DEF w, values, kept
    <3>5. w \in Way /\ block[w] = NoLine
      BY <3>3, <3>4 DEF InvalidWays
    <3>6. QED
      BY <1>2, <3>4, <3>5
  <2>2. CASE ~free
    <3>1. w = OldestWay(rrpv_values) /\ values = AllAged(rrpv_values) /\ kept = StillRecent(rrpv_values)
      BY <2>2
    <3>2. \A x \in Way : block[x] # NoLine
      BY <2>2 DEF InvalidWays
    <3> HIDE DEF w, values, kept
    <3>3. w \in Way
      BY <1>2, <3>1, VictimIsLargest
    <3>4. /\ values \in [Way -> 0 .. maxRRPV] /\ values[w] = maxRRPV
          /\ \A x \in Way : IF kept = recent THEN rrpv_values[x] <= values[x] ELSE values[x] >= 1
          /\ \A x \in Way : x \in kept => x \in recent /\ values[x] = rrpv_values[x]
          /\ \A x \in Way : x \notin kept => x \notin recent \/ values[x] >= 1
      BY <3>1, AgedValues
    <3>5. kept = recent \/ kept = {}
      BY <3>1 DEF StillRecent
    <3>6. \A x \in Way : x \in kept => values[x] = 0
      BY <1>2, <3>4
    <3>7. ASSUME NEW x \in Way, x \notin kept
          PROVE  values[x] >= 1
      <4>1. CASE x \in recent
        BY <3>4, <3>7, <4>1
      <4>2. CASE x \notin recent
        <5>1. rrpv_values[x] >= 1 /\ rrpv_values[x] \in Nat /\ values[x] \in Nat
          BY <1>2, <3>2, <3>4, <4>2
        <5>2. QED
          BY <3>4, <5>1
      <4>3. QED
        BY <4>1, <4>2
    <3>8. QED
      BY <1>2, <3>2, <3>3, <3>4, <3>5, <3>6, <3>7
  <2>3. QED
    BY <2>1, <2>2
<1> HIDE DEF w, values, kept
<1>4. v \in 1 .. maxRRPV
  BY <1>3, FilledValue
<1> HIDE DEF v
<1>5. /\ rrpv_values' \in [Way -> 0 .. maxRRPV] /\ rrpv_values'[w] = v
      /\ \A x \in Way : x # w => rrpv_values'[x] = values[x]
  <2>1. v \in 0 .. maxRRPV
    BY <1>2, <1>4
  <2>2. QED
    BY <1>1, <1>3, <2>1
<1>6. /\ block' \in [Way -> Line \cup {NoLine}] /\ block'[w] = addr
      /\ \A x \in Way : x # w => block'[x] = block[x]
  BY <1>1, <1>2, <1>3
<1>7. recent' \subseteq Way /\ \A x \in Way : x \in recent' <=> x \in kept /\ x # w
  BY <1>1, <1>3
<1>8. \A x \in Way : x \in recent' => rrpv_values'[x] = 0
  BY <1>3, <1>5, <1>7
<1>9. ASSUME NEW x \in Way, block'[x] # NoLine, x \notin recent'
      PROVE  rrpv_values'[x] >= 1
  <2>1. CASE x = w
    BY <1>2, <1>4, <1>5, <2>1
  <2>2. CASE x # w
    BY <1>3, <1>5, <1>6, <1>7, <1>9, <2>2
  <2>3. QED
    BY <2>1, <2>2
<1>10. policy' = "srrip" => \A x \in Way : block'[x] = NoLine => rrpv_values'[x] = maxRRPV
  <2> SUFFICES ASSUME policy = "srrip", NEW x \in Way, block'[x] = NoLine
               PROVE  rrpv_values'[x] = maxRRPV
    BY <1>1
  <2>1. x # w
    BY <1>2, <1>6
  <2>2. QED
    BY <1>2, <1>3, <1>5, <1>6, <2>1
<1>11. QED
  BY <1>1, <1>2, <1>5, <1>6, <1>7, <1>8, <1>9, <1>10 DEF PolicyInv

LEMMA PolicyRefused ==
  ASSUME PolicyInv, RefusedFill
  PROVE  PolicyInv'
<1>1. /\ rrpv_values' = AllAged(rrpv_values) /\ recent' = StillRecent(rrpv_values) /\ UNCHANGED <<policy, block>>
      /\ \A x \in Way : block[x] # NoLine
  BY DEF RefusedFill, InvalidWays
<1>2. /\ rrpv_values' \in [Way -> 0 .. maxRRPV]
      /\ \A x \in Way : IF recent' = recent THEN rrpv_values[x] <= rrpv_values'[x] ELSE rrpv_values'[x] >= 1
      /\ \A x \in Way : x \in recent' => x \in recent /\ rrpv_values'[x] = rrpv_values[x]
      /\ \A x \in Way : x \notin recent' => x \notin recent \/ rrpv_values'[x] >= 1
  BY <1>1, AgedValues
<1>3. recent' = recent \/ recent' = {}
  BY <1>1 DEF StillRecent
<1>4. ASSUME NEW x \in Way, x \notin recent'
      PROVE  rrpv_values'[x] >= 1
  <2>1. CASE x \in recent
    BY <1>2, <1>4, <2>1
  <2>2. CASE x \notin recent
    <3>1. rrpv_values[x] >= 1 /\ rrpv_values[x] \in Nat /\ rrpv_values'[x] \in Nat
      BY PolicyAssumption, <1>1, <1>2, <2>2 DEF PolicyInv
    <3>2. QED
      BY <1>2, <3>1
  <2>3. QED
    BY <2>1, <2>2
<1>5. QED
  BY <1>1, <1>2, <1>3, <1>4 DEF PolicyInv

LEMMA RecentSurvives ==
  ASSUME PolicyInv
  PROVE  RecentlyHitSurvives
<1>1. \A w \in Way : rrpv_values[w] \in 0 .. maxRRPV
  BY DEF PolicyInv
<1>2. ASSUME InvalidWays = {}, OldestWay(rrpv_values) \in recent
      PROVE  recent = Way
  <2>1. /\ OldestWay(rrpv_values) \in Way /\ rrpv_values[OldestWay(rrpv_values)] = Largest(rrpv_values)
        /\ \A w \in Way : rrpv_values[w] <= Largest(rrpv_values)
    BY VictimIsLargest DEF PolicyInv
  <2>2. Largest(rrpv_values) = 0
    BY <1>2, <2>1 DEF PolicyInv
  <2>3. ASSUME NEW w \in Way PROVE w \in recent
    <3>1. block[w] # NoLine
      BY <1>2 DEF InvalidWays
    <3>2. ~(rrpv_values[w] >= 1)
      BY PolicyAssumption, <1>1, <2>1, <2>2
    <3>3. QED
      BY <3>1, <3>2 DEF PolicyInv
  <2>4. QED
    BY <2>3 DEF PolicyInv
<1>3. QED
  BY <1>1, <1>2 DEF RecentlyHitSurvives

\* srrip, drrip and ship do not replace a line hit since the set was last aged while
\* another was not (srrip.cc:34-44, drrip.cc:68-79, ship.cc:25-36), and no value leaves
\* its range, for any ways, lines and instructions, and counters of any width.
THEOREM HitLinesSurvive == PolicySpec => []RecentlyHitSurvives
<1>1. PolicyInv => RecentlyHitSurvives
  BY RecentSurvives
<1>2. PolicyInit => PolicyInv
  <2> SUFFICES ASSUME PolicyInit PROVE PolicyInv
    OBVIOUS
  <2>1. /\ policy \in {"srrip", "drrip", "ship"} /\ block = [w \in Way |-> NoLine]
        /\ rrpv_values = [w \in Way |-> IF policy = "drrip" THEN 0 ELSE maxRRPV] /\ recent = {}
    BY DEF PolicyInit
  <2>2. 0 \in 0 .. maxRRPV /\ maxRRPV \in 0 .. maxRRPV
    BY PolicyAssumption
  <2>3. rrpv_values \in [Way -> 0 .. maxRRPV]
    BY <2>1, <2>2
  <2>4. block \in [Way -> Line \cup {NoLine}] /\ \A w \in Way : block[w] = NoLine
    BY <2>1
  <2>5. policy = "srrip" => \A w \in Way : rrpv_values[w] = maxRRPV
    BY <2>1
  <2>6. QED
    BY <2>1, <2>3, <2>4, <2>5 DEF PolicyInv
<1>3. PolicyInv /\ [PolicyNext]_policyVars => PolicyInv'
  <2> SUFFICES ASSUME PolicyInv, [PolicyNext]_policyVars PROVE PolicyInv'
    OBVIOUS
  <2>1. ASSUME NEW ip \in IP, NEW write \in BOOLEAN, NEW w \in Way, Hit(w, ip, write)
        PROVE  PolicyInv'
    BY <2>1, PolicyHit
  <2>2. ASSUME NEW ip \in IP, NEW write \in BOOLEAN, NEW addr \in Line, Fill(addr, ip, write)
        PROVE  PolicyInv'
    BY <2>2, PolicyFill
  <2>3. CASE UNCHANGED <<policy, block, rrpv_values, recent>>
    BY <2>3 DEF PolicyInv
  <2>4. ASSUME NEW addr \in Line, NEW ip \in IP, Miss(addr, ip)
        PROVE  PolicyInv'
    BY <2>3, <2>4 DEF Miss
  <2>5. CASE RefusedFill
    BY <2>5, PolicyRefused
  <2>6. ASSUME NEW cat \in 0 .. 2, FillElsewhere(cat)
        PROVE  PolicyInv'
    BY <2>3, <2>6 DEF FillElsewhere
  <2>7. CASE UNCHANGED policyVars
    BY <2>3, <2>7 DEF policyVars
  <2>8. QED
    BY <2>1, <2>2, <2>4, <2>5, <2>6, <2>7 DEF PolicyNext
<1>4. PolicyInv => RecentlyHitSurvives
  BY <1>1
<1>5. QED
  BY <1>2, <1>3, <1>4, PTL DEF PolicySpec

-----------------------------------------------------------------------------
(* ip_stride. *)

StrideEntry == [tag : IPs, block : Block, stride : Int]

\* An entry has the last block of its instruction, and a stride only if it is that
\* of its last two.
Remembers(entry) ==
    /\ Len(past[entry.tag]) >= 1 /\ entry.block = past[entry.tag][1]
    /\ entry.stride # 0 => /\ Len(past[entry.tag]) >= 2
                           /\ entry.stride = past[entry.tag][1] - past[entry.tag][2]

Lookahead == [address : Int, stride : Int, degree : 1 .. PREFETCH_DEGREE]

StrideInv ==
    /\ table \in Seq(StrideEntry) /\ OncePerTag(table) /\ Len(table) <= TRACKER_WAYS
    /\ past \in [IPs -> Seq(Block)]
    /\ \A i \in 1 .. Len(table) : Remembers(table[i])
    /\ active_lookahead \in Lookahead \cup {NoLookahead}
    /\ active_lookahead # NoLookahead => origin.block \in Int
    /\ LookaheadContinuesStride

\* A filled entry is the last one.
LEMMA FilledIsLast ==
  ASSUME NEW T, NEW s \in Seq(T), OncePerTag(s), NEW ways \in Nat, Len(s) <= ways, NEW e \in T
  PROVE  LET r == fill(s, ways, e)
         IN  \A i \in 1 .. Len(r) : r[i] = e \/ (r[i].tag # e.tag /\ \E j \in 1 .. Len(s) : r[i] = s[j])
<1> DEFINE r == fill(s, ways, e)
           others == Without(s, e.tag)
           rest == IF Len(others) = ways THEN Tail(others) ELSE others
<1>1. /\ r \in Seq(T) /\ OncePerTag(r) /\ Len(r) \in Nat /\ Len(s) \in Nat
      /\ \A i \in 1 .. Len(r) : r[i] = e \/ \E j \in 1 .. Len(s) : r[i] = s[j]
  BY FilledTable, LenProperties
<1>2. CASE ways = 0
  <2>1. r = s
    BY <1>2 DEF fill
  <2>2. Len(s) = 0
    BY <1>1, <1>2
  <2>3. QED
    BY <2>1, <2>2
<1>3. CASE ways # 0
  <2>1. r = Append(rest, e)
    BY <1>3 DEF fill
  <2>2. others \in Seq(T)
    BY WithoutTag
  <2>3. rest \in Seq(T)
    <3>1. CASE Len(others) = ways
      <4>1. others # << >>
        BY <1>3, <3>1, EmptySeq
      <4>2. QED
        BY <2>2, <3>1, <4>1, HeadTailProperties
    <3>2. QED
      BY <2>2, <3>1
  <2> HIDE DEF rest, r
  <2>4. Len(r) = Len(rest) + 1 /\ r[Len(r)] = e /\ Len(r) \in 1 .. Len(r)
    BY <2>1, <2>3, AppendProperties, LenProperties
  <2>5. ASSUME NEW i \in 1 .. Len(r), r[i].tag = e.tag
        PROVE  r[i] = e
    BY <1>1, <2>4, <2>5 DEF OncePerTag
  <2>6. QED
    BY <1>1, <2>5 DEF r
<1>4. QED
  BY <1>2, <1>3

\* An access is put before the past ones of its instruction.
LEMMA StrideOperate ==
  ASSUME StrideInv, NEW ip \in IPs, NEW b \in Block, Operate(ip, b)
  PROVE  StrideInv'
<1> DEFINE known  == ip \in Tags(table)
           found  == EntryOf(table, ip)
           stride == IF known THEN b - found.block ELSE 0
           old    == past[ip]
           now    == <<b>> \o old
           entry  == [tag |-> ip, block |-> b, stride |-> stride]
           hit    == check_hit(table, ip)
           confirmed == known /\ Confirmed(found, stride)
<1>1. /\ past' = [past EXCEPT ![ip] = now]
      /\ table' = fill(hit, TRACKER_WAYS, entry)
      /\ IF confirmed
           THEN /\ active_lookahead' = [address |-> b, stride |-> stride,
                                        degree |-> PREFETCH_DEGREE]
                /\ origin' = [ip |-> ip, block |-> b, past |-> now]
           ELSE UNCHANGED <<active_lookahead, origin>>
  BY DEF Operate
<1>2. /\ table \in Seq(StrideEntry) /\ OncePerTag(table) /\ Len(table) <= TRACKER_WAYS
      /\ past \in [IPs -> Seq(Block)] /\ TRACKER_WAYS \in Nat /\ Block \subseteq Int
      /\ PREFETCH_DEGREE \in Nat \ {0}
      /\ \A i \in 1 .. Len(table) : Remembers(table[i])
  BY StrideAssumption DEF StrideInv
<1> HIDE DEF now, old
<1>3. /\ old \in Seq(Block) /\ Len(old) \in Nat
      /\ now \in Seq(Block) /\ Len(now) = Len(old) + 1 /\ now[1] = b
      /\ \A i \in 1 .. Len(old) : now[i + 1] = old[i] /\ old[i] \in Int
  <2>1. old \in Seq(Block) /\ Len(old) \in Nat /\ \A i \in 1 .. Len(old) : old[i] \in Int
    BY <1>2, LenProperties, ElementOfSeq DEF old
  <2>2. <<b>> \in Seq(Block) /\ Len(<<b>>) = 1 /\ <<b>>[1] = b
    OBVIOUS
  <2>3. /\ now \in Seq(Block) /\ Len(now) = 1 + Len(old)
        /\ \A i \in 1 .. 1 + Len(old) : now[i] = IF i <= 1 THEN <<b>>[i] ELSE old[i - 1]
    BY <2>1, <2>2, ConcatProperties DEF now
  <2>4. \A i \in 1 .. Len(old) : i + 1 \in 1 .. 1 + Len(old) /\ ~(i + 1 <= 1) /\ (i + 1) - 1 = i
    BY <2>1
  <2>5. 1 \in 1 .. 1 + Len(old)
    BY <2>1
  <2>6. QED
    BY <2>1, <2>2, <2>3, <2>4, <2>5
<1>4. known => /\ found \in StrideEntry /\ found.tag = ip /\ Remembers(found)
               /\ Len(old) >= 1 /\ found.block = old[1]
               /\ found.stride # 0 => Len(old) >= 2 /\ found.stride = old[1] - old[2]
  <2> SUFFICES ASSUME known
               PROVE  found \in StrideEntry /\ found.tag = ip /\ Remembers(found)
    BY DEF Remembers, old
  <2>1. PlaceOf(table, ip) \in 1 .. Len(table) /\ found.tag = ip
    BY <1>2, PlaceOfTag DEF EntryOf
  <2>2. found = table[PlaceOf(table, ip)]
    BY DEF EntryOf
  <2>3. QED
    BY <1>2, <2>1, <2>2, ElementOfSeq
<1>5. /\ stride \in Int /\ entry \in StrideEntry
      /\ stride # 0 => known /\ Len(now) >= 2 /\ stride = now[1] - now[2]
  <2>1. known => /\ stride = now[1] - now[2] /\ Len(now) >= 2 /\ stride \in Int
    <3> SUFFICES ASSUME known PROVE stride = now[1] - now[2] /\ Len(now) >= 2 /\ stride \in Int
      OBVIOUS
    <3>1. 1 \in 1 .. Len(old) /\ 1 + 1 = 2
      BY <1>3, <1>4
    <3>2. now[2] = old[1] /\ old[1] \in Int /\ b \in Int
      BY <1>2, <1>3, <3>1
    <3>3. stride = b - old[1]
      BY <1>4
    <3>4. QED
      BY <1>3, <3>1, <3>2, <3>3
  <2>2. ~known => stride = 0
    OBVIOUS
  <2> HIDE DEF stride, known
  <2>3. stride \in Int
    BY <2>1, <2>2
  <2>4. QED
    BY <2>1, <2>2, <2>3 DEF StrideEntry
<1>6. /\ table' \in Seq(StrideEntry) /\ OncePerTag(table') /\ Len(table') <= TRACKER_WAYS
      /\ \A i \in 1 .. Len(table') :
            \/ table'[i] = entry
            \/ table'[i].tag # ip /\ \E j \in 1 .. Len(table) : table'[i] = table[j]
  <2> HIDE DEF entry, hit
  <2>1. /\ hit \in Seq(StrideEntry) /\ OncePerTag(hit) /\ Len(hit) = Len(table)
        /\ \A i \in 1 .. Len(hit) : \E j \in 1 .. Len(table) : hit[i] = table[j]
    BY <1>2, UsedTable DEF hit
  <2>2. /\ table' \in Seq(StrideEntry) /\ OncePerTag(table') /\ Len(table') <= TRACKER_WAYS
    BY <1>1, <1>2, <1>5, <2>1, FilledTable
  <2>3. \A i \in 1 .. Len(table') :
            \/ table'[i] = entry
            \/ table'[i].tag # entry.tag /\ \E j \in 1 .. Len(hit) : table'[i] = hit[j]
    <3> DEFINE r == fill(hit, TRACKER_WAYS, entry)
    <3>1. \A i \in 1 .. Len(r) : r[i] = entry \/ (r[i].tag # entry.tag /\ \E j \in 1 .. Len(hit) : r[i] = hit[j])
      BY <1>2, <1>5, <2>1, FilledIsLast
    <3>2. table' = r
      BY <1>1
    <3> HIDE DEF r
    <3>3. QED
      BY <3>1, <3>2
  <2>4. entry.tag = ip
    BY DEF entry
  <2>5. ASSUME NEW i \in 1 .. Len(table'), table'[i] # entry
        PROVE  table'[i].tag # ip /\ \E j \in 1 .. Len(table) : table'[i] = table[j]
    <3>1. PICK j \in 1 .. Len(hit) : table'[i] = hit[j]
      BY <2>3, <2>5
    <3>2. QED
      BY <2>1, <2>3, <2>4, <2>5, <3>1
  <2>6. QED
    BY <2>2, <2>5
<1>7. past' \in [IPs -> Seq(Block)] /\ past'[ip] = now /\ \A x \in IPs : x # ip => past'[x] = past[x]
  BY <1>1, <1>2, <1>3
<1>8. ASSUME NEW i \in 1 .. Len(table')
      PROVE  Remembers(table[i])'
  <2>1. CASE table'[i] = entry
    <3>1. entry.tag = ip /\ entry.block = b /\ entry.stride = stride
      OBVIOUS
    <3> HIDE DEF entry, stride
    <3>2. QED
      BY <1>3, <1>5, <1>7, <2>1, <3>1 DEF Remembers
  <2>2. CASE table'[i].tag # ip /\ \E j \in 1 .. Len(table) : table'[i] = table[j]
    <3>1. PICK j \in 1 .. Len(table) : table'[i] = table[j]
      BY <2>2
    <3>2. table[j].tag \in IPs
      <4>1. table[j] \in StrideEntry
        BY <1>2, ElementOfSeq
      <4>2. QED
        BY <4>1 DEF StrideEntry
    <3>3. QED
      BY <1>2, <1>7, <2>2, <3>1, <3>2 DEF Remembers
  <2>3. QED
    BY <1>6, <2>1, <2>2
<1>9. /\ active_lookahead' \in Lookahead \cup {NoLookahead}
      /\ active_lookahead' # NoLookahead => origin'.block \in Int
      /\ LookaheadContinuesStride'
  <2>1. CASE confirmed
    <3>1. /\ active_lookahead' = [address |-> b, stride |-> stride, degree |-> PREFETCH_DEGREE]
          /\ origin' = [ip |-> ip, block |-> b, past |-> now]
      BY <1>1, <2>1
    <3>2. stride # 0 /\ stride = found.stride /\ known
      BY <2>1 DEF Confirmed
    <3>3. /\ Len(now) >= 3 /\ stride = now[1] - now[2] /\ stride = now[2] - now[3]
      <4>1. Len(old) >= 2 /\ stride = old[1] - old[2]
        BY <1>4, <3>2
      <4>2. now[2] = old[1] /\ now[3] = old[2]
        <5>1. 1 \in 1 .. Len(old) /\ 2 \in 1 .. Len(old) /\ 1 + 1 = 2 /\ 2 + 1 = 3
          BY <1>3, <4>1
        <5>2. QED
          BY <1>3, <5>1
      <4>3. stride = now[1] - now[2]
        BY <1>5, <3>2
      <4>4. QED
        BY <1>3, <4>1, <4>2, <4>3
    <3> HIDE DEF stride, found, known
    <3>4. b \in Int /\ PREFETCH_DEGREE \in 1 .. PREFETCH_DEGREE /\ stride \in Int
      BY <1>2, <1>5
    <3>5. /\ active_lookahead'.degree = PREFETCH_DEGREE /\ active_lookahead'.stride = stride
          /\ active_lookahead'.address = b /\ origin'.block = b /\ origin'.past = now
          /\ active_lookahead' \in Lookahead
      BY <3>1, <3>4 DEF Lookahead
    <3>6. b + stride * (PREFETCH_DEGREE - PREFETCH_DEGREE) = b
      BY <3>4
    <3>7. \A i \in 1 .. 2 : now[i] - now[i + 1] = stride
      BY <3>3
    <3>8. QED
      BY <3>3, <3>4, <3>5, <3>6, <3>7 DEF LookaheadContinuesStride
  <2>2. CASE ~confirmed
    <3>1. UNCHANGED <<active_lookahead, origin>>
      BY <1>1, <2>2
    <3>2. QED
      BY <3>1 DEF StrideInv, LookaheadContinuesStride
  <2>3. QED
    BY <2>1, <2>2
<1>10. QED
  BY <1>6, <1>7, <1>8, <1>9 DEF StrideInv

\* A prefetch follows the stride.
LEMMA StrideCycle ==
  ASSUME StrideInv, NEW success \in BOOLEAN, CycleOperate(success)
  PROVE  StrideInv'
<1> DEFINE a == active_lookahead
           next == a.address + a.stride
<1>1. a \in Lookahead /\ a # NoLookahead /\ origin.block \in Int /\ PREFETCH_DEGREE \in Nat
  BY StrideAssumption DEF CycleOperate, StrideInv
<1>2. /\ a.address \in Int /\ a.stride \in Int /\ a.degree \in 1 .. PREFETCH_DEGREE /\ next \in Int
  BY <1>1 DEF Lookahead
<1>3. UNCHANGED <<table, origin, past>>
  BY DEF CycleOperate
<1>4. /\ table' \in Seq(StrideEntry) /\ OncePerTag(table') /\ Len(table') <= TRACKER_WAYS
      /\ past' \in [IPs -> Seq(Block)]
      /\ (\A i \in 1 .. Len(table) : Remembers(table[i]))'
  BY <1>3 DEF StrideInv, Remembers
<1>5. CASE a' = NoLookahead
  BY <1>4, <1>5 DEF StrideInv, LookaheadContinuesStride
<1>6. CASE a' = a
  BY <1>3, <1>4, <1>6 DEF StrideInv, LookaheadContinuesStride
<1>7. CASE /\ a' = [a EXCEPT !.address = next, !.degree = @ - 1] /\ a.degree # 1
           /\ virtual_prefetch \/ page(next) = page(a.address)
  <2>1. a'.address = next /\ a'.stride = a.stride /\ a'.degree = a.degree - 1 /\ a' \in Lookahead
    <3>1. a.degree - 1 \in 1 .. PREFETCH_DEGREE
      BY <1>1, <1>2, <1>7
    <3>2. QED
      BY <1>1, <1>2, <1>7, <3>1 DEF Lookahead
  <2>2. /\ a.address = origin.block + a.stride * (PREFETCH_DEGREE - a.degree)
        /\ Len(origin.past) >= 3
        /\ \A i \in 1 .. 2 : origin.past[i] - origin.past[i + 1] = a.stride
        /\ virtual_prefetch \/ page(a.address) = page(origin.block)
    BY <1>1 DEF StrideInv, LookaheadContinuesStride
  <2>3. next = origin.block + a.stride * (PREFETCH_DEGREE - (a.degree - 1))
    <3> DEFINE k == PREFETCH_DEGREE - a.degree
               s == a.stride
    <3>1. k \in Int /\ s \in Int /\ PREFETCH_DEGREE - (a.degree - 1) = k + 1
      BY <1>1, <1>2
    <3> HIDE DEF k, s
    <3>2. s * (k + 1) = s * k + s /\ s * k \in Int
      BY <3>1
    <3>3. a.address = origin.block + s * k
      BY <2>2 DEF k, s
    <3>4. next = origin.block + (s * k + s)
      BY <1>1, <3>1, <3>2, <3>3 DEF s
    <3>5. QED
      BY <3>1, <3>2, <3>4 DEF s
  <2>4. virtual_prefetch \/ page(next) = page(origin.block)
    BY <1>7, <2>2
  <2>5. origin' = origin /\ a'.degree \in 1 .. PREFETCH_DEGREE
    BY <1>3, <2>1 DEF Lookahead
  <2> HIDE DEF next
  <2>6. LookaheadContinuesStride'
    BY <2>1, <2>2, <2>3, <2>4, <2>5 DEF LookaheadContinuesStride
  <2>7. QED
    BY <1>1, <1>4, <2>1, <2>5, <2>6 DEF StrideInv
<1>8. a' = NoLookahead \/ a' = a
      \/ /\ a' = [a EXCEPT !.address = next, !.degree = @ - 1] /\ a.degree # 1
         /\ virtual_prefetch \/ page(next) = page(a.address)
  BY DEF CycleOperate
<1>9. QED
  BY <1>5, <1>6, <1>7, <1>8

\* What is prefetched continues the last three accesses of one instruction
\* (ip_stride.cc:17-20, 35-44), for any instructions and blocks, any ways of the
\* table, any degree, and pages of any size.
THEOREM PrefetchesContinueStride == StrideSpec => []LookaheadContinuesStride
<1>1. StrideInit => StrideInv
  <2> SUFFICES ASSUME StrideInit PROVE StrideInv
    OBVIOUS
  <2>1. /\ table = << >> /\ active_lookahead = NoLookahead /\ past = [ip \in IPs |-> << >>]
    BY DEF StrideInit
  <2>2. << >> \in Seq(StrideEntry) /\ Len(<< >>) = 0 /\ << >> \in Seq(Block)
    OBVIOUS
  <2>3. OncePerTag(<< >>)
    BY <2>2 DEF OncePerTag
  <2>4. past \in [IPs -> Seq(Block)]
    BY <2>1, <2>2
  <2>5. Len(table) = 0 /\ Len(table) <= TRACKER_WAYS
    BY StrideAssumption, <2>1, <2>2
  <2>6. table \in Seq(StrideEntry) /\ OncePerTag(table)
    BY <2>1, <2>2, <2>3
  <2>7. QED
    BY <2>1, <2>4, <2>5, <2>6 DEF StrideInv, LookaheadContinuesStride
<1>2. StrideInv /\ [StrideNext]_strideVars => StrideInv'
  <2> SUFFICES ASSUME StrideInv, [StrideNext]_strideVars PROVE StrideInv'
    OBVIOUS
  <2>1. CASE UNCHANGED strideVars
    BY <2>1 DEF strideVars, StrideInv, Remembers, LookaheadContinuesStride
  <2>2. CASE StrideNext
    BY <2>2, StrideOperate, StrideCycle DEF StrideNext
  <2>3. QED
    BY <2>1, <2>2
<1>3. StrideInv => LookaheadContinuesStride
  BY DEF StrideInv
<1>4. QED
  BY <1>1, <1>2, <1>3, PTL DEF StrideSpec

-----------------------------------------------------------------------------
(* The trace reader. *)

TargetOf(i) == IF trace[i] THEN i + 1 ELSE 0

\* A buffer holds the instructions before a place of the trace, all but the last with
\* their targets.
HoldsUpTo(buffer, place) ==
    LET n == Len(buffer)
    IN  /\ buffer \in Seq([ip : 1 .. Len(trace), target : 0 .. Len(trace)])
        /\ n <= place
        /\ \A i \in 1 .. n :
              /\ buffer[i].ip = place - n + i
              /\ buffer[i].target = IF i < n THEN TargetOf(place - n + i) ELSE 0

\* The instruction before those in the buffer was delivered last.
ReaderInv ==
    /\ trace \in Traces /\ repeats \in BOOLEAN
    /\ position \in 0 .. Len(trace)
    /\ HoldsUpTo(instr_buffer, position)
    /\ file_eof => position = Len(trace)
    /\ ~file_eof /\ position > 0 => Len(instr_buffer) >= 1
    /\ latest.ip = position - Len(instr_buffer)
    /\ TraceInOrder

\* Reading a block keeps what is in the buffer and gives it a successor, if there is one.
LEMMA RefilledHolds ==
  ASSUME trace \in Traces, NEW from \in 0 .. Len(trace), NEW kept,
         HoldsUpTo(kept, from), Len(kept) = 1 \/ (Len(kept) = 0 /\ from = 0)
  PROVE  LET r == Refilled(kept, from)
             to == from + Read(from)
         IN  /\ to \in 0 .. Len(trace)
             /\ HoldsUpTo(r, to)
             /\ Len(r) >= 1 /\ to - Len(r) = from - Len(kept)
             /\ IF from + buffer_size - refresh_thresh > Len(trace)
                  THEN to = Len(trace) ELSE Len(r) >= 2
<1> DEFINE last == Len(trace)
           k == Len(kept)
           d == Read(from)
           added == [i \in 1 .. d |-> [ip |-> from + i, target |-> 0]]
           b == kept \o added
           m == k + d
           r == Refilled(kept, from)
           R == [ip : 1 .. last, target : 0 .. last]
<1>1. /\ last \in Nat /\ last >= 1 /\ k \in {0, 1} /\ from \in Nat
      /\ \A i \in 1 .. last : trace[i] \in BOOLEAN
  <2>1. trace \in Seq(BOOLEAN) /\ trace # << >>
    BY ReaderAssumption
  <2>2. last \in Nat /\ last # 0
    BY <2>1, LenProperties, EmptySeq
  <2>3. \A i \in 1 .. last : trace[i] \in BOOLEAN
    BY <2>1, ElementOfSeq
  <2>4. from \in Nat
    BY <2>2
  <2>5. QED
    BY <2>2, <2>3, <2>4
<1>2. /\ d \in Nat /\ from + d \in 0 .. last
      /\ IF from + buffer_size - refresh_thresh > last THEN from + d = last ELSE d >= 2
      /\ from = 0 => d >= 1
  BY ReaderAssumption, <1>1 DEF Read
<1> HIDE DEF d, last
<1>3. added \in Seq(R) /\ Len(added) = d /\ \A i \in 1 .. d : added[i] = [ip |-> from + i, target |-> 0]
  <2>1. \A i \in 1 .. d : from + i \in 1 .. last /\ 0 \in 0 .. last
    BY <1>1, <1>2
  <2>2. added \in [1 .. d -> R]
    BY <2>1
  <2>3. \A i \in 1 .. d : added[i] = [ip |-> from + i, target |-> 0]
    OBVIOUS
  <2> HIDE DEF added, R
  <2>4. added \in Seq(R) /\ Len(added) = d
    BY <1>2, <2>2, FunctionIsSequence
  <2>5. QED
    BY <2>3, <2>4
<1> HIDE DEF added
<1>4. /\ kept \in Seq(R)
      /\ \A i \in 1 .. k : /\ kept[i].ip = from - k + i
                           /\ kept[i].target = 0
  <2>1. \A i \in 1 .. k : ~(i < k)
    BY <1>1
  <2>2. QED
    BY <2>1 DEF HoldsUpTo, last
<1> HIDE DEF k
<1>5. /\ b \in Seq(R) /\ Len(b) = m /\ m \in Nat
      /\ \A i \in 1 .. m : b[i] = IF i <= k THEN kept[i] ELSE added[i - k]
  <2> HIDE DEF R
  <2>1. /\ b \in Seq(R) /\ Len(b) = Len(kept) + Len(added)
        /\ \A i \in 1 .. Len(kept) + Len(added) :
              b[i] = IF i <= Len(kept) THEN kept[i] ELSE added[i - Len(kept)]
    BY <1>3, <1>4, ConcatProperties
  <2>2. Len(kept) = k /\ Len(added) = d /\ k \in Nat
    BY <1>1, <1>3 DEF k
  <2> HIDE DEF b
  <2>3. QED
    BY <1>2, <2>1, <2>2
<1> HIDE DEF b
<1>6. \A i \in 1 .. m : b[i] \in R /\ b[i].ip = from - k + i /\ b[i].target = 0
  <2> SUFFICES ASSUME NEW i \in 1 .. m PROVE b[i] \in R /\ b[i].ip = from - k + i /\ b[i].target = 0
    OBVIOUS
  <2>1. b[i] \in R
    BY <1>5, ElementOfSeq
  <2>2. CASE i <= k
    <3>1. i \in 1 .. k /\ b[i] = kept[i]
      BY <1>1, <1>5, <2>2
    <3>2. QED
      BY <1>4, <2>1, <3>1
  <2>3. CASE ~(i <= k)
    <3>1. i - k \in 1 .. d /\ b[i] = added[i - k] /\ from + (i - k) = from - k + i
      <4>1. b[i] = added[i - k]
        BY <1>5, <2>3
      <4>2. k \in Int /\ d \in Int /\ from \in Int /\ i \in Int /\ 1 <= i /\ i <= k + d
        BY <1>1, <1>2
      <4> HIDE DEF m
      <4>3. i - k \in 1 .. d /\ from + (i - k) = from - k + i
        BY <2>3, <4>2
      <4>4. QED
        BY <4>1, <4>3
    <3>2. QED
      BY <1>3, <2>1, <3>1
  <2>4. QED
    BY <2>2, <2>3
<1>7. r = [i \in 1 .. m |-> IF i = m THEN b[i]
                            ELSE [b[i] EXCEPT !.target = IF trace[b[i].ip] THEN b[i + 1].ip ELSE 0]]
  <2>1. DOMAIN b = 1 .. m
    BY <1>5, LenProperties
  <2>2. QED
    BY <1>5, <2>1 DEF Refilled, Targeted, b, added, d
<1>8. ASSUME NEW i \in 1 .. m
      PROVE  /\ r[i] \in R /\ r[i].ip = from - k + i
             /\ r[i].target = IF i < m THEN TargetOf(from - k + i) ELSE 0
  <2>1. CASE i = m
    <3>1. r[i] = b[i] /\ ~(i < m)
      BY <1>5, <1>7, <2>1
    <3>2. QED
      BY <1>6, <3>1
  <2>2. CASE i # m
    <3>1. i < m /\ i + 1 \in 1 .. m
      BY <1>5, <2>2
    <3> DEFINE t == IF trace[b[i].ip] THEN b[i + 1].ip ELSE 0
    <3>2. r[i] = [b[i] EXCEPT !.target = t]
      BY <1>7, <2>2
    <3>3. b[i + 1].ip = b[i].ip + 1 /\ b[i + 1].ip \in 1 .. last /\ b[i].ip = from - k + i
      <4>1. b[i + 1].ip = from - k + (i + 1) /\ b[i + 1] \in R /\ b[i].ip = from - k + i
        BY <1>6, <3>1
      <4>2. from - k + (i + 1) = (from - k + i) + 1
        BY <1>1
      <4>3. QED
        BY <4>1, <4>2
    <3>4. t = TargetOf(from - k + i) /\ t \in 0 .. last
      BY <1>1, <3>3 DEF TargetOf
    <3> HIDE DEF t
    <3>5. b[i] \in R
      BY <1>6
    <3>6. r[i] \in R /\ r[i].ip = b[i].ip /\ r[i].target = t
      BY <3>2, <3>4, <3>5
    <3>7. QED
      BY <3>1, <3>3, <3>4, <3>6
  <2>3. QED
    BY <2>1, <2>2
<1>9. r \in Seq(R) /\ Len(r) = m
  <2>1. r \in [1 .. m -> R]
    BY <1>7, <1>8
  <2>2. QED
    BY <1>5, <2>1, FunctionIsSequence
<1> HIDE DEF r
<1>10. m >= 1 /\ m <= from + d /\ (from + d) - m = from - k /\ (d >= 2 => m >= 2)
  <2>1. k = 1 \/ (k = 0 /\ from = 0)
    BY DEF k
  <2>2. k <= from
    BY DEF HoldsUpTo, k
  <2>3. QED
    BY <1>1, <1>2, <2>1, <2>2
<1>11. HoldsUpTo(r, from + d)
  BY <1>8, <1>9, <1>10 DEF HoldsUpTo, last
<1>12. QED
  BY <1>2, <1>9, <1>10, <1>11 DEF r, d, k, last

LEMMA ReaderStep ==
  ASSUME ReaderInv, ReaderNext
  PROVE  ReaderInv'
<1> DEFINE last == Len(trace)
           again  == repeats /\ BulkEof
           from   == IF again THEN 0 ELSE position
           kept   == IF again THEN << >> ELSE instr_buffer
           refill == NeedsRefill(kept)
           buffer == IF refill THEN Refilled(kept, from) ELSE kept
           n == Len(instr_buffer)
           m == Len(buffer)
           to == position'
<1>1. /\ ~eof
      /\ to = IF refill THEN from + Read(from) ELSE from
      /\ file_eof' = IF refill THEN from + buffer_size - refresh_thresh > last ELSE file_eof
      /\ instr_buffer' = Tail(buffer) /\ latest' = Head(buffer) /\ previous' = latest
      /\ UNCHANGED <<trace, repeats>>
  BY DEF ReaderNext
<1>2. /\ trace \in Traces /\ repeats \in BOOLEAN /\ last \in Nat
      /\ position \in 0 .. last /\ position \in Nat /\ n \in Nat /\ n <= position
      /\ HoldsUpTo(instr_buffer, position)
      /\ file_eof => position = last
      /\ ~file_eof /\ position > 0 => n >= 1
      /\ latest.ip = position - n
  <2>1. last \in Nat /\ n \in Nat
    BY ReaderAssumption, LenProperties DEF ReaderInv, HoldsUpTo
  <2>2. QED
    BY <2>1 DEF ReaderInv, HoldsUpTo
<1>3. again => file_eof /\ n <= 1 /\ position = last
  BY ReaderAssumption, <1>2 DEF BulkEof
<1>4. ~again => ~(file_eof /\ n = 0)
  BY ReaderAssumption, <1>1 DEF eof, BulkEof
<1>5. IF again THEN kept = << >> /\ from = 0 ELSE kept = instr_buffer /\ from = position
  OBVIOUS
<1>6. refill <=> NeedsRefill(kept)
  OBVIOUS
<1>7. /\ refill => buffer = Refilled(kept, from)
      /\ ~refill => buffer = kept
  OBVIOUS
<1> HIDE DEF kept, from, refill, buffer, again
<1>8. /\ HoldsUpTo(kept, from) /\ from \in 0 .. last /\ Len(kept) \in Nat
      /\ from - Len(kept) = IF again THEN 0 ELSE latest.ip
  <2>1. CASE again
    <3>1. kept = << >> /\ from = 0 /\ Len(<< >>) = 0
      BY <1>5, <2>1
    <3>2. HoldsUpTo(<< >>, 0)
      BY <3>1 DEF HoldsUpTo
    <3>3. Len(kept) = 0 /\ from = 0 /\ HoldsUpTo(kept, from)
      BY <3>1, <3>2
    <3>4. QED
      BY <1>2, <2>1, <3>3
  <2>2. CASE ~again
    BY <1>2, <1>5, <2>2
  <2>3. QED
    BY <2>1, <2>2
<1>9. Len(kept) = 1 \/ (Len(kept) = 0 /\ from = 0) \/ ~refill
  <2>1. CASE again
    <3>1. kept = << >> /\ from = 0 /\ Len(<< >>) = 0
      BY <1>5, <2>1
    <3>2. QED
      BY <3>1
  <2>2. CASE ~again
    <3>1. refill <=> n <= 1
      BY ReaderAssumption, <1>5, <1>6, <2>2 DEF NeedsRefill
    <3>2. n = 0 => position = 0
      BY <1>2, <1>4, <2>2
    <3>3. Len(kept) = n /\ from = position
      BY <1>5, <2>2
    <3>4. QED
      BY <1>2, <3>1, <3>2, <3>3
  <2>3. QED
    BY <2>1, <2>2
<1>10. ~refill => ~again /\ Len(kept) >= 2
  <2>1. ~refill => Len(kept) >= 2
    BY ReaderAssumption, <1>8, <1>6 DEF NeedsRefill
  <2>2. again => Len(kept) = 0
    BY <1>5
  <2>3. QED
    BY <2>1, <2>2
<1>11. /\ to \in 0 .. last /\ HoldsUpTo(buffer, to)
      /\ m \in Nat /\ m >= 1 /\ to - m = from - Len(kept)
      /\ IF file_eof' THEN to = last ELSE m >= 2
  <2>1. CASE refill
    <3>1. /\ from + Read(from) \in 0 .. last
          /\ HoldsUpTo(Refilled(kept, from), from + Read(from))
          /\ Len(Refilled(kept, from)) >= 1
          /\ (from + Read(from)) - Len(Refilled(kept, from)) = from - Len(kept)
          /\ IF from + buffer_size - refresh_thresh > last
               THEN from + Read(from) = last ELSE Len(Refilled(kept, from)) >= 2
      BY <1>2, <1>8, <1>9, <2>1, RefilledHolds
    <3>2. Len(Refilled(kept, from)) \in Nat
      BY <3>1, LenProperties DEF HoldsUpTo
    <3>3. /\ to = from + Read(from) /\ buffer = Refilled(kept, from)
          /\ file_eof' <=> from + buffer_size - refresh_thresh > last
      <4>1. file_eof' = (from + buffer_size - refresh_thresh > last)
        BY <1>1, <2>1
      <4>2. QED
        BY <1>1, <1>7, <2>1, <4>1
    <3>4. to \in 0 .. last /\ HoldsUpTo(buffer, to)
          /\ IF file_eof' THEN to = last ELSE m >= 2
      BY <3>1, <3>3
    <3>5. m \in Nat /\ m >= 1 /\ to - m = from - Len(kept)
      BY <3>1, <3>2, <3>3
    <3>6. QED
      BY <3>3, <3>4, <3>5
  <2>2. CASE ~refill
    <3>1. to = position /\ buffer = instr_buffer /\ file_eof' = file_eof /\ from = position
          /\ kept = instr_buffer
      BY <1>1, <1>10, <1>5, <1>7, <2>2
    <3>2. QED
      BY <1>2, <1>10, <2>2, <3>1
  <2>3. QED
    BY <2>1, <2>2
<1>12. m = 1 => to = last
  <2>1. file_eof' \/ m >= 2
    BY <1>11
  <2>2. QED
    BY <1>11, <2>1
<1>13. /\ buffer \in Seq([ip : 1 .. last, target : 0 .. last]) /\ m <= to
       /\ \A i \in 1 .. m : /\ buffer[i].ip = to - m + i
                            /\ buffer[i].target = IF i < m THEN TargetOf(to - m + i) ELSE 0
  BY <1>11 DEF HoldsUpTo
<1>14. /\ Tail(buffer) \in Seq([ip : 1 .. last, target : 0 .. last]) /\ Len(Tail(buffer)) = m - 1
       /\ \A i \in 1 .. m - 1 : Tail(buffer)[i] = buffer[i + 1]
       /\ Head(buffer) = buffer[1]
  <2>1. buffer # << >>
    BY <1>11
  <2>2. QED
    BY <1>11, <1>13, <2>1, HeadTailProperties
<1> HIDE DEF m
<1>15. HoldsUpTo(Tail(buffer), to)
  <2> DEFINE t == Tail(buffer)
  <2>1. /\ t \in Seq([ip : 1 .. last, target : 0 .. last]) /\ Len(t) = m - 1
        /\ \A i \in 1 .. m - 1 : t[i] = buffer[i + 1]
    BY <1>14
  <2>2. m - 1 <= to
    BY <1>2, <1>11, <1>13
  <2> HIDE DEF t
  <2> SUFFICES ASSUME NEW i \in 1 .. m - 1
               PROVE  /\ t[i].ip = to - (m - 1) + i
                      /\ t[i].target = IF i < m - 1 THEN TargetOf(to - (m - 1) + i) ELSE 0
    BY <2>1, <2>2 DEF HoldsUpTo, t
  <2>3. i + 1 \in 1 .. m /\ to - m + (i + 1) = to - (m - 1) + i /\ (i + 1 < m <=> i < m - 1)
    BY <1>2, <1>11
  <2>4. QED
    BY <1>13, <2>1, <2>3
<1>16. /\ latest'.ip = to - m + 1
       /\ latest'.target = IF m > 1 THEN TargetOf(to - m + 1) ELSE 0
  <2>1. 1 \in 1 .. m /\ (1 < m <=> m > 1)
    BY <1>11
  <2>2. QED
    BY <1>1, <1>13, <1>14, <2>1
<1>17. /\ trace' = trace /\ repeats' = repeats /\ instr_buffer' = Tail(buffer)
       /\ Len(instr_buffer') = m - 1 /\ previous' = latest
  BY <1>1, <1>14
<1>18. to - m + 1 = to - (m - 1) /\ to \in Int
  BY <1>2, <1>11
<1>19. \/ latest'.ip = previous'.ip + 1
       \/ latest'.ip = 1 /\ repeats' /\ previous'.ip >= last - 1
  <2>1. CASE again
    <3>1. latest'.ip = 1
      <4>1. to - m = 0
        BY <1>8, <1>11, <2>1
      <4>2. QED
        BY <1>16, <4>1
    <3>2. previous'.ip >= last - 1
      BY <1>2, <1>3, <1>17, <2>1
    <3>3. QED
      BY <1>17, <2>1, <3>1, <3>2 DEF again
  <2>2. CASE ~again
    BY <1>8, <1>11, <1>16, <1>17, <2>2
  <2>3. QED
    BY <2>1, <2>2
<1>20. latest'.target = IF latest'.ip < last /\ trace[latest'.ip] THEN latest'.ip + 1 ELSE 0
  <2>1. CASE m > 1
    <3>1. to - m + 1 < last
      BY <1>2, <1>11, <2>1
    <3>2. QED
      BY <1>16, <2>1, <3>1 DEF TargetOf
  <2>2. CASE ~(m > 1)
    <3>1. m = 1 /\ to = last /\ ~(to - m + 1 < last)
      <4>1. m = 1
        BY <1>11, <2>2
      <4>2. to = last
        BY <1>12, <4>1
      <4>3. QED
        BY <1>2, <4>1, <4>2
    <3>2. QED
      BY <1>16, <2>2, <3>1
  <2>3. QED
    BY <2>1, <2>2
<1>21. eof' => latest'.ip >= last - 1
  <2> SUFFICES ASSUME eof' PROVE latest'.ip >= last - 1
    OBVIOUS
  <2>1. file_eof' /\ m - 1 <= 1
    BY ReaderAssumption, <1>17 DEF eof, BulkEof
  <2>2. QED
    BY <1>2, <1>11, <1>16, <2>1
<1>22. TraceInOrder'
  BY <1>17, <1>19, <1>20, <1>21 DEF TraceInOrder
<1>23. QED
  <2>1. HoldsUpTo(instr_buffer, position)'
    BY <1>15, <1>17 DEF HoldsUpTo, TargetOf
  <2>2. latest'.ip = position' - Len(instr_buffer')
    BY <1>16, <1>17, <1>18
  <2>3. ~file_eof' /\ position' > 0 => Len(instr_buffer') >= 1
    BY <1>11, <1>17
  <2>4. QED
    BY <1>2, <1>11, <1>17, <1>22, <2>1, <2>2, <2>3 DEF ReaderInv

\* Instructions are read in the order of their trace, each taken branch with its
\* target, across blocks and repetitions (tracereader.h:102-139), for any trace that
\* has an instruction and any length of the buffer, with the threshold of the code.
THEOREM TraceIsReadInOrder == ReaderSpec => []TraceInOrder
<1>1. ReaderInit => ReaderInv
  <2> SUFFICES ASSUME ReaderInit PROVE ReaderInv
    OBVIOUS
  <2>1. /\ trace \in Seq(BOOLEAN) /\ trace \in Traces /\ repeats \in BOOLEAN
        /\ position = 0 /\ file_eof = FALSE /\ instr_buffer = << >> /\ Len(<< >>) = 0
        /\ latest.ip = 0
    BY ReaderAssumption DEF ReaderInit, None
  <2>2. Len(trace) \in Nat
    BY <2>1, LenProperties
  <2>3. HoldsUpTo(instr_buffer, position)
    BY <2>1 DEF HoldsUpTo
  <2>4. TraceInOrder
    BY <2>1 DEF TraceInOrder, eof, BulkEof
  <2>5. position \in 0 .. Len(trace) /\ ~(position > 0) /\ latest.ip = position - Len(instr_buffer)
    <3>1. Len(instr_buffer) = 0 /\ position = 0 /\ latest.ip = 0
      BY <2>1
    <3>2. QED
      BY <2>2, <3>1
  <2>6. QED
    BY <2>1, <2>3, <2>4, <2>5 DEF ReaderInv
<1>2. ReaderInv /\ [ReaderNext]_readerVars => ReaderInv'
  <2> SUFFICES ASSUME ReaderInv, [ReaderNext]_readerVars PROVE ReaderInv'
    OBVIOUS
  <2>1. CASE ReaderNext
    BY <2>1, ReaderStep
  <2>2. CASE UNCHANGED readerVars
    BY <2>2 DEF readerVars, ReaderInv, HoldsUpTo, TargetOf, TraceInOrder, eof, BulkEof
  <2>3. QED
    BY <2>1, <2>2
<1>3. ReaderInv => TraceInOrder
  BY DEF ReaderInv
<1>4. QED
  BY <1>1, <1>2, <1>3, PTL DEF ReaderSpec

-----------------------------------------------------------------------------
(* The converter of CVP-1 traces. *)

\* The record of a branch has the kind and the outcome of the branch.
LEMMA BranchKept ==
  ASSUME NEW r, IsRecord(r), r.type \in Branches
  PROVE  /\ branch(BranchRecord(r)) = OpType(r)
         /\ branch_taken(BranchRecord(r)) = r.taken
         /\ BranchRecord(r).memory = FALSE
<1> DEFINE o == BranchRecord(r)
           type == OpType(r)
<1>1. /\ o.srcs = SourcesOf(type) /\ o.dsts = DestinationsOf(type) /\ o.is_branch = TRUE
      /\ o.taken = IF type \in {"CONDITIONAL", "DIRECT_JUMP"} THEN r.taken ELSE TRUE
      /\ o.memory = FALSE
  BY DEF BranchRecord
<1>2. r.type \in {"condBranch", "uncondDirectBranch", "uncondIndirectBranch"}
  BY DEF Branches
<1>3. /\ r.type = "condBranch" => type = "CONDITIONAL"
      /\ r.type # "condBranch" => type \in {"RETURN", "INDIRECT_CALL", "DIRECT_CALL", "INDIRECT", "DIRECT_JUMP"}
  BY <1>2 DEF OpType
<1>4. r.type # "condBranch" => r.taken = TRUE
  BY <1>2 DEF IsRecord, Branches
<1> HIDE DEF o, type
<1>5. CASE type = "CONDITIONAL"
  <2>1. o.srcs = {"ip", "flags"} /\ o.dsts = {"ip"}
    BY <1>1, <1>5 DEF SourcesOf, DestinationsOf, InstructionPointer, Flags
  <2>2. branch(o) = "CONDITIONAL"
    BY <2>1 DEF branch, ReadsOther, WritesIP, InstructionPointer, Flags, StackPointer
  <2>3. branch_taken(o) = o.taken
    BY <2>2 DEF branch_taken
  <2>4. QED
    BY <1>1, <1>5, <2>2, <2>3 DEF o, type
<1>6. CASE type = "DIRECT_JUMP"
  <2>1. o.srcs = {} /\ o.dsts = {"ip"}
    BY <1>1, <1>6 DEF SourcesOf, DestinationsOf, InstructionPointer, Flags
  <2>2. branch(o) = "DIRECT_JUMP"
    BY <2>1 DEF branch, ReadsOther, WritesIP, InstructionPointer, Flags, StackPointer
  <2>3. branch_taken(o) = TRUE
    BY <2>2 DEF branch_taken
  <2>4. QED
    BY <1>1, <1>2, <1>3, <1>4, <1>6, <2>2, <2>3 DEF o, type
<1>7. CASE type = "INDIRECT"
  <2>1. o.srcs = {"56"} /\ o.dsts = {"ip"}
    BY <1>1, <1>7 DEF SourcesOf, DestinationsOf, InstructionPointer, AX
  <2>2. branch(o) = "INDIRECT"
    BY <2>1 DEF branch, ReadsOther, WritesIP, InstructionPointer, Flags, StackPointer
  <2>3. branch_taken(o) = TRUE
    BY <2>2 DEF branch_taken
  <2>4. QED
    BY <1>1, <1>2, <1>3, <1>4, <1>7, <2>2, <2>3 DEF o, type
<1>8. CASE type = "INDIRECT_CALL"
  <2>1. o.srcs = {"ip", "sp", "56"} /\ o.dsts = {"ip", "sp"}
    BY <1>1, <1>8 DEF SourcesOf, DestinationsOf, InstructionPointer, StackPointer, AX
  <2>2. branch(o) = "INDIRECT_CALL"
    BY <2>1 DEF branch, ReadsOther, WritesIP, InstructionPointer, Flags, StackPointer
  <2>3. branch_taken(o) = TRUE
    BY <2>2 DEF branch_taken
  <2>4. QED
    BY <1>1, <1>2, <1>3, <1>4, <1>8, <2>2, <2>3 DEF o, type
<1>9. CASE type = "DIRECT_CALL"
  <2>1. o.srcs = {"ip", "sp"} /\ o.dsts = {"ip", "sp"}
    BY <1>1, <1>9 DEF SourcesOf, DestinationsOf, InstructionPointer, StackPointer
  <2>2. branch(o) = "DIRECT_CALL"
    BY <2>1 DEF branch, ReadsOther, WritesIP, InstructionPointer, Flags, StackPointer
  <2>3. branch_taken(o) = TRUE
    BY <2>2 DEF branch_taken
  <2>4. QED
    BY <1>1, <1>2, <1>3, <1>4, <1>9, <2>2, <2>3 DEF o, type
<1>10. CASE type = "RETURN"
  <2>1. o.srcs = {"sp"} /\ o.dsts = {"ip", "sp"}
    BY <1>1, <1>10 DEF SourcesOf, DestinationsOf, InstructionPointer, StackPointer
  <2>2. branch(o) = "RETURN"
    BY <2>1 DEF branch, ReadsOther, WritesIP, InstructionPointer, Flags, StackPointer
  <2>3. branch_taken(o) = TRUE
    BY <2>2 DEF branch_taken
  <2>4. QED
    BY <1>1, <1>2, <1>3, <1>4, <1>10, <2>2, <2>3 DEF o, type
<1>11. QED
  BY <1>2, <1>3, <1>5, <1>6, <1>7, <1>8, <1>9, <1>10

\* No other record writes the instruction pointer.
LEMMA OtherKept ==
  ASSUME NEW r, NEW stale
  PROVE  LET o == OtherRecord(r, stale)
         IN  /\ branch(o) = "NOT_BRANCH" /\ ~is_branch(o) /\ ~branch_taken(o)
             /\ o.memory = (r.type \in Memory)
             /\ o.page = IF r.type \in Memory THEN transform(r.ea) ELSE -1
<1> DEFINE o == OtherRecord(r, stale)
           x == IF r.outputs = << >> THEN "0" ELSE Head(r.outputs)
<1>1. /\ o.dsts = {Renamed(x)} /\ o.is_branch = FALSE /\ o.memory = (r.type \in Memory)
      /\ o.page = IF r.type \in Memory THEN transform(r.ea) ELSE -1
  BY DEF OtherRecord
<1> HIDE DEF o, x
<1>2. Renamed(x) # "ip"
  BY DEF Renamed, InstructionPointer, StackPointer, Flags
<1>3. ~WritesIP(o)
  BY <1>1, <1>2 DEF WritesIP, InstructionPointer
<1>4. branch(o) = "NOT_BRANCH"
  BY <1>3 DEF branch
<1>5. ~is_branch(o)
  BY <1>1, <1>3 DEF is_branch
<1>6. ~branch_taken(o)
  BY <1>4 DEF branch_taken
<1>7. QED
  BY <1>1, <1>4, <1>5, <1>6 DEF o

\* The search finds a page that is in use for nothing.
LEMMA NewPageIsFree ==
  ASSUME IsFiniteSet(code_pages), IsFiniteSet(data_pages), bump_page \in Nat
  PROVE  NewPage \in Nat /\ bump_page <= NewPage /\ NewPage \notin code_pages \cup data_pages
<1> DEFINE taken == code_pages \cup data_pages
           n == Cardinality(taken)
           R == bump_page .. bump_page + n
           T == R \ taken
<1>1. IsFiniteSet(taken) /\ n \in Nat
  BY FS_Union, FS_CardinalityType
<1> HIDE DEF n
<1>2. IsFiniteSet(R) /\ Cardinality(R) = n + 1
  <2>1. bump_page \in Int /\ bump_page + n \in Int /\ ~(bump_page > bump_page + n)
        /\ (bump_page + n) - bump_page + 1 = n + 1
    BY <1>1
  <2>2. QED
    BY <2>1, FS_Interval
<1>3. T # {}
  <2> SUFFICES ASSUME T = {} PROVE FALSE
    OBVIOUS
  <2>1. R \in SUBSET taken
    OBVIOUS
  <2>2. Cardinality(R) <= n
    BY <1>1, <2>1, FS_Subset DEF n
  <2>3. QED
    BY <1>1, <1>2, <2>2
<1>4. T \subseteq Nat
  BY <1>1
<1>5. PICK p \in T : \A y \in T : p <= y
  BY <1>3, <1>4, SmallestOf
<1>6. p \in R /\ p \notin taken /\ \A q \in bump_page .. p - 1 : q \in taken
  <2> SUFFICES ASSUME NEW q \in bump_page .. p - 1, q \notin taken PROVE FALSE
    OBVIOUS
  <2>1. q \in R /\ ~(p <= q)
    BY <1>1
  <2>2. QED
    BY <1>5, <2>1
<1>7. NewPage \in R /\ NewPage \notin taken
  BY <1>6 DEF NewPage, n
<1>8. QED
  BY <1>1, <1>7

\* Where the accesses of a page go.
PageOf(pg) == IF pg \in code_pages THEN remapped_pages[pg] ELSE pg

IsConverted(i) ==
    IF cvp[i].type \in Branches THEN output[i] = BranchRecord(cvp[i])
    ELSE /\ branch(output[i]) = "NOT_BRANCH" /\ ~is_branch(output[i]) /\ ~branch_taken(output[i])
         /\ output[i].memory = (cvp[i].type \in Memory)
         /\ cvp[i].type \in Memory =>
              /\ output[i].page = PageOf(cvp[i].ea)
              /\ cvp[i].ea \in code_pages => cvp[i].ea \in DOMAIN remapped_pages

\* Data pages that are code pages have gone, one to one, to pages in use for nothing.
ConverterInv ==
    /\ cvp \in Seq(Records)
    /\ IsFiniteSet(code_pages) /\ IsFiniteSet(data_pages)
    /\ \A i \in 1 .. Len(cvp) : cvp[i].type \in Memory => cvp[i].ea \in data_pages
    /\ bump_page \in Nat
    /\ remapped_pages \in [DOMAIN remapped_pages -> Nat]
    /\ \A pg \in DOMAIN remapped_pages :
          /\ pg \in code_pages
          /\ remapped_pages[pg] < bump_page
          /\ remapped_pages[pg] \notin code_pages \cup data_pages
    /\ \A p, q \in DOMAIN remapped_pages : remapped_pages[p] = remapped_pages[q] => p = q
    /\ \E S : output \in Seq(S)
    /\ Len(output) <= Len(cvp)
    /\ ~preprocessed => Len(output) = 0 /\ DOMAIN remapped_pages = {}
    /\ \A i \in 1 .. Len(output) : IsConverted(i)

\* The first pass: nothing has been moved yet.
LEMMA PreprocessStep ==
  ASSUME ConverterInv, Preprocess
  PROVE  ConverterInv'
<1>1. /\ cvp \in Seq(Records) /\ Len(cvp) \in Nat
      /\ Len(output) = 0 /\ DOMAIN remapped_pages = {}
      /\ IsFiniteSet(code_pages) /\ IsFiniteSet(data_pages)
      /\ \A i \in 1 .. Len(cvp) : cvp[i].type \in Memory => cvp[i].ea \in data_pages
  BY LenProperties DEF ConverterInv, Preprocess
<1>2. UNCHANGED <<remapped_pages, bump_page, output>>
  BY DEF Preprocess
<1>3. /\ cvp' \in Seq(Records) /\ Len(cvp') \in Nat
      /\ IsFiniteSet(code_pages') /\ IsFiniteSet(data_pages')
      /\ \A i \in 1 .. Len(cvp') : cvp'[i].type \in Memory => cvp'[i].ea \in data_pages'
  <2>1. CASE UNCHANGED <<cvp, code_pages, data_pages>>
    BY <1>1, <2>1
  <2>2. ASSUME NEW r \in Records, cvp' = Append(cvp, r), code_pages' = code_pages \cup {r.pc},
               data_pages' = data_pages \cup (IF r.type \in Memory THEN {r.ea} ELSE {})
        PROVE  /\ cvp' \in Seq(Records) /\ Len(cvp') \in Nat
               /\ IsFiniteSet(code_pages') /\ IsFiniteSet(data_pages')
               /\ \A i \in 1 .. Len(cvp') : cvp'[i].type \in Memory => cvp'[i].ea \in data_pages'
    <3>1. /\ cvp' \in Seq(Records) /\ Len(cvp') = Len(cvp) + 1
          /\ \A i \in 1 .. Len(cvp) : cvp'[i] = cvp[i]
          /\ cvp'[Len(cvp) + 1] = r
      BY <1>1, <2>2, AppendProperties
    <3>2. IsFiniteSet(code_pages')
      BY <1>1, <2>2, FS_AddElement
    <3>3. IsFiniteSet(data_pages')
      <4>1. CASE r.type \in Memory
        BY <1>1, <2>2, <4>1, FS_AddElement
      <4>2. CASE r.type \notin Memory
        <5>1. data_pages' = data_pages
          BY <2>2, <4>2
        <5>2. QED
          BY <1>1, <5>1
      <4>3. QED
        BY <4>1, <4>2
    <3>4. ASSUME NEW i \in 1 .. Len(cvp'), cvp'[i].type \in Memory
          PROVE  cvp'[i].ea \in data_pages'
      <4>1. i \in 1 .. Len(cvp) \/ i = Len(cvp) + 1
        BY <1>1, <3>1
      <4>2. QED
        BY <1>1, <2>2, <3>1, <3>4, <4>1
    <3>5. QED
      BY <1>1, <3>1, <3>2, <3>3, <3>4
  <2>3. QED
    BY <2>1, <2>2 DEF Preprocess
<1>4. Len(output') = 0 /\ DOMAIN remapped_pages' = {}
  BY <1>1, <1>2
<1>5. \E S : output' \in Seq(S)
  BY <1>2 DEF ConverterInv
<1>6. bump_page' \in Nat /\ remapped_pages' \in [DOMAIN remapped_pages' -> Nat]
  BY <1>2 DEF ConverterInv
<1>7. QED
  BY <1>3, <1>4, <1>5, <1>6 DEF ConverterInv

\* The second pass: the next record, whose page may be moved.
LEMMA ConvertStep ==
  ASSUME ConverterInv, Convert
  PROVE  ConverterInv'
<1> DEFINE n == Len(output)
           r == cvp[n + 1]
           remaps == r.type \in Memory /\ Remaps(r.ea)
           D == DOMAIN remapped_pages
<1>1. /\ preprocessed /\ n < Len(cvp)
      /\ UNCHANGED <<cvp, preprocessed, code_pages, data_pages>>
  BY DEF Convert
<1>2. PICK stale \in BOOLEAN :
         output' = Append(output, IF r.type \in Branches THEN BranchRecord(r) ELSE OtherRecord(r, stale))
  BY DEF Convert
<1>3. /\ remapped_pages' = IF remaps THEN [pg \in D \cup {r.ea} |-> transform(pg)] ELSE remapped_pages
      /\ bump_page' = IF remaps THEN NewPage + 1 ELSE bump_page
  BY DEF Convert
<1>4. /\ cvp \in Seq(Records) /\ Len(cvp) \in Nat /\ bump_page \in Nat
      /\ IsFiniteSet(code_pages) /\ IsFiniteSet(data_pages)
      /\ \A i \in 1 .. Len(cvp) : cvp[i].type \in Memory => cvp[i].ea \in data_pages
      /\ remapped_pages \in [D -> Nat]
      /\ \A pg \in D : /\ pg \in code_pages
                          /\ remapped_pages[pg] < bump_page
                          /\ remapped_pages[pg] \notin code_pages \cup data_pages
      /\ \A p, q \in D : remapped_pages[p] = remapped_pages[q] => p = q
      /\ \A i \in 1 .. n : IsConverted(i)
  BY LenProperties DEF ConverterInv
<1>5. NewPage \in Nat /\ bump_page <= NewPage /\ NewPage \notin code_pages \cup data_pages
  BY <1>4, NewPageIsFree
<1> DEFINE o == IF r.type \in Branches THEN BranchRecord(r) ELSE OtherRecord(r, stale)
<1>6. /\ n \in Nat /\ Len(output') = n + 1 /\ output'[n + 1] = o
      /\ \A i \in 1 .. n : output'[i] = output[i]
      /\ \E S : output' \in Seq(S)
  <2>1. PICK S : output \in Seq(S)
    BY DEF ConverterInv
  <2> DEFINE T == S \cup {o}
  <2> HIDE DEF o
  <2>2. output \in Seq(T) /\ o \in T
    <3>1. n \in Nat /\ \A i \in 1 .. n : output[i] \in T
      BY <2>1, LenProperties
    <3>2. output = [i \in 1 .. n |-> output[i]]
      BY <2>1, LenProperties
    <3>3. output \in [1 .. n -> T]
      BY <3>1, <3>2
    <3>4. QED
      BY <3>1, <3>3, FunctionIsSequence
  <2>3. output' = Append(output, o)
    BY <1>2 DEF o
  <2> HIDE DEF T
  <2>4. QED
    BY <2>2, <2>3, AppendProperties, LenProperties
<1>7. n + 1 \in 1 .. Len(cvp) /\ IsRecord(r)
  <2>1. n + 1 \in 1 .. Len(cvp)
    BY <1>1, <1>4, <1>6
  <2>2. r \in Records
    BY <1>4, <2>1, ElementOfSeq
  <2>3. QED
    BY ConverterAssumption, <2>1, <2>2
\* The pages that are moved.
<1>8. /\ remapped_pages' \in [DOMAIN remapped_pages' -> Nat] /\ bump_page' \in Nat
      /\ D \subseteq DOMAIN remapped_pages'
      /\ \A pg \in D : remapped_pages'[pg] = remapped_pages[pg]
      /\ \A pg \in DOMAIN remapped_pages' :
            /\ pg \in code_pages
            /\ remapped_pages'[pg] < bump_page'
            /\ remapped_pages'[pg] \notin code_pages \cup data_pages
      /\ \A p, q \in DOMAIN remapped_pages' : remapped_pages'[p] = remapped_pages'[q] => p = q
      /\ r.type \in Memory => /\ transform(r.ea) = IF r.ea \in code_pages THEN remapped_pages'[r.ea] ELSE r.ea
                              /\ r.ea \in code_pages => r.ea \in DOMAIN remapped_pages'
  <2>1. CASE remaps
    <3> DEFINE e == r.ea
               f == [pg \in D \cup {e} |-> transform(pg)]
    <3>1. e \in code_pages /\ e \notin D /\ remapped_pages' = f /\ bump_page' = NewPage + 1
      BY <1>3, <2>1 DEF Remaps
    <3> HIDE DEF e
    <3>2. \A pg \in D : transform(pg) = remapped_pages[pg]
      BY <1>4 DEF transform
    <3>3. transform(e) = NewPage
      BY <3>1 DEF transform
    <3>4. /\ DOMAIN f = D \cup {e} /\ f[e] = NewPage
          /\ \A pg \in D : f[pg] = remapped_pages[pg]
      BY <3>2, <3>3
    <3>5. f \in [D \cup {e} -> Nat]
      BY <1>4, <1>5, <3>2, <3>3
    <3> HIDE DEF f, D
    <3>6. \A pg \in D \cup {e} : /\ pg \in code_pages
                                   /\ f[pg] < NewPage + 1
                                   /\ f[pg] \notin code_pages \cup data_pages
      <4>1. \A pg \in D : remapped_pages[pg] \in Nat
        BY <1>4
      <4>2. QED
        BY <1>4, <1>5, <3>1, <3>4, <4>1
    <3>7. \A p, q \in D \cup {e} : f[p] = f[q] => p = q
      <4>1. \A p \in D : f[p] # NewPage
        <5>1. \A p \in D : remapped_pages[p] \in Nat /\ remapped_pages[p] < bump_page
          BY <1>4
        <5>2. QED
          BY <1>4, <1>5, <3>4, <5>1
      <4>2. QED
        BY <1>4, <3>4, <4>1
    <3>8. QED
      BY <1>5, <3>1, <3>3, <3>4, <3>5, <3>6, <3>7 DEF e, D
  <2>2. CASE ~remaps
    <3>1. remapped_pages' = remapped_pages /\ bump_page' = bump_page
      BY <1>3, <2>2
    <3>2. r.type \in Memory =>
             /\ transform(r.ea) = IF r.ea \in code_pages THEN remapped_pages[r.ea] ELSE r.ea
             /\ r.ea \in code_pages => r.ea \in D
      BY <2>2 DEF Remaps, transform
    <3>3. DOMAIN remapped_pages' = D
      BY <3>1
    <3> HIDE DEF D, r
    <3>4. /\ remapped_pages' \in [D -> Nat] /\ bump_page' \in Nat
          /\ \A pg \in D : /\ pg \in code_pages
                              /\ remapped_pages'[pg] < bump_page'
                              /\ remapped_pages'[pg] \notin code_pages \cup data_pages
          /\ \A p, q \in D : remapped_pages'[p] = remapped_pages'[q] => p = q
      BY <1>4, <3>1
    <3>5. r.type \in Memory =>
             /\ transform(r.ea) = IF r.ea \in code_pages THEN remapped_pages'[r.ea] ELSE r.ea
             /\ r.ea \in code_pages => r.ea \in D
      BY <3>1, <3>2
    <3>6. \A pg \in D : remapped_pages'[pg] = remapped_pages[pg]
      BY <3>1
    <3>7. remapped_pages' \in [DOMAIN remapped_pages' -> Nat] /\ D \subseteq DOMAIN remapped_pages'
      BY <3>3, <3>4
    <3>8. /\ \A pg \in DOMAIN remapped_pages' :
                /\ pg \in code_pages
                /\ remapped_pages'[pg] < bump_page'
                /\ remapped_pages'[pg] \notin code_pages \cup data_pages
          /\ \A p, q \in DOMAIN remapped_pages' : remapped_pages'[p] = remapped_pages'[q] => p = q
      BY <3>3, <3>4
    <3>9. r.type \in Memory =>
             /\ transform(r.ea) = IF r.ea \in code_pages THEN remapped_pages'[r.ea] ELSE r.ea
             /\ r.ea \in code_pages => r.ea \in DOMAIN remapped_pages'
      BY <3>3, <3>5
    <3>10. QED
      BY <3>4, <3>6, <3>7, <3>8, <3>9
  <2>3. QED
    BY <2>1, <2>2
<1>9. ASSUME NEW i \in 1 .. n + 1
      PROVE  IsConverted(i)'
  <2>1. CASE i \in 1 .. n
    <3>1. output'[i] = output[i] /\ cvp' = cvp /\ code_pages' = code_pages /\ IsConverted(i)
      BY <1>1, <1>4, <1>6, <2>1
    <3>2. \A x : x \in D => remapped_pages'[x] = remapped_pages[x] /\ x \in DOMAIN remapped_pages'
      BY <1>8
    <3> HIDE DEF D
    <3>3. QED
      BY <3>1, <3>2 DEF IsConverted, PageOf, D
  <2>2. CASE i = n + 1
    <3>1. output'[i] = o /\ cvp'[i] = r /\ code_pages' = code_pages
      BY <1>1, <1>6, <2>2
    <3>2. CASE r.type \in Branches
      BY <3>1, <3>2 DEF IsConverted
    <3>3. CASE r.type \notin Branches
      <4>1. o = OtherRecord(r, stale)
        BY <3>3
      <4> HIDE DEF o, r
      <4>2. /\ branch(o) = "NOT_BRANCH" /\ ~is_branch(o) /\ ~branch_taken(o)
            /\ o.memory = (r.type \in Memory)
            /\ r.type \in Memory => o.page = transform(r.ea)
        BY <4>1, OtherKept
      <4>3. r.type \in Memory =>
               /\ o.page = IF r.ea \in code_pages THEN remapped_pages'[r.ea] ELSE r.ea
               /\ r.ea \in code_pages => r.ea \in DOMAIN remapped_pages'
        BY <1>8, <4>2
      <4>4. /\ branch(output'[i]) = "NOT_BRANCH" /\ ~is_branch(output'[i])
            /\ ~branch_taken(output'[i])
            /\ output'[i].memory = (r.type \in Memory)
        BY <3>1, <4>2
      <4>5. r.type \in Memory =>
               /\ output'[i].page = IF r.ea \in code_pages' THEN remapped_pages'[r.ea] ELSE r.ea
               /\ r.ea \in code_pages' => r.ea \in DOMAIN remapped_pages'
        BY <3>1, <4>3
      <4>6. cvp'[i] = r
        BY <3>1
      <4> HIDE DEF n
      <4>7. QED
        BY <3>3, <4>4, <4>5, <4>6 DEF IsConverted, PageOf
    <3>4. QED
      BY <3>2, <3>3
  <2>3. QED
    BY <1>6, <2>1, <2>2
<1>10. QED
  BY <1>1, <1>4, <1>6, <1>7, <1>8, <1>9 DEF ConverterInv

LEMMA ConverterInvariant == ConverterSpec => []ConverterInv
<1>1. ConverterInit => ConverterInv
  <2> SUFFICES ASSUME ConverterInit PROVE ConverterInv
    OBVIOUS
  <2>1. /\ cvp = << >> /\ output = << >> /\ code_pages = {} /\ data_pages = {}
        /\ remapped_pages = << >> /\ bump_page = FirstBump
    BY DEF ConverterInit
  <2>2. << >> \in Seq(Records) /\ Len(<< >>) = 0 /\ DOMAIN << >> = {}
    OBVIOUS
  <2>3. Len(cvp) = 0 /\ Len(output) = 0 /\ DOMAIN remapped_pages = {}
    BY <2>1, <2>2
  <2>4. remapped_pages \in [DOMAIN remapped_pages -> Nat]
    BY <2>1, <2>2
  <2>5. IsFiniteSet(code_pages) /\ IsFiniteSet(data_pages)
    BY <2>1, FS_EmptySet
  <2>6. cvp \in Seq(Records) /\ \E S : output \in Seq(S)
    BY <2>1, <2>2
  <2>7. bump_page \in Nat
    BY ConverterAssumption, <2>1
  <2>8. QED
    BY <2>3, <2>4, <2>5, <2>6, <2>7 DEF ConverterInv
<1>2. ConverterInv /\ [ConverterNext]_converterVars => ConverterInv'
  <2> SUFFICES ASSUME ConverterInv, [ConverterNext]_converterVars PROVE ConverterInv'
    OBVIOUS
  <2>1. CASE UNCHANGED converterVars
    BY <2>1 DEF converterVars, ConverterInv, IsConverted, PageOf
  <2>2. CASE ConverterNext
    BY <2>2, PreprocessStep, ConvertStep DEF ConverterNext
  <2>3. QED
    BY <2>1, <2>2
<1>3. QED
  BY <1>1, <1>2, PTL DEF ConverterSpec

LEMMA ConvertedIsRecognized ==
  ASSUME ConverterInv
  PROVE  BranchesAreRecognized
<1> SUFFICES ASSUME NEW i \in DOMAIN output
             PROVE  IF cvp[i].type \in Branches
                      THEN /\ branch(output[i]) = OpType(cvp[i])
                           /\ branch_taken(output[i]) = cvp[i].taken
                      ELSE /\ branch(output[i]) = "NOT_BRANCH" /\ ~is_branch(output[i])
                           /\ ~branch_taken(output[i])
  BY DEF BranchesAreRecognized
<1>1. i \in 1 .. Len(output) /\ IsRecord(cvp[i])
  <2>1. PICK S : output \in Seq(S)
    BY DEF ConverterInv
  <2>2. DOMAIN output = 1 .. Len(output) /\ Len(output) \in Nat
    BY <2>1, LenProperties
  <2>3. cvp \in Seq(Records) /\ Len(cvp) \in Nat /\ Len(output) <= Len(cvp)
    BY LenProperties DEF ConverterInv
  <2>4. i \in 1 .. Len(cvp)
    BY <2>2, <2>3
  <2>5. cvp[i] \in Records
    BY <2>3, <2>4, ElementOfSeq
  <2>6. QED
    BY ConverterAssumption, <2>2, <2>5
<1>2. IsConverted(i)
  BY <1>1 DEF ConverterInv
<1>3. CASE cvp[i].type \in Branches
  BY <1>1, <1>2, <1>3, BranchKept DEF IsConverted
<1>4. CASE cvp[i].type \notin Branches
  BY <1>2, <1>4 DEF IsConverted
<1>5. QED
  BY <1>3, <1>4

LEMMA ConvertedStaysApart ==
  ASSUME ConverterInv
  PROVE  DataStaysApart
<1> DEFINE memory == {i \in DOMAIN output : output[i].memory}
<1>1. ASSUME NEW i \in memory
      PROVE  /\ cvp[i].ea \in data_pages
             /\ output[i].page = PageOf(cvp[i].ea)
             /\ cvp[i].ea \in code_pages => cvp[i].ea \in DOMAIN remapped_pages
  <2>1. PICK S : output \in Seq(S)
    BY DEF ConverterInv
  <2>2. DOMAIN output = 1 .. Len(output) /\ Len(output) \in Nat
    BY <2>1, LenProperties
  <2>3. cvp \in Seq(Records) /\ Len(cvp) \in Nat /\ Len(output) <= Len(cvp)
    BY LenProperties DEF ConverterInv
  <2>4. i \in 1 .. Len(output) /\ i \in 1 .. Len(cvp) /\ output[i].memory
    BY <1>1, <2>2, <2>3
  <2>5. IsRecord(cvp[i])
    BY ConverterAssumption, <2>3, <2>4, ElementOfSeq
  <2>6. IsConverted(i)
    BY <2>4 DEF ConverterInv
  <2>7. cvp[i].type \notin Branches
    <3> SUFFICES ASSUME cvp[i].type \in Branches PROVE FALSE
      OBVIOUS
    <3>1. output[i].memory = FALSE
      BY <2>5, <2>6, BranchKept DEF IsConverted
    <3>2. QED
      BY <2>4, <3>1
  <2>8. cvp[i].type \in Memory
    BY <2>4, <2>6, <2>7 DEF IsConverted
  <2>9. QED
    BY <2>4, <2>6, <2>7, <2>8 DEF IsConverted, ConverterInv
<1>2. \A pg \in DOMAIN remapped_pages : remapped_pages[pg] \notin code_pages \cup data_pages
  BY DEF ConverterInv
<1>3. \A p, q \in DOMAIN remapped_pages : remapped_pages[p] = remapped_pages[q] => p = q
  BY DEF ConverterInv
<1>4. \A i \in memory : output[i].page \notin code_pages
  BY <1>1, <1>2 DEF PageOf
<1>5. ASSUME NEW i \in memory, NEW j \in memory
      PROVE  output[i].page = output[j].page <=> cvp[i].ea = cvp[j].ea
  BY <1>1, <1>2, <1>3 DEF PageOf
<1>6. QED
  BY <1>4, <1>5 DEF DataStaysApart

\* The simulator takes every instruction of a converted trace for what it was
\* (cvp2champsim.cc:421), for any trace of records that trace::read accepts.
THEOREM ConvertedBranchesAreRecognized == ConverterSpec => []BranchesAreRecognized
<1>1. ConverterInv => BranchesAreRecognized
  BY ConvertedIsRecognized
<1>2. ConverterInv => BranchesAreRecognized
  BY <1>1
<1>3. ConverterSpec => []ConverterInv
  BY ConverterInvariant
<1>4. QED
  BY <1>2, <1>3, PTL

\* Data never lies in a page of code, and two accesses share a page just when they
\* did in the trace (cvp2champsim.cc:321), for any such trace.
THEOREM ConvertedDataStaysApart == ConverterSpec => []DataStaysApart
<1>1. ConverterInv => DataStaysApart
  BY ConvertedStaysApart
<1>2. ConverterInv => DataStaysApart
  BY <1>1
<1>3. ConverterSpec => []ConverterInv
  BY ConverterInvariant
<1>4. QED
  BY <1>2, <1>3, PTL

-----------------------------------------------------------------------------
(* Both together. *)

\* lru, srrip, drrip and ship spare what was used last (lru.cc:10-36, srrip.cc:34-44,
\* drrip.cc:68-79, ship.cc:25-36), and so does every set of an lru_table
\* (lru_table.h:114-166), whatever their sizes.
THEOREM VictimsStayOldest == LRUSpec /\ PolicySpec /\ BlocksSpec => []VictimsAreOldest
<1>1. LRUSpec => []VictimIsLeastRecent
  BY LRUVictimIsLeastRecent
<1>2. PolicySpec => []RecentlyHitSurvives
  BY HitLinesSurvive
<1>3. BlocksSpec => []BlocksAreEntries
  BY TableIsLeastRecentlyUsed
<1>4. VictimIsLeastRecent /\ RecentlyHitSurvives /\ BlocksAreEntries => VictimsAreOldest
  BY DEF VictimsAreOldest
<1>5. QED
  BY <1>1, <1>2, <1>3, <1>4, PTL

\* The trace reader and the CVP converter hand the program on as it ran
\* (tracereader.h:102-139, cvp2champsim.cc:321, 421), for any traces.
THEOREM TheProgramIsKept == ReaderSpec /\ ConverterSpec => []TracesKeepTheProgram
<1>1. ReaderSpec => []TraceInOrder
  BY TraceIsReadInOrder
<1>2. ConverterSpec => []BranchesAreRecognized
  BY ConvertedBranchesAreRecognized
<1>3. ConverterSpec => []DataStaysApart
  BY ConvertedDataStaysApart
<1>4. TraceInOrder /\ BranchesAreRecognized /\ DataStaysApart => TracesKeepTheProgram
  BY DEF TracesKeepTheProgram
<1>5. QED
  BY <1>1, <1>2, <1>3, <1>4, PTL
=============================================================================

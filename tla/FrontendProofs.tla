---------------------------- MODULE FrontendProofs ----------------------------
(***************************************************************************)
(* Proofs about Frontend, for every trace and every configuration, and     *)
(* whatever is predicted: the buffers keep their sizes and the program     *)
(* order, every fetch has an answer on its way, and fetch stops once for   *)
(* each mispredicted branch.                                               *)
(***************************************************************************)
EXTENDS Frontend, SequenceCounts

-----------------------------------------------------------------------------
(* The state. *)

Lines == {program[i].line : i \in 1 .. Len(program)}
Windows == {program[i].window : i \in 1 .. Len(program)}
Results == {{}} \cup {do_stack_pointer_folding(program[i]).dsts : i \in 1 .. Len(program)}

Entry == [id : 1 .. Len(program), dsts : Results, prediction : BOOLEAN, mispredicted : BOOLEAN,
          dib_checked : BOOLEAN, issued : BOOLEAN, completed : BOOLEAN, decoded : BOOLEAN,
          ready : Nat]

Missed == {instr \in Entry : instr.mispredicted}

Read == [line : Lines, ids : Seq(Nat)]

\* The DIB is a table of its size.
Table == {table \in Seq([tag : Windows]) : OncePerTag(table) /\ Len(table) <= cfg.DIB_WAY}

TypeInv ==
    /\ cfg \in Configs /\ program \in Programs
    /\ initialized \in 0 .. Len(program) /\ dispatched \in Nat
    /\ IFETCH_BUFFER \in Seq(Entry) /\ DIB_HIT_BUFFER \in Seq(Entry)
    /\ DECODE_BUFFER \in Seq(Entry) /\ DISPATCH_BUFFER \in Seq(Entry)
    /\ DIB \in Table
    /\ L1I \in ChannelOf(Read, Read) /\ owed \in Seq(Read)
    /\ fetch_resume \in 0 .. Never /\ budget \in Nat
    /\ executing \in SUBSET Entry /\ IsFiniteSet(executing)

\* No buffer outgrows its size.
SizeInv ==
    /\ Len(IFETCH_BUFFER) + budget <= cfg.IFETCH_BUFFER_SIZE
    /\ Len(DIB_HIT_BUFFER) <= cfg.DIB_HIT_BUFFER_SIZE
    /\ Len(DECODE_BUFFER) <= cfg.DECODE_BUFFER_SIZE
    /\ Len(DISPATCH_BUFFER) <= cfg.DISPATCH_BUFFER_SIZE
    /\ Len(L1I.RQ) <= cfg.RQ_SIZE

\* Instructions from base on, one after the other.
Consecutive(s, base) == \A i \in 1 .. Len(s) : s[i].id = base + i

Ascending(s) == \A i, j \in 1 .. Len(s) : i < j => s[i].id < s[j].id

\* Two sequences, each in program order, that together have the instructions after
\* base, each once.
Merged(dib, dec, base) ==
    /\ Ascending(dib) /\ Ascending(dec)
    /\ \A i \in 1 .. Len(dib) : dib[i].id \in base + 1 .. base + Len(dib) + Len(dec)
    /\ \A i \in 1 .. Len(dec) : dec[i].id \in base + 1 .. base + Len(dib) + Len(dec)
    /\ \A id \in base + 1 .. base + Len(dib) + Len(dec) :
          \/ \E i \in 1 .. Len(dib) : dib[i].id = id
          \/ \E i \in 1 .. Len(dec) : dec[i].id = id
    /\ \A i \in 1 .. Len(dib), j \in 1 .. Len(dec) : dib[i].id # dec[j].id

OrderInv ==
    /\ Consecutive(DISPATCH_BUFFER, dispatched)
    /\ Merged(DIB_HIT_BUFFER, DECODE_BUFFER, dispatched + Len(DISPATCH_BUFFER))
    /\ Consecutive(IFETCH_BUFFER, initialized - Len(IFETCH_BUFFER))
    /\ dispatched + Len(DISPATCH_BUFFER) + Len(DIB_HIT_BUFFER) + Len(DECODE_BUFFER)
          + Len(IFETCH_BUFFER) = initialized

\* A read is of the instruction's line and names it; one of several reads does.
Names(read, instr) ==
    /\ read.line = Line(instr)
    /\ \E i \in 1 .. Len(read.ids) : read.ids[i] = instr.id

Named(reads, instr) == \E k \in 1 .. Len(reads) : Names(reads[k], instr)

Covered(buffer, rq, below, returned) ==
    \A i \in 1 .. Len(buffer) :
        (buffer[i].issued /\ ~buffer[i].completed) =>
           Named(rq, buffer[i]) \/ Named(below, buffer[i]) \/ Named(returned, buffer[i])

StopInv ==
    /\ Count(DISPATCH_BUFFER, Missed) + Count(DIB_HIT_BUFFER, Missed)
         + Count(DECODE_BUFFER, Missed) + Count(IFETCH_BUFFER, Missed)
         + Cardinality(executing \cap Missed)
       = One(fetch_resume = Never)
    /\ \A instr \in executing : instr.id \in 1 .. dispatched

FrontInv ==
    /\ TypeInv /\ SizeInv /\ OrderInv
    /\ Covered(IFETCH_BUFFER, L1I.RQ, owed, L1I.returned)
    /\ StopInv

-----------------------------------------------------------------------------
(* The folds of the code's loops. *)

\* The rounds of decode.
TakePath(T, b, q) ==
    \E g \in [0 .. Len(q) -> T] :
       /\ FoldLeft(TakeOldest, b, q) = g[Len(q)]
       /\ g[0] = b
       /\ \A k \in 1 .. Len(q) : g[k] = TakeOldest(g[k - 1], q[k])

\* They pass through a value of T for each.
LEMMA TakeFold ==
  ASSUME NEW T, NEW b, NEW E, NEW q, b \in T, q \in Seq(E),
         \A x \in T, e \in E : TakeOldest(x, e) \in T
  PROVE  TakePath(T, b, q)
<1> DEFINE m == Len(q)
           F == [z \in T \X (1 .. m) |-> TakeOldest(z[1], q[z[2]])]
<1>1. m \in Nat /\ DOMAIN q = 1 .. m /\ \A k \in 1 .. m : q[k] \in E
  BY LenProperties
<1> HIDE DEF m
<1>2. F \in [T \X (1 .. m) -> T]
  BY <1>1
<1>3. PICK jt \in [SUBSET (1 .. m) -> T] : FoldsTo(jt, m, b, F)
  <2> HIDE DEF F
  <2>1. QED
    BY <1>1, <1>2, FoldExists
<1>4. jt = [s \in SUBSET DOMAIN q |->
               IF s = {} THEN b ELSE TakeOldest(jt[s \ {Max(s)}], q[Max(s)])]
  <2>1. ASSUME NEW s \in SUBSET (1 .. m), s # {}
        PROVE  F[<<jt[s \ {Top(s)}], Top(s)>>] = TakeOldest(jt[s \ {Max(s)}], q[Max(s)])
    <3>1. Top(s) \in 1 .. m
      BY <2>1, <1>1, TopOf
    <3>2. jt[s \ {Top(s)}] \in T
      BY <1>3
    <3>3. Max(s) = Top(s)
      BY DEF Max, Top
    <3>4. QED
      BY <3>1, <3>2, <3>3
  <2> HIDE DEF F
  <2>2. \A s \in SUBSET (1 .. m) :
           jt[s] = IF s = {} THEN b ELSE F[<<jt[s \ {Top(s)}], Top(s)>>]
    BY <1>3 DEF FoldsTo
  <2>3. QED
    BY <2>1, <2>2, <1>1, <1>3
<1>5. PICK it : /\ it = [s \in SUBSET DOMAIN q |->
                            IF s = {} THEN b ELSE TakeOldest(it[s \ {Max(s)}], q[Max(s)])]
                /\ FoldLeft(TakeOldest, b, q) = it[DOMAIN q]
  BY <1>4, Zenon DEF FoldLeft, MapThenFoldSet
<1>6. it[1 .. 0] = b
  <2>1. 1 .. 0 = {} /\ {} \in SUBSET DOMAIN q
    OBVIOUS
  <2>2. QED
    BY <1>5, <2>1
<1>7. ASSUME NEW k \in 1 .. m
      PROVE  it[1 .. k] = TakeOldest(it[1 .. k - 1], q[k])
  <2>1. /\ Top(1 .. k) = k /\ (1 .. k) \ {k} = 1 .. k - 1 /\ 1 .. k # {}
        /\ 1 .. k \in SUBSET DOMAIN q
    <3>1. k \in Nat \ {0} /\ 1 .. k \in SUBSET (1 .. m)
      BY <1>1
    <3>2. QED
      BY <1>1, <3>1, TopOfFirst
  <2>2. Max(1 .. k) = k
    BY <2>1 DEF Max, Top
  <2>3. it[1 .. k] = TakeOldest(it[(1 .. k) \ {Max(1 .. k)}], q[Max(1 .. k)])
    BY <1>5, <2>1
  <2>4. QED
    BY <2>1, <2>2, <2>3
<1> DEFINE S == {k \in 0 .. m : it[1 .. k] \in T}
<1>8. \A k \in 0 .. m : k \in S
  <2>1. 0 \in S
    BY <1>1, <1>6
  <2>2. ASSUME NEW k \in 1 .. m, k - 1 \in S
        PROVE  k \in S
    BY <1>1, <1>7, <2>2
  <2> HIDE DEF S
  <2>3. QED
    BY <1>1, <2>1, <2>2, UpTo
<1> DEFINE g == [k \in 0 .. m |-> it[1 .. k]]
<1>9. g \in [0 .. m -> T] /\ g[0] = b /\ g[m] = it[DOMAIN q]
  BY <1>1, <1>6, <1>8
<1>10. \A k \in 1 .. m : g[k] = TakeOldest(g[k - 1], q[k])
  <2>1. \A k \in 1 .. m : k \in 0 .. m /\ k - 1 \in 0 .. m
    BY <1>1
  <2>2. QED
    BY <1>7, <2>1
<1> HIDE DEF g
<1>11. QED
  BY <1>1, <1>5, <1>9, <1>10 DEF m, TakePath

\* The updates of the DIB.
UpdatePath(T, b, q) ==
    \E g \in [0 .. Len(q) -> T] :
       /\ FoldLeft(do_dib_update, b, q) = g[Len(q)]
       /\ g[0] = b
       /\ \A k \in 1 .. Len(q) : g[k] = do_dib_update(g[k - 1], q[k])

\* They pass through a value of T for each.
LEMMA UpdateFold ==
  ASSUME NEW T, NEW b, NEW E, NEW q, b \in T, q \in Seq(E),
         \A x \in T, e \in E : do_dib_update(x, e) \in T
  PROVE  UpdatePath(T, b, q)
<1> DEFINE m == Len(q)
           F == [z \in T \X (1 .. m) |-> do_dib_update(z[1], q[z[2]])]
<1>1. m \in Nat /\ DOMAIN q = 1 .. m /\ \A k \in 1 .. m : q[k] \in E
  BY LenProperties
<1> HIDE DEF m
<1>2. F \in [T \X (1 .. m) -> T]
  BY <1>1
<1>3. PICK jt \in [SUBSET (1 .. m) -> T] : FoldsTo(jt, m, b, F)
  <2> HIDE DEF F
  <2>1. QED
    BY <1>1, <1>2, FoldExists
<1>4. jt = [s \in SUBSET DOMAIN q |->
               IF s = {} THEN b ELSE do_dib_update(jt[s \ {Max(s)}], q[Max(s)])]
  <2>1. ASSUME NEW s \in SUBSET (1 .. m), s # {}
        PROVE  F[<<jt[s \ {Top(s)}], Top(s)>>] = do_dib_update(jt[s \ {Max(s)}], q[Max(s)])
    <3>1. Top(s) \in 1 .. m
      BY <2>1, <1>1, TopOf
    <3>2. jt[s \ {Top(s)}] \in T
      BY <1>3
    <3>3. Max(s) = Top(s)
      BY DEF Max, Top
    <3>4. QED
      BY <3>1, <3>2, <3>3
  <2> HIDE DEF F
  <2>2. \A s \in SUBSET (1 .. m) :
           jt[s] = IF s = {} THEN b ELSE F[<<jt[s \ {Top(s)}], Top(s)>>]
    BY <1>3 DEF FoldsTo
  <2>3. QED
    BY <2>1, <2>2, <1>1, <1>3
<1>5. PICK it : /\ it = [s \in SUBSET DOMAIN q |->
                            IF s = {} THEN b ELSE do_dib_update(it[s \ {Max(s)}], q[Max(s)])]
                /\ FoldLeft(do_dib_update, b, q) = it[DOMAIN q]
  BY <1>4, Zenon DEF FoldLeft, MapThenFoldSet
<1>6. it[1 .. 0] = b
  <2>1. 1 .. 0 = {} /\ {} \in SUBSET DOMAIN q
    OBVIOUS
  <2>2. QED
    BY <1>5, <2>1
<1>7. ASSUME NEW k \in 1 .. m
      PROVE  it[1 .. k] = do_dib_update(it[1 .. k - 1], q[k])
  <2>1. /\ Top(1 .. k) = k /\ (1 .. k) \ {k} = 1 .. k - 1 /\ 1 .. k # {}
        /\ 1 .. k \in SUBSET DOMAIN q
    <3>1. k \in Nat \ {0} /\ 1 .. k \in SUBSET (1 .. m)
      BY <1>1
    <3>2. QED
      BY <1>1, <3>1, TopOfFirst
  <2>2. Max(1 .. k) = k
    BY <2>1 DEF Max, Top
  <2>3. it[1 .. k] = do_dib_update(it[(1 .. k) \ {Max(1 .. k)}], q[Max(1 .. k)])
    BY <1>5, <2>1
  <2>4. QED
    BY <2>1, <2>2, <2>3
<1> DEFINE S == {k \in 0 .. m : it[1 .. k] \in T}
<1>8. \A k \in 0 .. m : k \in S
  <2>1. 0 \in S
    BY <1>1, <1>6
  <2>2. ASSUME NEW k \in 1 .. m, k - 1 \in S
        PROVE  k \in S
    BY <1>1, <1>7, <2>2
  <2> HIDE DEF S
  <2>3. QED
    BY <1>1, <2>1, <2>2, UpTo
<1> DEFINE g == [k \in 0 .. m |-> it[1 .. k]]
<1>9. g \in [0 .. m -> T] /\ g[0] = b /\ g[m] = it[DOMAIN q]
  BY <1>1, <1>6, <1>8
<1>10. \A k \in 1 .. m : g[k] = do_dib_update(g[k - 1], q[k])
  <2>1. \A k \in 1 .. m : k \in 0 .. m /\ k - 1 \in 0 .. m
    BY <1>1
  <2>2. QED
    BY <1>7, <2>1
<1> HIDE DEF g
<1>11. QED
  BY <1>1, <1>5, <1>9, <1>10 DEF m, UpdatePath

\* The instructions to promote.
PromotePath(T, b, q) ==
    \E g \in [0 .. Len(q) -> T] :
       /\ FoldLeft(PromoteOne, b, q) = g[Len(q)]
       /\ g[0] = b
       /\ \A k \in 1 .. Len(q) : g[k] = PromoteOne(g[k - 1], q[k])

\* They pass through a value of T for each.
LEMMA PromoteFold ==
  ASSUME NEW T, NEW b, NEW E, NEW q, b \in T, q \in Seq(E),
         \A x \in T, e \in E : PromoteOne(x, e) \in T
  PROVE  PromotePath(T, b, q)
<1> DEFINE m == Len(q)
           F == [z \in T \X (1 .. m) |-> PromoteOne(z[1], q[z[2]])]
<1>1. m \in Nat /\ DOMAIN q = 1 .. m /\ \A k \in 1 .. m : q[k] \in E
  BY LenProperties
<1> HIDE DEF m
<1>2. F \in [T \X (1 .. m) -> T]
  BY <1>1
<1>3. PICK jt \in [SUBSET (1 .. m) -> T] : FoldsTo(jt, m, b, F)
  <2> HIDE DEF F
  <2>1. QED
    BY <1>1, <1>2, FoldExists
<1>4. jt = [s \in SUBSET DOMAIN q |->
               IF s = {} THEN b ELSE PromoteOne(jt[s \ {Max(s)}], q[Max(s)])]
  <2>1. ASSUME NEW s \in SUBSET (1 .. m), s # {}
        PROVE  F[<<jt[s \ {Top(s)}], Top(s)>>] = PromoteOne(jt[s \ {Max(s)}], q[Max(s)])
    <3>1. Top(s) \in 1 .. m
      BY <2>1, <1>1, TopOf
    <3>2. jt[s \ {Top(s)}] \in T
      BY <1>3
    <3>3. Max(s) = Top(s)
      BY DEF Max, Top
    <3>4. QED
      BY <3>1, <3>2, <3>3
  <2> HIDE DEF F
  <2>2. \A s \in SUBSET (1 .. m) :
           jt[s] = IF s = {} THEN b ELSE F[<<jt[s \ {Top(s)}], Top(s)>>]
    BY <1>3 DEF FoldsTo
  <2>3. QED
    BY <2>1, <2>2, <1>1, <1>3
<1>5. PICK it : /\ it = [s \in SUBSET DOMAIN q |->
                            IF s = {} THEN b ELSE PromoteOne(it[s \ {Max(s)}], q[Max(s)])]
                /\ FoldLeft(PromoteOne, b, q) = it[DOMAIN q]
  BY <1>4, Zenon DEF FoldLeft, MapThenFoldSet
<1>6. it[1 .. 0] = b
  <2>1. 1 .. 0 = {} /\ {} \in SUBSET DOMAIN q
    OBVIOUS
  <2>2. QED
    BY <1>5, <2>1
<1>7. ASSUME NEW k \in 1 .. m
      PROVE  it[1 .. k] = PromoteOne(it[1 .. k - 1], q[k])
  <2>1. /\ Top(1 .. k) = k /\ (1 .. k) \ {k} = 1 .. k - 1 /\ 1 .. k # {}
        /\ 1 .. k \in SUBSET DOMAIN q
    <3>1. k \in Nat \ {0} /\ 1 .. k \in SUBSET (1 .. m)
      BY <1>1
    <3>2. QED
      BY <1>1, <3>1, TopOfFirst
  <2>2. Max(1 .. k) = k
    BY <2>1 DEF Max, Top
  <2>3. it[1 .. k] = PromoteOne(it[(1 .. k) \ {Max(1 .. k)}], q[Max(1 .. k)])
    BY <1>5, <2>1
  <2>4. QED
    BY <2>1, <2>2, <2>3
<1> DEFINE S == {k \in 0 .. m : it[1 .. k] \in T}
<1>8. \A k \in 0 .. m : k \in S
  <2>1. 0 \in S
    BY <1>1, <1>6
  <2>2. ASSUME NEW k \in 1 .. m, k - 1 \in S
        PROVE  k \in S
    BY <1>1, <1>7, <2>2
  <2> HIDE DEF S
  <2>3. QED
    BY <1>1, <2>1, <2>2, UpTo
<1> DEFINE g == [k \in 0 .. m |-> it[1 .. k]]
<1>9. g \in [0 .. m -> T] /\ g[0] = b /\ g[m] = it[DOMAIN q]
  BY <1>1, <1>6, <1>8
<1>10. \A k \in 1 .. m : g[k] = PromoteOne(g[k - 1], q[k])
  <2>1. \A k \in 1 .. m : k \in 0 .. m /\ k - 1 \in 0 .. m
    BY <1>1
  <2>2. QED
    BY <1>7, <2>1
<1> HIDE DEF g
<1>11. QED
  BY <1>1, <1>5, <1>9, <1>10 DEF m, PromotePath

\* The chunks to fetch.
FetchPath(T, b, q) ==
    \E g \in [0 .. Len(q) -> T] :
       /\ FoldLeft(FetchChunk, b, q) = g[Len(q)]
       /\ g[0] = b
       /\ \A k \in 1 .. Len(q) : g[k] = FetchChunk(g[k - 1], q[k])

\* They pass through a value of T for each.
LEMMA FetchFold ==
  ASSUME NEW T, NEW b, NEW E, NEW q, b \in T, q \in Seq(E),
         \A x \in T, e \in E : FetchChunk(x, e) \in T
  PROVE  FetchPath(T, b, q)
<1> DEFINE m == Len(q)
           F == [z \in T \X (1 .. m) |-> FetchChunk(z[1], q[z[2]])]
<1>1. m \in Nat /\ DOMAIN q = 1 .. m /\ \A k \in 1 .. m : q[k] \in E
  BY LenProperties
<1> HIDE DEF m
<1>2. F \in [T \X (1 .. m) -> T]
  BY <1>1
<1>3. PICK jt \in [SUBSET (1 .. m) -> T] : FoldsTo(jt, m, b, F)
  <2> HIDE DEF F
  <2>1. QED
    BY <1>1, <1>2, FoldExists
<1>4. jt = [s \in SUBSET DOMAIN q |->
               IF s = {} THEN b ELSE FetchChunk(jt[s \ {Max(s)}], q[Max(s)])]
  <2>1. ASSUME NEW s \in SUBSET (1 .. m), s # {}
        PROVE  F[<<jt[s \ {Top(s)}], Top(s)>>] = FetchChunk(jt[s \ {Max(s)}], q[Max(s)])
    <3>1. Top(s) \in 1 .. m
      BY <2>1, <1>1, TopOf
    <3>2. jt[s \ {Top(s)}] \in T
      BY <1>3
    <3>3. Max(s) = Top(s)
      BY DEF Max, Top
    <3>4. QED
      BY <3>1, <3>2, <3>3
  <2> HIDE DEF F
  <2>2. \A s \in SUBSET (1 .. m) :
           jt[s] = IF s = {} THEN b ELSE F[<<jt[s \ {Top(s)}], Top(s)>>]
    BY <1>3 DEF FoldsTo
  <2>3. QED
    BY <2>1, <2>2, <1>1, <1>3
<1>5. PICK it : /\ it = [s \in SUBSET DOMAIN q |->
                            IF s = {} THEN b ELSE FetchChunk(it[s \ {Max(s)}], q[Max(s)])]
                /\ FoldLeft(FetchChunk, b, q) = it[DOMAIN q]
  BY <1>4, Zenon DEF FoldLeft, MapThenFoldSet
<1>6. it[1 .. 0] = b
  <2>1. 1 .. 0 = {} /\ {} \in SUBSET DOMAIN q
    OBVIOUS
  <2>2. QED
    BY <1>5, <2>1
<1>7. ASSUME NEW k \in 1 .. m
      PROVE  it[1 .. k] = FetchChunk(it[1 .. k - 1], q[k])
  <2>1. /\ Top(1 .. k) = k /\ (1 .. k) \ {k} = 1 .. k - 1 /\ 1 .. k # {}
        /\ 1 .. k \in SUBSET DOMAIN q
    <3>1. k \in Nat \ {0} /\ 1 .. k \in SUBSET (1 .. m)
      BY <1>1
    <3>2. QED
      BY <1>1, <3>1, TopOfFirst
  <2>2. Max(1 .. k) = k
    BY <2>1 DEF Max, Top
  <2>3. it[1 .. k] = FetchChunk(it[(1 .. k) \ {Max(1 .. k)}], q[Max(1 .. k)])
    BY <1>5, <2>1
  <2>4. QED
    BY <2>1, <2>2, <2>3
<1> DEFINE S == {k \in 0 .. m : it[1 .. k] \in T}
<1>8. \A k \in 0 .. m : k \in S
  <2>1. 0 \in S
    BY <1>1, <1>6
  <2>2. ASSUME NEW k \in 1 .. m, k - 1 \in S
        PROVE  k \in S
    BY <1>1, <1>7, <2>2
  <2> HIDE DEF S
  <2>3. QED
    BY <1>1, <2>1, <2>2, UpTo
<1> DEFINE g == [k \in 0 .. m |-> it[1 .. k]]
<1>9. g \in [0 .. m -> T] /\ g[0] = b /\ g[m] = it[DOMAIN q]
  BY <1>1, <1>6, <1>8
<1>10. \A k \in 1 .. m : g[k] = FetchChunk(g[k - 1], q[k])
  <2>1. \A k \in 1 .. m : k \in 0 .. m /\ k - 1 \in 0 .. m
    BY <1>1
  <2>2. QED
    BY <1>7, <2>1
<1> HIDE DEF g
<1>11. QED
  BY <1>1, <1>5, <1>9, <1>10 DEF m, FetchPath

\* The lookups in the DIB.
CheckPath(T, b, q) ==
    \E g \in [0 .. Len(q) -> T] :
       /\ FoldLeft(do_check_dib, b, q) = g[Len(q)]
       /\ g[0] = b
       /\ \A k \in 1 .. Len(q) : g[k] = do_check_dib(g[k - 1], q[k])

\* They pass through a value of T for each.
LEMMA CheckFold ==
  ASSUME NEW T, NEW b, NEW E, NEW q, b \in T, q \in Seq(E),
         \A x \in T, e \in E : do_check_dib(x, e) \in T
  PROVE  CheckPath(T, b, q)
<1> DEFINE m == Len(q)
           F == [z \in T \X (1 .. m) |-> do_check_dib(z[1], q[z[2]])]
<1>1. m \in Nat /\ DOMAIN q = 1 .. m /\ \A k \in 1 .. m : q[k] \in E
  BY LenProperties
<1> HIDE DEF m
<1>2. F \in [T \X (1 .. m) -> T]
  BY <1>1
<1>3. PICK jt \in [SUBSET (1 .. m) -> T] : FoldsTo(jt, m, b, F)
  <2> HIDE DEF F
  <2>1. QED
    BY <1>1, <1>2, FoldExists
<1>4. jt = [s \in SUBSET DOMAIN q |->
               IF s = {} THEN b ELSE do_check_dib(jt[s \ {Max(s)}], q[Max(s)])]
  <2>1. ASSUME NEW s \in SUBSET (1 .. m), s # {}
        PROVE  F[<<jt[s \ {Top(s)}], Top(s)>>] = do_check_dib(jt[s \ {Max(s)}], q[Max(s)])
    <3>1. Top(s) \in 1 .. m
      BY <2>1, <1>1, TopOf
    <3>2. jt[s \ {Top(s)}] \in T
      BY <1>3
    <3>3. Max(s) = Top(s)
      BY DEF Max, Top
    <3>4. QED
      BY <3>1, <3>2, <3>3
  <2> HIDE DEF F
  <2>2. \A s \in SUBSET (1 .. m) :
           jt[s] = IF s = {} THEN b ELSE F[<<jt[s \ {Top(s)}], Top(s)>>]
    BY <1>3 DEF FoldsTo
  <2>3. QED
    BY <2>1, <2>2, <1>1, <1>3
<1>5. PICK it : /\ it = [s \in SUBSET DOMAIN q |->
                            IF s = {} THEN b ELSE do_check_dib(it[s \ {Max(s)}], q[Max(s)])]
                /\ FoldLeft(do_check_dib, b, q) = it[DOMAIN q]
  BY <1>4, Zenon DEF FoldLeft, MapThenFoldSet
<1>6. it[1 .. 0] = b
  <2>1. 1 .. 0 = {} /\ {} \in SUBSET DOMAIN q
    OBVIOUS
  <2>2. QED
    BY <1>5, <2>1
<1>7. ASSUME NEW k \in 1 .. m
      PROVE  it[1 .. k] = do_check_dib(it[1 .. k - 1], q[k])
  <2>1. /\ Top(1 .. k) = k /\ (1 .. k) \ {k} = 1 .. k - 1 /\ 1 .. k # {}
        /\ 1 .. k \in SUBSET DOMAIN q
    <3>1. k \in Nat \ {0} /\ 1 .. k \in SUBSET (1 .. m)
      BY <1>1
    <3>2. QED
      BY <1>1, <3>1, TopOfFirst
  <2>2. Max(1 .. k) = k
    BY <2>1 DEF Max, Top
  <2>3. it[1 .. k] = do_check_dib(it[(1 .. k) \ {Max(1 .. k)}], q[Max(1 .. k)])
    BY <1>5, <2>1
  <2>4. QED
    BY <2>1, <2>2, <2>3
<1> DEFINE S == {k \in 0 .. m : it[1 .. k] \in T}
<1>8. \A k \in 0 .. m : k \in S
  <2>1. 0 \in S
    BY <1>1, <1>6
  <2>2. ASSUME NEW k \in 1 .. m, k - 1 \in S
        PROVE  k \in S
    BY <1>1, <1>7, <2>2
  <2> HIDE DEF S
  <2>3. QED
    BY <1>1, <2>1, <2>2, UpTo
<1> DEFINE g == [k \in 0 .. m |-> it[1 .. k]]
<1>9. g \in [0 .. m -> T] /\ g[0] = b /\ g[m] = it[DOMAIN q]
  BY <1>1, <1>6, <1>8
<1>10. \A k \in 1 .. m : g[k] = do_check_dib(g[k - 1], q[k])
  <2>1. \A k \in 1 .. m : k \in 0 .. m /\ k - 1 \in 0 .. m
    BY <1>1
  <2>2. QED
    BY <1>7, <2>1
<1> HIDE DEF g
<1>11. QED
  BY <1>1, <1>5, <1>9, <1>10 DEF m, CheckPath

\* The responses of the L1I.
ReturnPath(T, b, q) ==
    \E g \in [0 .. Len(q) -> T] :
       /\ FoldLeft(ReturnResponse, b, q) = g[Len(q)]
       /\ g[0] = b
       /\ \A k \in 1 .. Len(q) : g[k] = ReturnResponse(g[k - 1], q[k])

\* They pass through a value of T for each.
LEMMA ReturnFold ==
  ASSUME NEW T, NEW b, NEW E, NEW q, b \in T, q \in Seq(E),
         \A x \in T, e \in E : ReturnResponse(x, e) \in T
  PROVE  ReturnPath(T, b, q)
<1> DEFINE m == Len(q)
           F == [z \in T \X (1 .. m) |-> ReturnResponse(z[1], q[z[2]])]
<1>1. m \in Nat /\ DOMAIN q = 1 .. m /\ \A k \in 1 .. m : q[k] \in E
  BY LenProperties
<1> HIDE DEF m
<1>2. F \in [T \X (1 .. m) -> T]
  BY <1>1
<1>3. PICK jt \in [SUBSET (1 .. m) -> T] : FoldsTo(jt, m, b, F)
  <2> HIDE DEF F
  <2>1. QED
    BY <1>1, <1>2, FoldExists
<1>4. jt = [s \in SUBSET DOMAIN q |->
               IF s = {} THEN b ELSE ReturnResponse(jt[s \ {Max(s)}], q[Max(s)])]
  <2>1. ASSUME NEW s \in SUBSET (1 .. m), s # {}
        PROVE  F[<<jt[s \ {Top(s)}], Top(s)>>] = ReturnResponse(jt[s \ {Max(s)}], q[Max(s)])
    <3>1. Top(s) \in 1 .. m
      BY <2>1, <1>1, TopOf
    <3>2. jt[s \ {Top(s)}] \in T
      BY <1>3
    <3>3. Max(s) = Top(s)
      BY DEF Max, Top
    <3>4. QED
      BY <3>1, <3>2, <3>3
  <2> HIDE DEF F
  <2>2. \A s \in SUBSET (1 .. m) :
           jt[s] = IF s = {} THEN b ELSE F[<<jt[s \ {Top(s)}], Top(s)>>]
    BY <1>3 DEF FoldsTo
  <2>3. QED
    BY <2>1, <2>2, <1>1, <1>3
<1>5. PICK it : /\ it = [s \in SUBSET DOMAIN q |->
                            IF s = {} THEN b ELSE ReturnResponse(it[s \ {Max(s)}], q[Max(s)])]
                /\ FoldLeft(ReturnResponse, b, q) = it[DOMAIN q]
  BY <1>4, Zenon DEF FoldLeft, MapThenFoldSet
<1>6. it[1 .. 0] = b
  <2>1. 1 .. 0 = {} /\ {} \in SUBSET DOMAIN q
    OBVIOUS
  <2>2. QED
    BY <1>5, <2>1
<1>7. ASSUME NEW k \in 1 .. m
      PROVE  it[1 .. k] = ReturnResponse(it[1 .. k - 1], q[k])
  <2>1. /\ Top(1 .. k) = k /\ (1 .. k) \ {k} = 1 .. k - 1 /\ 1 .. k # {}
        /\ 1 .. k \in SUBSET DOMAIN q
    <3>1. k \in Nat \ {0} /\ 1 .. k \in SUBSET (1 .. m)
      BY <1>1
    <3>2. QED
      BY <1>1, <3>1, TopOfFirst
  <2>2. Max(1 .. k) = k
    BY <2>1 DEF Max, Top
  <2>3. it[1 .. k] = ReturnResponse(it[(1 .. k) \ {Max(1 .. k)}], q[Max(1 .. k)])
    BY <1>5, <2>1
  <2>4. QED
    BY <2>1, <2>2, <2>3
<1> DEFINE S == {k \in 0 .. m : it[1 .. k] \in T}
<1>8. \A k \in 0 .. m : k \in S
  <2>1. 0 \in S
    BY <1>1, <1>6
  <2>2. ASSUME NEW k \in 1 .. m, k - 1 \in S
        PROVE  k \in S
    BY <1>1, <1>7, <2>2
  <2> HIDE DEF S
  <2>3. QED
    BY <1>1, <2>1, <2>2, UpTo
<1> DEFINE g == [k \in 0 .. m |-> it[1 .. k]]
<1>9. g \in [0 .. m -> T] /\ g[0] = b /\ g[m] = it[DOMAIN q]
  BY <1>1, <1>6, <1>8
<1>10. \A k \in 1 .. m : g[k] = ReturnResponse(g[k - 1], q[k])
  <2>1. \A k \in 1 .. m : k \in 0 .. m /\ k - 1 \in 0 .. m
    BY <1>1
  <2>2. QED
    BY <1>7, <2>1
<1> HIDE DEF g
<1>11. QED
  BY <1>1, <1>5, <1>9, <1>10 DEF m, ReturnPath

\* The instructions a response names.
NamePath(response, T, b, q) ==
    \E g \in [0 .. Len(q) -> T] :
       /\ ReturnIds(response, b, q) = g[Len(q)]
       /\ g[0] = b
       /\ \A k \in 1 .. Len(q) : g[k] = ReturnOne(response, g[k - 1], q[k])

\* They pass through a value of T for each.
LEMMA NameFold ==
  ASSUME NEW response, NEW T, NEW b, NEW E, NEW q, b \in T, q \in Seq(E),
         \A x \in T, e \in E : ReturnOne(response, x, e) \in T
  PROVE  NamePath(response, T, b, q)
<1> DEFINE m == Len(q)
           F == [z \in T \X (1 .. m) |-> ReturnOne(response, z[1], q[z[2]])]
<1>1. m \in Nat /\ DOMAIN q = 1 .. m /\ \A k \in 1 .. m : q[k] \in E
  BY LenProperties
<1> HIDE DEF m
<1>2. F \in [T \X (1 .. m) -> T]
  BY <1>1
<1>3. PICK jt \in [SUBSET (1 .. m) -> T] : FoldsTo(jt, m, b, F)
  <2> HIDE DEF F
  <2>1. QED
    BY <1>1, <1>2, FoldExists
<1>4. jt = [s \in SUBSET DOMAIN q |->
               IF s = {} THEN b ELSE ReturnOne(response, jt[s \ {Max(s)}], q[Max(s)])]
  <2>1. ASSUME NEW s \in SUBSET (1 .. m), s # {}
        PROVE  F[<<jt[s \ {Top(s)}], Top(s)>>] = ReturnOne(response, jt[s \ {Max(s)}], q[Max(s)])
    <3>1. Top(s) \in 1 .. m
      BY <2>1, <1>1, TopOf
    <3>2. jt[s \ {Top(s)}] \in T
      BY <1>3
    <3>3. Max(s) = Top(s)
      BY DEF Max, Top
    <3>4. QED
      BY <3>1, <3>2, <3>3
  <2> HIDE DEF F
  <2>2. \A s \in SUBSET (1 .. m) :
           jt[s] = IF s = {} THEN b ELSE F[<<jt[s \ {Top(s)}], Top(s)>>]
    BY <1>3 DEF FoldsTo
  <2>3. QED
    BY <2>1, <2>2, <1>1, <1>3
<1>5. PICK it : /\ it = [s \in SUBSET DOMAIN q |->
                            IF s = {} THEN b ELSE ReturnOne(response, it[s \ {Max(s)}], q[Max(s)])]
                /\ ReturnIds(response, b, q) = it[DOMAIN q]
  BY <1>4, Zenon DEF FoldLeft, MapThenFoldSet, ReturnIds
<1>6. it[1 .. 0] = b
  <2>1. 1 .. 0 = {} /\ {} \in SUBSET DOMAIN q
    OBVIOUS
  <2>2. QED
    BY <1>5, <2>1
<1>7. ASSUME NEW k \in 1 .. m
      PROVE  it[1 .. k] = ReturnOne(response, it[1 .. k - 1], q[k])
  <2>1. /\ Top(1 .. k) = k /\ (1 .. k) \ {k} = 1 .. k - 1 /\ 1 .. k # {}
        /\ 1 .. k \in SUBSET DOMAIN q
    <3>1. k \in Nat \ {0} /\ 1 .. k \in SUBSET (1 .. m)
      BY <1>1
    <3>2. QED
      BY <1>1, <3>1, TopOfFirst
  <2>2. Max(1 .. k) = k
    BY <2>1 DEF Max, Top
  <2>3. it[1 .. k] = ReturnOne(response, it[(1 .. k) \ {Max(1 .. k)}], q[Max(1 .. k)])
    BY <1>5, <2>1
  <2>4. QED
    BY <2>1, <2>2, <2>3
<1> DEFINE S == {k \in 0 .. m : it[1 .. k] \in T}
<1>8. \A k \in 0 .. m : k \in S
  <2>1. 0 \in S
    BY <1>1, <1>6
  <2>2. ASSUME NEW k \in 1 .. m, k - 1 \in S
        PROVE  k \in S
    BY <1>1, <1>7, <2>2
  <2> HIDE DEF S
  <2>3. QED
    BY <1>1, <2>1, <2>2, UpTo
<1> DEFINE g == [k \in 0 .. m |-> it[1 .. k]]
<1>9. g \in [0 .. m -> T] /\ g[0] = b /\ g[m] = it[DOMAIN q]
  BY <1>1, <1>6, <1>8
<1>10. \A k \in 1 .. m : g[k] = ReturnOne(response, g[k - 1], q[k])
  <2>1. \A k \in 1 .. m : k \in 0 .. m /\ k - 1 \in 0 .. m
    BY <1>1
  <2>2. QED
    BY <1>7, <2>1
<1> HIDE DEF g
<1>11. QED
  BY <1>1, <1>5, <1>9, <1>10 DEF m, NamePath

-----------------------------------------------------------------------------
(* decode_instruction. *)

\* The two sequences have no order.
LEMMA MergedSwap ==
  ASSUME NEW T, NEW s \in Seq(T), NEW t \in Seq(T), NEW base \in Nat, Merged(s, t, base)
  PROVE  Merged(t, s, base)
<1>1. Len(s) \in Nat /\ Len(t) \in Nat
  BY LenProperties
<1>2. base + Len(s) + Len(t) = base + Len(t) + Len(s)
  BY <1>1
<1>3. QED
  BY <1>2 DEF Merged

\* The older of the two fronts is the next of all.
LEMMA MergedFront ==
  ASSUME NEW T, NEW s \in Seq(T), NEW t \in Seq(T), NEW base \in Nat, Merged(s, t, base),
         \A e \in T : e.id \in Nat, s # << >>, t = << >> \/ Head(s).id < Head(t).id
  PROVE  Head(s).id = base + 1 /\ Merged(Tail(s), t, base + 1)
<1> DEFINE m == Len(s)
           n == Len(t)
           w == Tail(s)
           top == base + m + n
<1>1. /\ w \in Seq(T) /\ Len(w) = m - 1 /\ m \in Nat \ {0} /\ Head(s) = s[1]
      /\ \A i \in 1 .. m - 1 : w[i] = s[i + 1]
  BY CountTail
<1>2. n \in Nat /\ (t # << >> => n # 0 /\ Head(t) = t[1])
  BY LenProperties, CountTail
<1>3. /\ \A i \in 1 .. m : s[i].id \in Nat
      /\ \A i \in 1 .. n : t[i].id \in Nat
  BY LenProperties
<1>4. /\ \A i, j \in 1 .. m : i < j => s[i].id < s[j].id
      /\ \A i, j \in 1 .. n : i < j => t[i].id < t[j].id
      /\ \A i \in 1 .. m : s[i].id \in base + 1 .. top
      /\ \A i \in 1 .. n : t[i].id \in base + 1 .. top
      /\ \A id \in base + 1 .. top :
            (\E i \in 1 .. m : s[i].id = id) \/ (\E i \in 1 .. n : t[i].id = id)
      /\ \A i \in 1 .. m, j \in 1 .. n : s[i].id # t[j].id
  BY DEF Merged, Ascending
<1> HIDE DEF w, m, n
<1>5. s[1].id = base + 1
  <2>1. 1 \in 1 .. m /\ s[1].id \in base + 1 .. top
    BY <1>1, <1>4
  <2>2. base + 1 \in base + 1 .. top
    BY <1>1, <1>2
  <2>3. CASE \E i \in 1 .. m : s[i].id = base + 1
    <3>1. PICK i \in 1 .. m : s[i].id = base + 1
      BY <2>3
    <3>2. i = 1 \/ 1 < i
      BY <1>1
    <3>3. s[1].id <= s[i].id
      BY <3>2, <2>1, <1>3, <1>4
    <3>4. QED
      BY <3>1, <3>3, <2>1, <1>3
  <2>4. CASE \E i \in 1 .. n : t[i].id = base + 1
    <3>1. PICK i \in 1 .. n : t[i].id = base + 1
      BY <2>4
    <3>2. n # 0 /\ 1 \in 1 .. n /\ (i = 1 \/ 1 < i)
      BY <3>1, <1>2
    <3>3. t # << >>
      BY <3>2, LenProperties DEF n
    <3>4. s[1].id < t[1].id
      BY <3>3, <1>1, <1>2
    <3>5. t[1].id <= t[i].id
      <4>1. CASE i = 1
        BY <4>1, <3>2, <1>3
      <4>2. CASE 1 < i
        BY <4>2, <3>2, <1>3, <1>4
      <4>3. QED
        BY <4>1, <4>2, <3>2
    <3>6. QED
      BY <3>1, <3>2, <3>4, <3>5, <2>1, <1>3
  <2>5. QED
    BY <2>2, <2>3, <2>4, <1>4
<1>6. Len(w) = m - 1 /\ base + 1 + Len(w) + n = top
  BY <1>1, <1>2
<1>7. \A i \in 1 .. m - 1 : i + 1 \in 1 .. m /\ 1 < i + 1 /\ w[i] = s[i + 1]
  BY <1>1
<1>8. Ascending(w)
  <2> SUFFICES ASSUME NEW i \in 1 .. m - 1, NEW j \in 1 .. m - 1, i < j
               PROVE  w[i].id < w[j].id
    BY <1>6 DEF Ascending
  <2>1. i + 1 < j + 1
    BY <1>1
  <2>2. QED
    BY <2>1, <1>4, <1>7
<1>9. \A i \in 1 .. m - 1 : w[i].id \in base + 2 .. top
  <2> SUFFICES ASSUME NEW i \in 1 .. m - 1
               PROVE  w[i].id \in base + 2 .. top
    OBVIOUS
  <2>1. 1 \in 1 .. m /\ i + 1 \in 1 .. m /\ 1 < i + 1 /\ w[i] = s[i + 1]
    BY <1>1, <1>7
  <2>2. s[1].id < s[i + 1].id /\ s[i + 1].id \in base + 1 .. top
    BY <2>1, <1>4
  <2>3. QED
    BY <2>1, <2>2, <1>5
<1>10. \A i \in 1 .. n : t[i].id \in base + 2 .. top
  <2>1. 1 \in 1 .. m
    BY <1>1
  <2>2. QED
    BY <2>1, <1>4, <1>5
<1>11. \A id \in base + 2 .. top :
          (\E i \in 1 .. m - 1 : w[i].id = id) \/ (\E i \in 1 .. n : t[i].id = id)
  <2> SUFFICES ASSUME NEW id \in base + 2 .. top, ~ \E i \in 1 .. n : t[i].id = id
               PROVE  \E i \in 1 .. m - 1 : w[i].id = id
    OBVIOUS
  <2>1. PICK i \in 1 .. m : s[i].id = id
    BY <1>4
  <2>2. i - 1 \in 1 .. m - 1 /\ i - 1 + 1 = i
    BY <2>1, <1>1, <1>5
  <2>3. w[i - 1] = s[i]
    BY <2>2, <1>7
  <2>4. QED
    BY <2>1, <2>2, <2>3
<1>12. \A i \in 1 .. m - 1, j \in 1 .. n : w[i].id # t[j].id
  BY <1>4, <1>7
<1>13. base + 1 + 1 = base + 2
  OBVIOUS
<1>14. Ascending(t)
  BY <1>4 DEF Ascending, n
<1>15. Merged(w, t, base + 1)
  BY <1>6, <1>8, <1>9, <1>10, <1>11, <1>12, <1>13, <1>14 DEF Merged, n
<1>16. QED
  BY <1>1, <1>5, <1>15 DEF w

\* A sequence gets the next instruction.
LEMMA MergedNext ==
  ASSUME NEW T, NEW s \in Seq(T), NEW t \in Seq(T), NEW base \in Nat, Merged(s, t, base),
         \A e \in T : e.id \in Nat, NEW e \in T, e.id = base + Len(s) + Len(t) + 1
  PROVE  Merged(Append(s, e), t, base)
<1> DEFINE m == Len(s)
           n == Len(t)
           w == Append(s, e)
           top == base + m + n
<1>1. /\ w \in Seq(T) /\ Len(w) = m + 1 /\ m \in Nat
      /\ \A i \in 1 .. m : w[i] = s[i]
      /\ w[m + 1] = e
  BY AppendProperties, LenProperties
<1>2. n \in Nat
  BY LenProperties
<1>3. /\ \A i \in 1 .. m : s[i].id \in Nat
      /\ \A i \in 1 .. n : t[i].id \in Nat
  BY LenProperties
<1>4. /\ \A i, j \in 1 .. m : i < j => s[i].id < s[j].id
      /\ \A i \in 1 .. m : s[i].id \in base + 1 .. top
      /\ \A i \in 1 .. n : t[i].id \in base + 1 .. top
      /\ \A id \in base + 1 .. top :
            (\E i \in 1 .. m : s[i].id = id) \/ (\E i \in 1 .. n : t[i].id = id)
      /\ \A i \in 1 .. m, j \in 1 .. n : s[i].id # t[j].id
      /\ Ascending(t)
  BY DEF Merged, Ascending
<1>5. e.id = top + 1
  OBVIOUS
<1> HIDE DEF w, m, n
<1>6. top \in Nat /\ base + (m + 1) + n = top + 1
  BY <1>1, <1>2
<1> HIDE DEF top
<1>7. \A i \in 1 .. m + 1 : i \in 1 .. m \/ i = m + 1
  BY <1>1
<1>8. Ascending(w)
  <2> SUFFICES ASSUME NEW i \in 1 .. m + 1, NEW j \in 1 .. m + 1, i < j
               PROVE  w[i].id < w[j].id
    BY <1>1 DEF Ascending
  <2>1. i \in 1 .. m
    BY <1>1
  <2>2. CASE j \in 1 .. m
    BY <2>1, <2>2, <1>1, <1>4
  <2>3. CASE j = m + 1
    <3>1. w[i].id \in base + 1 .. top /\ w[j].id = top + 1
      BY <2>1, <2>3, <1>1, <1>4, <1>5
    <3>2. QED
      BY <3>1, <1>6
  <2>4. QED
    BY <2>2, <2>3, <1>7
<1>9. \A i \in 1 .. m + 1 : w[i].id \in base + 1 .. top + 1
  <2> SUFFICES ASSUME NEW i \in 1 .. m + 1
               PROVE  w[i].id \in base + 1 .. top + 1
    OBVIOUS
  <2>1. CASE i \in 1 .. m
    <3>1. w[i].id \in base + 1 .. top
      BY <2>1, <1>1, <1>4
    <3>2. QED
      BY <3>1, <1>6
  <2>2. CASE i = m + 1
    <3>1. w[i].id = top + 1 /\ base <= top
      BY <2>2, <1>1, <1>2, <1>5 DEF top
    <3>2. QED
      BY <3>1, <1>6
  <2>3. QED
    BY <2>1, <2>2, <1>7
<1>10. \A i \in 1 .. n : t[i].id \in base + 1 .. top + 1
  BY <1>4, <1>6
<1>11. ASSUME NEW id \in base + 1 .. top + 1
       PROVE  (\E i \in 1 .. m + 1 : w[i].id = id) \/ (\E i \in 1 .. n : t[i].id = id)
  <2>1. CASE id = top + 1
    BY <2>1, <1>1, <1>5
  <2>2. CASE id \in base + 1 .. top
    <3>1. (\E i \in 1 .. m : s[i].id = id) \/ (\E i \in 1 .. n : t[i].id = id)
      BY <2>2, <1>4
    <3>2. \A i \in 1 .. m : i \in 1 .. m + 1
      BY <1>1
    <3>3. QED
      BY <3>1, <3>2, <1>1
  <2>3. id = top + 1 \/ id \in base + 1 .. top
    BY <1>6
  <2>4. QED
    BY <2>1, <2>2, <2>3
<1>12. ASSUME NEW i \in 1 .. m + 1, NEW j \in 1 .. n
       PROVE  w[i].id # t[j].id
  <2>1. CASE i \in 1 .. m
    <3>1. w[i] = s[i] /\ s[i].id # t[j].id
      BY <2>1, <1>1, <1>4
    <3>2. QED
      BY <3>1
  <2>2. CASE i = m + 1
    <3>1. w[i].id = top + 1 /\ t[j].id \in base + 1 .. top
      BY <2>2, <1>1, <1>4, <1>5
    <3>2. QED
      BY <3>1, <1>6
  <2>3. QED
    BY <2>1, <2>2, <1>7
<1>13. Merged(w, t, base)
  BY <1>1, <1>4, <1>6, <1>8, <1>9, <1>10, <1>11, <1>12 DEF Merged, n
<1>14. QED
  BY <1>13 DEF w

\* What a round of decode works on, begun after base with m and n instructions, of
\* which missed are mispredicted.
Deciding(base, m, n, missed) ==
    {x \in [dib : Seq(Entry), dec : Seq(Entry), out : Seq(Entry), bw : Nat] :
        /\ Merged(x.dib, x.dec, base + Len(x.out))
        /\ Consecutive(x.out, base)
        /\ Len(x.out) + Len(x.dib) + Len(x.dec) = m + n
        /\ Len(x.dib) <= m /\ Len(x.dec) <= n
        /\ Count(x.out, Missed) + Count(x.dib, Missed) + Count(x.dec, Missed) = missed}

\* The program is a sequence.
LEMMA ProgramSequence ==
  ASSUME TypeInv
  PROVE  /\ Len(program) \in Nat /\ DOMAIN program = 1 .. Len(program)
         /\ \A instr \in Entry : instr.id \in Nat
<1>1. program \in Seq(Range(program))
  BY FrontendAssumption DEF TypeInv
<1>2. Len(program) \in Nat /\ DOMAIN program = 1 .. Len(program)
  BY <1>1, LenProperties
<1>3. QED
  BY <1>2 DEF Entry

\* The configuration is one of sizes.
LEMMA ConfigSizes ==
  ASSUME TypeInv
  PROVE  /\ cfg.FETCH_WIDTH \in Nat /\ cfg.DECODE_WIDTH \in Nat
         /\ cfg.DIB_INORDER_WIDTH \in Nat /\ cfg.L1I_BANDWIDTH \in Nat
         /\ cfg.IFETCH_BUFFER_SIZE \in Nat /\ cfg.DIB_HIT_BUFFER_SIZE \in Nat
         /\ cfg.DECODE_BUFFER_SIZE \in Nat /\ cfg.DISPATCH_BUFFER_SIZE \in Nat
         /\ cfg.DIB_WAY \in Nat /\ cfg.RQ_SIZE \in Nat /\ cfg.DIB_HIT_LATENCY \in Nat
         /\ cfg.DECODE_LATENCY \in Nat /\ cfg.DISPATCH_LATENCY \in Nat
         /\ cfg.BRANCH_MISPREDICT_PENALTY \in 0 .. Never - 1
BY FrontendAssumption, Zenon DEF TypeInv

\* The front of one sequence goes out.
LEMMA TakeFront ==
  ASSUME TypeInv, NEW s \in Seq(Entry), NEW t \in Seq(Entry), NEW out \in Seq(Entry),
         NEW base \in Nat, Merged(s, t, base + Len(out)), Consecutive(out, base),
         s # << >>, t = << >> \/ Head(s).id < Head(t).id
  PROVE  LET w == Tail(s)
             o == Append(out, Head(s))
         IN  /\ w \in Seq(Entry) /\ o \in Seq(Entry)
             /\ Len(w) = Len(s) - 1 /\ Len(o) = Len(out) + 1
             /\ Merged(w, t, base + Len(o)) /\ Consecutive(o, base)
             /\ Count(o, Missed) + Count(w, Missed) = Count(out, Missed) + Count(s, Missed)
<1> DEFINE w == Tail(s)
           h == Head(s)
           o == Append(out, h)
<1>1. /\ w \in Seq(Entry) /\ Len(w) = Len(s) - 1 /\ h \in Entry
      /\ Count(s, Missed) = One(h \in Missed) + Count(w, Missed)
  BY CountTail
<1>2. Len(out) \in Nat /\ base + Len(out) \in Nat
  BY LenProperties
<1>3. h.id = base + Len(out) + 1 /\ Merged(w, t, base + Len(out) + 1)
  <2>1. \A e \in Entry : e.id \in Nat
    BY ProgramSequence
  <2>2. QED
    BY <2>1, <1>2, MergedFront
<1> HIDE DEF w, h
<1>4. /\ o \in Seq(Entry) /\ Len(o) = Len(out) + 1
      /\ \A i \in 1 .. Len(out) : o[i] = out[i]
      /\ o[Len(out) + 1] = h
  BY <1>1, AppendProperties
<1>5. Count(o, Missed) = Count(out, Missed) + One(h \in Missed)
  BY <1>1, CountAppend
<1> HIDE DEF o
<1>6. Consecutive(o, base)
  <2> SUFFICES ASSUME NEW i \in 1 .. Len(out) + 1
               PROVE  o[i].id = base + i
    BY <1>4 DEF Consecutive
  <2>1. CASE i \in 1 .. Len(out)
    BY <2>1, <1>4 DEF Consecutive
  <2>2. CASE i = Len(out) + 1
    BY <2>2, <1>2, <1>3, <1>4
  <2>3. QED
    BY <2>1, <2>2, <1>2
<1>7. Merged(w, t, base + Len(o))
  <2>1. base + Len(o) = base + Len(out) + 1
    BY <1>2, <1>4
  <2>2. QED
    BY <2>1, <1>3
<1>8. Count(o, Missed) + Count(w, Missed) = Count(out, Missed) + Count(s, Missed)
  <2>1. /\ Count(out, Missed) \in Nat /\ Count(w, Missed) \in Nat
        /\ One(h \in Missed) \in Nat
    BY <1>1, CountType DEF One
  <2>2. QED
    BY <2>1, <1>1, <1>5
<1>9. QED
  BY <1>1, <1>4, <1>6, <1>7, <1>8 DEF w, h, o

\* What makes a record of decode.
LEMMA DecidingRecord ==
  ASSUME NEW base, NEW m, NEW n, NEW missed, NEW dib \in Seq(Entry), NEW dec \in Seq(Entry),
         NEW out \in Seq(Entry), NEW bw \in Nat,
         Merged(dib, dec, base + Len(out)), Consecutive(out, base),
         Len(out) + Len(dib) + Len(dec) = m + n, Len(dib) <= m, Len(dec) <= n,
         Count(out, Missed) + Count(dib, Missed) + Count(dec, Missed) = missed
  PROVE  [dib |-> dib, dec |-> dec, out |-> out, bw |-> bw] \in Deciding(base, m, n, missed)
BY DEF Deciding

\* A round of decode.
LEMMA TakeKeeps ==
  ASSUME TypeInv, NEW base \in Nat, NEW m \in Nat, NEW n \in Nat, NEW missed \in Nat,
         NEW x \in Deciding(base, m, n, missed), NEW k
  PROVE  TakeOldest(x, k) \in Deciding(base, m, n, missed)
<1> DEFINE dib == x.dib
           dec == x.dec
           out == x.out
           r == TakeOldest(x, k)
<1>1. /\ x = [dib |-> dib, dec |-> dec, out |-> out, bw |-> x.bw]
      /\ dib \in Seq(Entry) /\ dec \in Seq(Entry) /\ out \in Seq(Entry) /\ x.bw \in Nat
      /\ Merged(dib, dec, base + Len(out)) /\ Consecutive(out, base)
  BY DEF Deciding
<1>2. CASE r = x
  BY <1>2
<1> HIDE DEF r
<1>3. /\ Len(out) + Len(dib) + Len(dec) = m + n
      /\ Len(dib) <= m /\ Len(dec) <= n
      /\ Count(out, Missed) + Count(dib, Missed) + Count(dec, Missed) = missed
  BY DEF Deciding
<1>4. /\ Len(out) \in Nat /\ Len(dib) \in Nat /\ Len(dec) \in Nat
      /\ Count(out, Missed) \in Nat /\ Count(dib, Missed) \in Nat /\ Count(dec, Missed) \in Nat
      /\ base + Len(out) \in Nat
  BY <1>1, LenProperties, CountType
<1>5. CASE FromDIB(x) /\ r # x
  <2> DEFINE w == Tail(dib)
             o == Append(out, Head(dib))
  <2>1. r = [dib |-> w, dec |-> dec, out |-> o, bw |-> x.bw]
    BY <1>1, <1>5 DEF TakeOldest, r
  <2>2. dib # << >> /\ (dec = << >> \/ Head(dib).id < Head(dec).id)
    BY <1>5 DEF FromDIB
  <2> HIDE DEF dib, dec, out
  <2>3. /\ w \in Seq(Entry) /\ o \in Seq(Entry)
        /\ Len(w) = Len(dib) - 1 /\ Len(o) = Len(out) + 1
        /\ Merged(w, dec, base + Len(o)) /\ Consecutive(o, base)
        /\ Count(o, Missed) + Count(w, Missed) = Count(out, Missed) + Count(dib, Missed)
    BY <2>2, <1>1, TakeFront
  <2>4. Count(o, Missed) \in Nat /\ Count(w, Missed) \in Nat
    BY <2>3, CountType
  <2> HIDE DEF w, o
  <2>5. /\ Len(o) + Len(w) + Len(dec) = m + n
        /\ Len(w) <= m
    <3>1. Len(o) + Len(w) + Len(dec) = Len(out) + Len(dib) + Len(dec)
      BY <2>3, <1>4
    <3>2. Len(w) <= Len(dib) /\ Len(w) \in Int
      BY <2>3, <1>4
    <3>3. QED
      BY <3>1, <3>2, <1>4, <1>3
  <2>6. Count(o, Missed) + Count(w, Missed) + Count(dec, Missed)
           = missed
    BY <2>3, <2>4, <1>3, <1>4
  <2>7. [dib |-> w, dec |-> dec, out |-> o, bw |-> x.bw] \in Deciding(base, m, n, missed)
    BY <2>3, <2>5, <2>6, <1>1, <1>3, DecidingRecord
  <2>8. QED
    BY <2>1, <2>7 DEF r
<1>6. CASE ~FromDIB(x) /\ r # x
  <2> DEFINE w == Tail(dec)
             o == Append(out, Head(dec))
  <2>1. /\ r = [dib |-> dib, dec |-> w, out |-> o, bw |-> x.bw - 1]
        /\ x.bw > 0 /\ dec # << >>
    BY <1>1, <1>6 DEF TakeOldest, r
  <2>2. dib = << >> \/ Head(dec).id < Head(dib).id
    <3> SUFFICES ASSUME dib # << >>
                 PROVE  Head(dec).id < Head(dib).id
      OBVIOUS
    <3>1. ~ (Head(dib).id < Head(dec).id)
      BY <1>6, <2>1 DEF FromDIB
    <3>2. /\ Head(dib) = dib[1] /\ Head(dec) = dec[1] /\ 1 \in 1 .. Len(dib) /\ 1 \in 1 .. Len(dec)
          /\ Head(dib) \in Entry /\ Head(dec) \in Entry
      <4>1. dib \in Seq(Entry) /\ dec \in Seq(Entry) /\ dib # << >> /\ dec # << >>
        BY <2>1, <1>1
      <4>2. /\ Head(dib) = dib[1] /\ Len(dib) \in Nat \ {0} /\ Head(dib) \in Entry
            /\ Head(dec) = dec[1] /\ Len(dec) \in Nat \ {0} /\ Head(dec) \in Entry
        BY <4>1, CountTail
      <4>3. QED
        BY <4>2
    <3>3. Head(dib).id # Head(dec).id
      <4>1. dib[1].id # dec[1].id
        BY <3>2, <1>1 DEF Merged
      <4>2. QED
        BY <3>2, <4>1
    <3>4. Head(dib).id \in Nat /\ Head(dec).id \in Nat
      BY <3>2, ProgramSequence
    <3>5. QED
      BY <3>1, <3>3, <3>4
  <2> HIDE DEF dib, dec, out
  <2>3. Merged(dec, dib, base + Len(out))
    BY <1>1, <1>4, MergedSwap
  <2>4. /\ w \in Seq(Entry) /\ o \in Seq(Entry)
        /\ Len(w) = Len(dec) - 1 /\ Len(o) = Len(out) + 1
        /\ Merged(w, dib, base + Len(o)) /\ Consecutive(o, base)
        /\ Count(o, Missed) + Count(w, Missed) = Count(out, Missed) + Count(dec, Missed)
    BY <2>1, <2>2, <2>3, <1>1, TakeFront
  <2>5. Count(o, Missed) \in Nat /\ Count(w, Missed) \in Nat
    BY <2>4, CountType
  <2> HIDE DEF w, o
  <2>6. base + Len(o) \in Nat
    BY <2>4, <1>4
  <2>7. Merged(dib, w, base + Len(o))
    BY <2>4, <2>6, <1>1, MergedSwap
  <2>8. /\ Len(o) + Len(dib) + Len(w) = m + n
        /\ Len(w) <= n
    <3>1. Len(o) + Len(dib) + Len(w) = Len(out) + Len(dib) + Len(dec)
      BY <2>4, <1>4
    <3>2. Len(w) <= Len(dec) /\ Len(w) \in Int
      BY <2>4, <1>4
    <3>3. QED
      BY <3>1, <3>2, <1>4, <1>3
  <2>9. Count(o, Missed) + Count(dib, Missed) + Count(w, Missed) = missed
    <3>1. /\ Count(o, Missed) + Count(w, Missed) = Count(out, Missed) + Count(dec, Missed)
          /\ Count(out, Missed) + Count(dib, Missed) + Count(dec, Missed) = missed
      BY <2>4, <1>3
    <3>2. /\ Count(out, Missed) \in Nat /\ Count(dib, Missed) \in Nat
          /\ Count(dec, Missed) \in Nat
      BY <1>4
    <3>3. QED
      BY <3>1, <3>2, <2>5
  <2>10. x.bw - 1 \in Nat
    BY <2>1, <1>1
  <2>11. [dib |-> dib, dec |-> w, out |-> o, bw |-> x.bw - 1] \in Deciding(base, m, n, missed)
    BY <2>4, <2>7, <2>8, <2>9, <2>10, <1>1, <1>3, DecidingRecord
  <2>12. QED
    BY <2>1, <2>11 DEF r
<1>7. QED
  BY <1>2, <1>5, <1>6

-----------------------------------------------------------------------------
(* Steps. *)

\* Programs and configurations stay, so the state after a step is judged by the sets
\* of the state before.
LEMMA InvNext ==
  ASSUME TypeInv, UNCHANGED configVars,
         initialized' \in 0 .. Len(program), dispatched' \in Nat,
         IFETCH_BUFFER' \in Seq(Entry), DIB_HIT_BUFFER' \in Seq(Entry),
         DECODE_BUFFER' \in Seq(Entry), DISPATCH_BUFFER' \in Seq(Entry),
         DIB' \in Table, L1I' \in ChannelOf(Read, Read), owed' \in Seq(Read),
         fetch_resume' \in 0 .. Never, budget' \in Nat,
         executing' \in SUBSET Entry, IsFiniteSet(executing'),
         Len(IFETCH_BUFFER') + budget' <= cfg.IFETCH_BUFFER_SIZE,
         Len(DIB_HIT_BUFFER') <= cfg.DIB_HIT_BUFFER_SIZE,
         Len(DECODE_BUFFER') <= cfg.DECODE_BUFFER_SIZE,
         Len(DISPATCH_BUFFER') <= cfg.DISPATCH_BUFFER_SIZE,
         Len(L1I'.RQ) <= cfg.RQ_SIZE,
         Consecutive(DISPATCH_BUFFER', dispatched'),
         Merged(DIB_HIT_BUFFER', DECODE_BUFFER', dispatched' + Len(DISPATCH_BUFFER')),
         Consecutive(IFETCH_BUFFER', initialized' - Len(IFETCH_BUFFER')),
         dispatched' + Len(DISPATCH_BUFFER') + Len(DIB_HIT_BUFFER') + Len(DECODE_BUFFER')
            + Len(IFETCH_BUFFER') = initialized',
         Covered(IFETCH_BUFFER', L1I'.RQ, owed', L1I'.returned),
         Count(DISPATCH_BUFFER', Missed) + Count(DIB_HIT_BUFFER', Missed)
            + Count(DECODE_BUFFER', Missed) + Count(IFETCH_BUFFER', Missed)
            + Cardinality(executing' \cap Missed) = One(fetch_resume' = Never),
         \A instr \in executing' : instr.id \in 1 .. dispatched'
  PROVE  FrontInv'
<1>1. cfg' = cfg /\ program' = program
  BY DEF configVars
<1>2. Lines' = Lines /\ Windows' = Windows /\ Results' = Results
  BY <1>1 DEF Lines, Windows, Results
<1>3. Entry' = Entry /\ Read' = Read /\ Table' = Table
  BY <1>1, <1>2 DEF Entry, Read, Table
<1>4. Missed' = Missed
  BY <1>3 DEF Missed
<1>5. TypeInv'
  BY <1>1, <1>3 DEF TypeInv
<1>6. SizeInv'
  BY <1>1 DEF SizeInv
<1>7. OrderInv'
  BY DEF OrderInv
<1>8. Covered(IFETCH_BUFFER, L1I.RQ, owed, L1I.returned)'
  BY <1>1, Zenon DEF Covered, Named, Names, Line
<1>9. StopInv'
  BY <1>4 DEF StopInv
<1>10. QED
  BY <1>5, <1>6, <1>7, <1>8, <1>9 DEF FrontInv

\* What the invariant says, by its parts.
LEMMA InvParts ==
  ASSUME FrontInv
  PROVE  /\ TypeInv
         /\ initialized \in 0 .. Len(program) /\ dispatched \in Nat
         /\ IFETCH_BUFFER \in Seq(Entry) /\ DIB_HIT_BUFFER \in Seq(Entry)
         /\ DECODE_BUFFER \in Seq(Entry) /\ DISPATCH_BUFFER \in Seq(Entry)
         /\ DIB \in Table /\ L1I \in ChannelOf(Read, Read) /\ owed \in Seq(Read)
         /\ fetch_resume \in 0 .. Never /\ budget \in Nat
         /\ executing \in SUBSET Entry /\ IsFiniteSet(executing)
         /\ Len(IFETCH_BUFFER) + budget <= cfg.IFETCH_BUFFER_SIZE
         /\ Len(DIB_HIT_BUFFER) <= cfg.DIB_HIT_BUFFER_SIZE
         /\ Len(DECODE_BUFFER) <= cfg.DECODE_BUFFER_SIZE
         /\ Len(DISPATCH_BUFFER) <= cfg.DISPATCH_BUFFER_SIZE
         /\ Len(L1I.RQ) <= cfg.RQ_SIZE
         /\ Consecutive(DISPATCH_BUFFER, dispatched)
         /\ Merged(DIB_HIT_BUFFER, DECODE_BUFFER, dispatched + Len(DISPATCH_BUFFER))
         /\ Consecutive(IFETCH_BUFFER, initialized - Len(IFETCH_BUFFER))
         /\ dispatched + Len(DISPATCH_BUFFER) + Len(DIB_HIT_BUFFER) + Len(DECODE_BUFFER)
               + Len(IFETCH_BUFFER) = initialized
         /\ Covered(IFETCH_BUFFER, L1I.RQ, owed, L1I.returned)
         /\ Count(DISPATCH_BUFFER, Missed) + Count(DIB_HIT_BUFFER, Missed)
               + Count(DECODE_BUFFER, Missed) + Count(IFETCH_BUFFER, Missed)
               + Cardinality(executing \cap Missed) = One(fetch_resume = Never)
         /\ \A instr \in executing : instr.id \in 1 .. dispatched
BY DEF FrontInv, TypeInv, SizeInv, OrderInv, StopInv

\* The counts are numbers.
LEMMA InvCounts ==
  ASSUME FrontInv
  PROVE  /\ Count(DISPATCH_BUFFER, Missed) \in Nat /\ Count(DIB_HIT_BUFFER, Missed) \in Nat
         /\ Count(DECODE_BUFFER, Missed) \in Nat /\ Count(IFETCH_BUFFER, Missed) \in Nat
         /\ IsFiniteSet(executing \cap Missed) /\ Cardinality(executing \cap Missed) \in Nat
         /\ One(fetch_resume = Never) \in {0, 1}
         /\ Len(DISPATCH_BUFFER) \in Nat /\ Len(DIB_HIT_BUFFER) \in Nat
         /\ Len(DECODE_BUFFER) \in Nat /\ Len(IFETCH_BUFFER) \in Nat
         /\ Len(program) \in Nat /\ Len(L1I.RQ) \in Nat
<1>1. /\ Count(DISPATCH_BUFFER, Missed) \in Nat /\ Count(DIB_HIT_BUFFER, Missed) \in Nat
      /\ Count(DECODE_BUFFER, Missed) \in Nat /\ Count(IFETCH_BUFFER, Missed) \in Nat
  BY InvParts, CountType
<1>2. IsFiniteSet(executing \cap Missed)
  BY InvParts, FS_Intersection
<1>3. Cardinality(executing \cap Missed) \in Nat
  BY <1>2, FS_CardinalityType
<1>4. /\ Len(DISPATCH_BUFFER) \in Nat /\ Len(DIB_HIT_BUFFER) \in Nat
      /\ Len(DECODE_BUFFER) \in Nat /\ Len(IFETCH_BUFFER) \in Nat
  BY InvParts, LenProperties
<1>5. Len(L1I.RQ) \in Nat
  <2>1. L1I.RQ \in Seq(Read)
    BY InvParts DEF ChannelOf
  <2>2. QED
    BY <2>1, LenProperties
<1>6. Len(program) \in Nat
  BY InvParts, ProgramSequence
<1>7. One(fetch_resume = Never) \in {0, 1}
  BY DEF One
<1>8. QED
  BY <1>1, <1>2, <1>3, <1>4, <1>5, <1>6, <1>7

\* A step that changes no variable, and the start of a cycle.
LEMMA StandStill ==
  ASSUME FrontInv,
         UNCHANGED <<bufferVars, fetchVars, L1I, configVars, externalVars>>
  PROVE  FrontInv'
<1>1. UNCHANGED configVars
  OBVIOUS
<1>2. UNCHANGED <<IFETCH_BUFFER, DIB_HIT_BUFFER, DECODE_BUFFER, DISPATCH_BUFFER, initialized,
                  fetch_resume, budget, DIB, L1I, owed, dispatched, executing>>
  BY DEF bufferVars, fetchVars, externalVars
<1>3. QED
  BY <1>1, <1>2, InvParts, InvNext

\* Time passes for the instructions of a buffer.
LEMMA PassedKept ==
  ASSUME NEW s \in Seq(Entry)
  PROVE  /\ AllPassed(s) \in Seq(Entry) /\ Len(AllPassed(s)) = Len(s)
         /\ \A i \in 1 .. Len(s) : AllPassed(s)[i].id = s[i].id
         /\ Count(AllPassed(s), Missed) = Count(s, Missed)
<1> DEFINE t == AllPassed(s)
<1>1. Len(s) \in Nat /\ DOMAIN s = 1 .. Len(s) /\ \A i \in 1 .. Len(s) : s[i] \in Entry
  BY LenProperties
<1>2. ASSUME NEW e \in Entry
      PROVE  LET d == [e EXCEPT !.ready = Passed(@)]
             IN  d \in Entry /\ d.id = e.id /\ d.mispredicted = e.mispredicted
  <2>1. Passed(e.ready) \in Nat
    BY DEF Passed, Entry, Never
  <2>2. QED
    BY <2>1 DEF Entry
<1>3. t = [i \in 1 .. Len(s) |-> [s[i] EXCEPT !.ready = Passed(@)]]
  BY <1>1 DEF AllPassed
<1>4. t \in [1 .. Len(s) -> Entry]
  BY <1>1, <1>2, <1>3
<1>5. t \in Seq(Entry) /\ Len(t) = Len(s)
  BY <1>1, <1>4, FunctionIsSequence
<1>6. \A i \in 1 .. Len(s) : t[i].id = s[i].id /\ (t[i] \in Missed <=> s[i] \in Missed)
  BY <1>1, <1>2, <1>3 DEF Missed
<1> HIDE DEF t
<1>7. Count(s, Missed) = Count(t, Missed)
  BY <1>5, <1>6, CountAlike
<1>8. QED
  BY <1>5, <1>6, <1>7 DEF t

\* Order is a matter of the ids.
LEMMA MergedAlike ==
  ASSUME NEW s, NEW t, NEW base, Merged(s, t, base), NEW w, NEW u,
         Len(w) = Len(s), \A i \in 1 .. Len(s) : w[i].id = s[i].id,
         Len(u) = Len(t), \A i \in 1 .. Len(t) : u[i].id = t[i].id
  PROVE  Merged(w, u, base)
<1>1. Ascending(w) /\ Ascending(u)
  BY DEF Merged, Ascending
<1> DEFINE top == base + Len(s) + Len(t)
<1>2. base + Len(w) + Len(u) = top
  OBVIOUS
<1>3. /\ \A i \in 1 .. Len(s) : s[i].id \in base + 1 .. top
      /\ \A i \in 1 .. Len(t) : t[i].id \in base + 1 .. top
      /\ \A id \in base + 1 .. top :
            \/ \E i \in 1 .. Len(s) : s[i].id = id
            \/ \E i \in 1 .. Len(t) : t[i].id = id
      /\ \A i \in 1 .. Len(s), j \in 1 .. Len(t) : s[i].id # t[j].id
  BY DEF Merged
<1> HIDE DEF top
<1>4. /\ \A i \in 1 .. Len(w) : w[i].id \in base + 1 .. top
      /\ \A i \in 1 .. Len(u) : u[i].id \in base + 1 .. top
      /\ \A id \in base + 1 .. top :
            \/ \E i \in 1 .. Len(w) : w[i].id = id
            \/ \E i \in 1 .. Len(u) : u[i].id = id
      /\ \A i \in 1 .. Len(w), j \in 1 .. Len(u) : w[i].id # u[j].id
  <2>1. /\ \A i \in 1 .. Len(w) : i \in 1 .. Len(s) /\ w[i].id = s[i].id
        /\ \A i \in 1 .. Len(u) : i \in 1 .. Len(t) /\ u[i].id = t[i].id
        /\ \A i \in 1 .. Len(s) : i \in 1 .. Len(w)
        /\ \A i \in 1 .. Len(t) : i \in 1 .. Len(u)
    OBVIOUS
  <2>2. /\ \A i \in 1 .. Len(w) : w[i].id \in base + 1 .. top
        /\ \A i \in 1 .. Len(u) : u[i].id \in base + 1 .. top
    BY <1>3, <2>1
  <2>3. \A id \in base + 1 .. top :
            \/ \E i \in 1 .. Len(w) : w[i].id = id
            \/ \E i \in 1 .. Len(u) : u[i].id = id
    <3>1. \A i \in 1 .. Len(s) : i \in 1 .. Len(w) /\ w[i].id = s[i].id
      OBVIOUS
    <3>2. \A i \in 1 .. Len(t) : i \in 1 .. Len(u) /\ u[i].id = t[i].id
      OBVIOUS
    <3>3. SUFFICES ASSUME NEW id \in base + 1 .. top
                   PROVE  \/ \E i \in 1 .. Len(w) : w[i].id = id
                          \/ \E i \in 1 .. Len(u) : u[i].id = id
      OBVIOUS
    <3>4. CASE \E i \in 1 .. Len(s) : s[i].id = id
      BY <3>1, <3>4, Zenon
    <3>5. CASE \E i \in 1 .. Len(t) : t[i].id = id
      BY <3>2, <3>5, Zenon
    <3>6. QED
      BY <1>3, <3>4, <3>5
  <2>4. \A i \in 1 .. Len(w), j \in 1 .. Len(u) : w[i].id # u[j].id
    BY <1>3, <2>1
  <2>5. QED
    BY <2>2, <2>3, <2>4
<1>5. QED
  BY <1>1, <1>2, <1>4, Zenon DEF Merged

\* At the end of a cycle.
LEMMA EndCycleKeeps ==
  ASSUME FrontInv, EndCycle
  PROVE  FrontInv'
<1>1. /\ budget' = 0 /\ fetch_resume' = Passed(fetch_resume)
      /\ DIB_HIT_BUFFER' = AllPassed(DIB_HIT_BUFFER) /\ DECODE_BUFFER' = AllPassed(DECODE_BUFFER)
      /\ DISPATCH_BUFFER' = AllPassed(DISPATCH_BUFFER)
      /\ UNCHANGED <<IFETCH_BUFFER, initialized, DIB, L1I, configVars, owed, dispatched,
                     executing>>
  BY DEF EndCycle, externalVars
<1>2. fetch_resume' \in 0 .. Never /\ (fetch_resume' = Never <=> fetch_resume = Never)
  <2>1. fetch_resume \in 0 .. Never /\ fetch_resume' = Passed(fetch_resume)
    BY <1>1, InvParts
  <2>2. QED
    BY <2>1 DEF Passed, Never
<1>3. /\ DIB_HIT_BUFFER' \in Seq(Entry) /\ Len(DIB_HIT_BUFFER') = Len(DIB_HIT_BUFFER)
      /\ \A i \in 1 .. Len(DIB_HIT_BUFFER) : DIB_HIT_BUFFER'[i].id = DIB_HIT_BUFFER[i].id
      /\ Count(DIB_HIT_BUFFER', Missed) = Count(DIB_HIT_BUFFER, Missed)
  BY <1>1, InvParts, PassedKept
<1>4. /\ DECODE_BUFFER' \in Seq(Entry) /\ Len(DECODE_BUFFER') = Len(DECODE_BUFFER)
      /\ \A i \in 1 .. Len(DECODE_BUFFER) : DECODE_BUFFER'[i].id = DECODE_BUFFER[i].id
      /\ Count(DECODE_BUFFER', Missed) = Count(DECODE_BUFFER, Missed)
  BY <1>1, InvParts, PassedKept
<1>5. /\ DISPATCH_BUFFER' \in Seq(Entry) /\ Len(DISPATCH_BUFFER') = Len(DISPATCH_BUFFER)
      /\ \A i \in 1 .. Len(DISPATCH_BUFFER) : DISPATCH_BUFFER'[i].id = DISPATCH_BUFFER[i].id
      /\ Count(DISPATCH_BUFFER', Missed) = Count(DISPATCH_BUFFER, Missed)
  BY <1>1, InvParts, PassedKept
<1>6. Consecutive(DISPATCH_BUFFER', dispatched')
  BY <1>1, <1>5, InvParts DEF Consecutive
<1>7. Merged(DIB_HIT_BUFFER', DECODE_BUFFER', dispatched' + Len(DISPATCH_BUFFER'))
  BY <1>1, <1>3, <1>4, <1>5, InvParts, MergedAlike
<1>8. Len(IFETCH_BUFFER') + budget' <= cfg.IFETCH_BUFFER_SIZE
  <2>1. /\ Len(IFETCH_BUFFER) + budget <= cfg.IFETCH_BUFFER_SIZE /\ budget \in Nat
        /\ Len(IFETCH_BUFFER) \in Nat /\ cfg.IFETCH_BUFFER_SIZE \in Nat
    BY InvParts, InvCounts, ConfigSizes
  <2>2. IFETCH_BUFFER' = IFETCH_BUFFER /\ budget' = 0
    BY <1>1
  <2>3. QED
    BY <2>1, <2>2
<1>9. One(fetch_resume' = Never) = One(fetch_resume = Never)
  BY <1>2 DEF One
<1>10. budget' \in Nat
  BY <1>1
<1>11. QED
  BY <1>1, <1>2, <1>3, <1>4, <1>5, <1>6, <1>7, <1>8, <1>9, <1>10, InvParts, InvNext

\* The back end takes the instruction in front.
LEMMA DispatchKeeps ==
  ASSUME FrontInv, Dispatch
  PROVE  FrontInv'
<1> DEFINE h == Head(DISPATCH_BUFFER)
           n == Len(DISPATCH_BUFFER)
<1>1. /\ DISPATCH_BUFFER # << >>
      /\ DISPATCH_BUFFER' = Tail(DISPATCH_BUFFER) /\ dispatched' = dispatched + 1
      /\ executing' = executing \cup {h}
      /\ UNCHANGED <<IFETCH_BUFFER, DIB_HIT_BUFFER, DECODE_BUFFER, initialized, fetch_resume,
                     budget, DIB, L1I, owed, configVars>>
  BY DEF Dispatch, fetchVars
<1>2. /\ DISPATCH_BUFFER' \in Seq(Entry) /\ Len(DISPATCH_BUFFER') = n - 1
      /\ n \in Nat \ {0} /\ h = DISPATCH_BUFFER[1] /\ h \in Entry
      /\ \A i \in 1 .. n - 1 : DISPATCH_BUFFER'[i] = DISPATCH_BUFFER[i + 1]
      /\ Count(DISPATCH_BUFFER, Missed) = One(h \in Missed) + Count(DISPATCH_BUFFER', Missed)
  BY <1>1, InvParts, CountTail
<1> HIDE DEF h, n
<1>3. \A i \in 1 .. n : DISPATCH_BUFFER[i].id = dispatched + i
  BY InvParts DEF Consecutive, n
<1>4. h.id = dispatched + 1
  BY <1>2, <1>3
<1>5. Consecutive(DISPATCH_BUFFER', dispatched')
  <2> SUFFICES ASSUME NEW i \in 1 .. n - 1
               PROVE  DISPATCH_BUFFER'[i].id = dispatched + 1 + i
    BY <1>1, <1>2 DEF Consecutive
  <2>1. i + 1 \in 1 .. n /\ dispatched + (i + 1) = dispatched + 1 + i
    BY <1>2, InvParts
  <2>2. QED
    BY <2>1, <1>2, <1>3
<1>6. dispatched' + Len(DISPATCH_BUFFER') = dispatched + Len(DISPATCH_BUFFER)
  BY <1>1, <1>2, InvParts DEF n
<1>7. /\ executing' \in SUBSET Entry /\ IsFiniteSet(executing') /\ h \notin executing
      /\ \A instr \in executing' : instr.id \in 1 .. dispatched'
  <2>1. executing' \in SUBSET Entry /\ IsFiniteSet(executing')
    BY <1>1, <1>2, InvParts, FS_AddElement
  <2>2. dispatched \in Nat /\ dispatched' = dispatched + 1 /\ executing' = executing \cup {h}
    BY <1>1, InvParts
  <2>3. \A instr \in executing : instr.id \in 1 .. dispatched
    BY InvParts
  <2>4. h \notin executing
    BY <2>2, <2>3, <1>4
  <2>5. \A instr \in executing' : instr.id \in 1 .. dispatched'
    BY <2>2, <2>3, <1>4
  <2>6. QED
    BY <2>1, <2>4, <2>5
<1>8. Cardinality(executing' \cap Missed) = Cardinality(executing \cap Missed) + One(h \in Missed)
  <2>1. CASE h \in Missed
    <3>1. executing' \cap Missed = (executing \cap Missed) \cup {h} /\ h \notin executing \cap Missed
      BY <2>1, <1>1, <1>7
    <3>2. QED
      BY <3>1, <2>1, InvCounts, FS_AddElement DEF One
  <2>2. CASE h \notin Missed
    <3>1. executing' \cap Missed = executing \cap Missed
      BY <2>2, <1>1
    <3>2. One(h \in Missed) = 0
      BY <2>2 DEF One
    <3>3. Cardinality(executing \cap Missed) \in Nat
      BY InvCounts
    <3>4. Cardinality(executing \cap Missed) + One(h \in Missed) = Cardinality(executing \cap Missed)
      BY <3>2, <3>3
    <3>5. QED
      BY <3>1, <3>4
  <2>3. QED
    BY <2>1, <2>2
<1>9. Count(DISPATCH_BUFFER', Missed) \in Nat /\ One(h \in Missed) \in Nat
  BY <1>2, CountType DEF One
<1>10. Count(DISPATCH_BUFFER', Missed) + Count(DIB_HIT_BUFFER', Missed)
            + Count(DECODE_BUFFER', Missed) + Count(IFETCH_BUFFER', Missed)
            + Cardinality(executing' \cap Missed) = One(fetch_resume' = Never)
  <2>1. /\ Count(DIB_HIT_BUFFER', Missed) = Count(DIB_HIT_BUFFER, Missed)
        /\ Count(DECODE_BUFFER', Missed) = Count(DECODE_BUFFER, Missed)
        /\ Count(IFETCH_BUFFER', Missed) = Count(IFETCH_BUFFER, Missed)
        /\ One(fetch_resume' = Never) = One(fetch_resume = Never)
    BY <1>1
  <2>2. Count(DISPATCH_BUFFER, Missed) + Count(DIB_HIT_BUFFER, Missed)
           + Count(DECODE_BUFFER, Missed) + Count(IFETCH_BUFFER, Missed)
           + Cardinality(executing \cap Missed) = One(fetch_resume = Never)
    BY InvParts
  <2>3. /\ Count(DISPATCH_BUFFER, Missed) = One(h \in Missed) + Count(DISPATCH_BUFFER', Missed)
        /\ Count(DIB_HIT_BUFFER, Missed) \in Nat /\ Count(DECODE_BUFFER, Missed) \in Nat
        /\ Count(IFETCH_BUFFER, Missed) \in Nat /\ Cardinality(executing \cap Missed) \in Nat
        /\ One(fetch_resume = Never) \in Nat
    BY <1>2, InvCounts
  <2>4. QED
    BY <2>1, <2>2, <2>3, <1>8, <1>9
<1>11. /\ Len(DISPATCH_BUFFER') <= cfg.DISPATCH_BUFFER_SIZE
       /\ dispatched' \in Nat
       /\ dispatched' + Len(DISPATCH_BUFFER') + Len(DIB_HIT_BUFFER') + Len(DECODE_BUFFER')
            + Len(IFETCH_BUFFER') = initialized'
  <2>1. n <= cfg.DISPATCH_BUFFER_SIZE /\ cfg.DISPATCH_BUFFER_SIZE \in Nat /\ dispatched \in Nat
    BY InvParts, ConfigSizes DEF n
  <2>2. Len(DISPATCH_BUFFER') <= cfg.DISPATCH_BUFFER_SIZE /\ dispatched' \in Nat
    BY <2>1, <1>1, <1>2
  <2>3. dispatched + Len(DISPATCH_BUFFER) + Len(DIB_HIT_BUFFER) + Len(DECODE_BUFFER)
           + Len(IFETCH_BUFFER) = initialized
    BY InvParts
  <2>4. QED
    BY <2>2, <2>3, <1>1, <1>6
<1>12. Merged(DIB_HIT_BUFFER', DECODE_BUFFER', dispatched' + Len(DISPATCH_BUFFER'))
  BY <1>1, <1>6, InvParts
<1>13. QED
  BY <1>1, <1>2, <1>5, <1>7, <1>10, <1>11, <1>12, InvParts, InvNext

\* An instruction has been executed.
LEMMA CompleteKeeps ==
  ASSUME FrontInv, NEW instr \in executing, CompleteExecution(instr)
  PROVE  FrontInv'
<1> DEFINE missed == executing \cap Missed
<1>1. /\ executing' = executing \ {instr}
      /\ fetch_resume' = IF instr.mispredicted THEN cfg.BRANCH_MISPREDICT_PENALTY
                         ELSE fetch_resume
      /\ UNCHANGED <<IFETCH_BUFFER, DIB_HIT_BUFFER, DECODE_BUFFER, DISPATCH_BUFFER, initialized,
                     budget, DIB, L1I, owed, dispatched, configVars>>
  BY DEF CompleteExecution, bufferVars
<1>2. /\ executing' \in SUBSET Entry /\ IsFiniteSet(executing')
      /\ \A i \in executing' : i.id \in 1 .. dispatched'
  BY <1>1, InvParts, FS_RemoveElement
<1>3. fetch_resume' \in 0 .. Never
  <2>1. fetch_resume \in 0 .. Never /\ cfg.BRANCH_MISPREDICT_PENALTY \in 0 .. Never - 1
    BY InvParts, ConfigSizes
  <2>2. QED
    BY <2>1, <1>1 DEF Never
<1>4. Count(DISPATCH_BUFFER', Missed) + Count(DIB_HIT_BUFFER', Missed)
         + Count(DECODE_BUFFER', Missed) + Count(IFETCH_BUFFER', Missed)
         + Cardinality(executing' \cap Missed) = One(fetch_resume' = Never)
  <2>1. CASE instr.mispredicted
    <3>1. instr \in missed /\ executing' \cap Missed = missed \ {instr}
      BY <2>1, <1>1, InvParts DEF Missed
    <3>2. IsFiniteSet(missed) /\ Cardinality(missed) \in Nat
      BY InvCounts
    <3>3. Cardinality(missed \ {instr}) = Cardinality(missed) - 1 /\ Cardinality(missed) # 0
      BY <3>1, <3>2, FS_RemoveElement, FS_EmptySet
    <3>4. fetch_resume' # Never
      <4>1. fetch_resume' = cfg.BRANCH_MISPREDICT_PENALTY
        BY <2>1, <1>1
      <4>2. cfg.BRANCH_MISPREDICT_PENALTY \in 0 .. Never - 1
        BY InvParts, ConfigSizes
      <4>3. QED
        BY <4>1, <4>2 DEF Never
    <3>5. One(fetch_resume' = Never) = 0
      BY <3>4 DEF One
    <3>6. Count(DISPATCH_BUFFER, Missed) + Count(DIB_HIT_BUFFER, Missed)
             + Count(DECODE_BUFFER, Missed) + Count(IFETCH_BUFFER, Missed)
             + Cardinality(missed) = One(fetch_resume = Never)
      BY InvParts
    <3> HIDE DEF missed
    <3>7. /\ Count(DISPATCH_BUFFER, Missed) \in Nat /\ Count(DIB_HIT_BUFFER, Missed) \in Nat
          /\ Count(DECODE_BUFFER, Missed) \in Nat /\ Count(IFETCH_BUFFER, Missed) \in Nat
          /\ One(fetch_resume = Never) \in {0, 1}
      BY InvCounts
    <3>8. /\ Count(DISPATCH_BUFFER, Missed) = 0 /\ Count(DIB_HIT_BUFFER, Missed) = 0
          /\ Count(DECODE_BUFFER, Missed) = 0 /\ Count(IFETCH_BUFFER, Missed) = 0
          /\ Cardinality(missed) = 1
      BY <3>2, <3>3, <3>6, <3>7
    <3>9. Cardinality(executing' \cap Missed) = 0
      BY <3>1, <3>3, <3>8
    <3>10. QED
      BY <3>5, <3>8, <3>9, <1>1
  <2>2. CASE ~instr.mispredicted
    <3>1. executing' \cap Missed = executing \cap Missed
      BY <2>2, <1>1 DEF Missed
    <3>2. QED
      BY <3>1, <2>2, <1>1, InvParts
  <2>3. QED
    BY <2>1, <2>2
<1>5. QED
  BY <1>1, <1>2, <1>3, <1>4, InvParts, InvNext


\* The L1I takes the read in front.
LEMMA L1ITakeKeeps ==
  ASSUME FrontInv, L1ITake
  PROVE  FrontInv'
<1> DEFINE rq == L1I.RQ
           read == Head(rq)
           n == Len(rq)
<1>1. /\ rq # << >> /\ L1I' = Pop(L1I, "RQ")
      /\ UNCHANGED <<IFETCH_BUFFER, DIB_HIT_BUFFER, DECODE_BUFFER, DISPATCH_BUFFER, initialized,
                     fetch_resume, budget, DIB, dispatched, executing, configVars>>
      /\ \/ owed' = Append(owed, read)
         \/ \E k \in DOMAIN owed : /\ owed[k].line = read.line
                                   /\ owed' = [owed EXCEPT ![k].ids = @ \o read.ids]
  BY DEF L1ITake, bufferVars, fetchVars
<1>2. /\ L1I' \in ChannelOf(Read, Read) /\ L1I'.RQ = Tail(rq) /\ L1I'.returned = L1I.returned
      /\ rq \in Seq(Read)
  <2>1. "RQ" \in RequestQueues /\ rq = L1I["RQ"]
    BY DEF RequestQueues
  <2>2. L1I \in ChannelOf(Read, Read) /\ L1I["RQ"] # << >>
    BY <2>1, <1>1, InvParts
  <2>3. /\ Pop(L1I, "RQ") \in ChannelOf(Read, Read)
        /\ Pop(L1I, "RQ")["RQ"] = Tail(L1I["RQ"])
        /\ Pop(L1I, "RQ").returned = L1I.returned /\ L1I["RQ"] \in Seq(Read)
    BY <2>1, <2>2, Popped
  <2>4. QED
    BY <2>1, <2>3, <1>1
<1>3. /\ Tail(rq) \in Seq(Read) /\ Len(Tail(rq)) = n - 1 /\ n \in Nat \ {0}
      /\ read = rq[1] /\ read \in Read
      /\ \A i \in 1 .. n - 1 : Tail(rq)[i] = rq[i + 1]
  BY <1>1, <1>2, CountTail
<1>4. Len(owed) \in Nat /\ DOMAIN owed = 1 .. Len(owed) /\ \A i \in 1 .. Len(owed) : owed[i] \in Read
  BY InvParts, LenProperties
<1> HIDE DEF n
<1>5. Len(L1I'.RQ) <= cfg.RQ_SIZE
  <2>1. n <= cfg.RQ_SIZE /\ cfg.RQ_SIZE \in Nat
    BY InvParts, ConfigSizes DEF n
  <2>2. QED
    BY <2>1, <1>2, <1>3
<1>6. /\ owed' \in Seq(Read)
      /\ \A instr : Named(owed, instr) \/ Names(read, instr) => Named(owed', instr)
  <2>1. CASE owed' = Append(owed, read)
    <3>1. /\ owed' \in Seq(Read) /\ Len(owed') = Len(owed) + 1
          /\ \A i \in 1 .. Len(owed) : owed'[i] = owed[i]
          /\ owed'[Len(owed) + 1] = read
      BY <2>1, <1>3, InvParts, AppendProperties
    <3>2. ASSUME NEW instr, Named(owed, instr)
          PROVE  Named(owed', instr)
      <4>1. PICK k \in 1 .. Len(owed) : Names(owed[k], instr)
        BY <3>2 DEF Named
      <4>2. k \in 1 .. Len(owed')
        BY <3>1, <1>4
      <4>3. QED
        BY <4>1, <4>2, <3>1 DEF Named
    <3>3. ASSUME NEW instr, Names(read, instr)
          PROVE  Named(owed', instr)
      <4>1. Len(owed) + 1 \in 1 .. Len(owed')
        BY <3>1, <1>4
      <4>2. QED
        BY <4>1, <3>1, <3>3 DEF Named
    <3>4. QED
      BY <3>1, <3>2, <3>3
  <2>2. CASE \E k \in DOMAIN owed : /\ owed[k].line = read.line
                                    /\ owed' = [owed EXCEPT ![k].ids = @ \o read.ids]
    <3>1. PICK k \in 1 .. Len(owed) : /\ owed[k].line = read.line
                                      /\ owed' = [owed EXCEPT ![k].ids = @ \o read.ids]
      BY <2>2, <1>4
    <3> DEFINE a == owed[k].ids
               b == read.ids
               both == [owed[k] EXCEPT !.ids = a \o b]
    <3>2. owed' = [owed EXCEPT ![k] = both]
      BY <3>1
    <3>3. a \in Seq(Nat) /\ b \in Seq(Nat) /\ owed[k] \in Read
      BY <1>3, <1>4 DEF Read
    <3>4. /\ a \o b \in Seq(Nat) /\ Len(a \o b) = Len(a) + Len(b)
          /\ Len(a) \in Nat /\ Len(b) \in Nat
          /\ \A i \in 1 .. Len(a) + Len(b) : (a \o b)[i] = IF i <= Len(a) THEN a[i] ELSE b[i - Len(a)]
      BY <3>3, ConcatProperties, LenProperties
    <3>5. both \in Read /\ both.line = owed[k].line /\ both.ids = a \o b
      BY <3>3, <3>4 DEF Read
    <3> HIDE DEF both, a, b
    <3>6. /\ owed' \in Seq(Read) /\ Len(owed') = Len(owed)
          /\ \A i \in 1 .. Len(owed) : owed'[i] = IF i = k THEN both ELSE owed[i]
      <4>1. owed \in Seq(Read)
        BY InvParts
      <4>2. QED
        BY <3>2, <3>5, <4>1, CountReplaced
    <3>7. ASSUME NEW instr, Names(owed[k], instr) \/ Names(read, instr)
          PROVE  Names(both, instr)
      <4>1. both.line = Line(instr)
        BY <3>7, <3>1, <3>5 DEF Names
      <4>2. CASE Names(owed[k], instr)
        <5>1. PICK i \in 1 .. Len(a) : a[i] = instr.id
          BY <4>2 DEF Names, a
        <5>2. i \in 1 .. Len(a) + Len(b) /\ i <= Len(a)
          BY <3>4
        <5>3. (a \o b)[i] = instr.id /\ i \in 1 .. Len(a \o b)
          BY <5>1, <5>2, <3>4
        <5>4. QED
          BY <5>3, <4>1, <3>5 DEF Names
      <4>3. CASE Names(read, instr)
        <5>1. PICK i \in 1 .. Len(b) : b[i] = instr.id
          BY <4>3 DEF Names, b
        <5>2. /\ i + Len(a) \in 1 .. Len(a) + Len(b) /\ ~(i + Len(a) <= Len(a))
              /\ i + Len(a) - Len(a) = i
          BY <3>4
        <5>3. (a \o b)[i + Len(a)] = instr.id /\ i + Len(a) \in 1 .. Len(a \o b)
          BY <5>1, <5>2, <3>4
        <5>4. QED
          BY <5>3, <4>1, <3>5 DEF Names
      <4>4. QED
        BY <3>7, <4>2, <4>3
    <3>8. ASSUME NEW instr, Named(owed, instr) \/ Names(read, instr)
          PROVE  Named(owed', instr)
      <4>1. CASE Names(read, instr)
        BY <4>1, <3>6, <3>7 DEF Named
      <4>2. CASE Named(owed, instr)
        <5>1. PICK i \in 1 .. Len(owed) : Names(owed[i], instr)
          BY <4>2 DEF Named
        <5>2. Names(owed'[i], instr)
          BY <5>1, <3>6, <3>7
        <5>3. QED
          BY <5>2, <3>6 DEF Named
      <4>3. QED
        BY <3>8, <4>1, <4>2
    <3>9. QED
      BY <3>6, <3>8
  <2>3. QED
    BY <1>1, <2>1, <2>2
<1>7. ASSUME NEW instr, Named(rq, instr)
      PROVE  Names(read, instr) \/ Named(L1I'.RQ, instr)
  <2>1. PICK k \in 1 .. n : Names(rq[k], instr)
    BY <1>7 DEF Named, n
  <2>2. CASE k = 1
    BY <2>1, <2>2, <1>3
  <2>3. CASE k # 1
    <3>1. k - 1 \in 1 .. n - 1 /\ k - 1 + 1 = k
      BY <2>3, <1>3
    <3>2. Tail(rq)[k - 1] = rq[k]
      BY <3>1, <1>3
    <3>3. QED
      BY <3>1, <3>2, <2>1, <1>2, <1>3 DEF Named
  <2>4. QED
    BY <2>2, <2>3
<1> HIDE DEF read
<1>8. Covered(IFETCH_BUFFER', L1I'.RQ, owed', L1I'.returned)
  <2>1. Covered(IFETCH_BUFFER, L1I.RQ, owed, L1I.returned)
    BY InvParts
  <2>2. QED
    BY <2>1, <1>1, <1>2, <1>6, <1>7 DEF Covered
<1>9. QED
  BY <1>1, <1>2, <1>5, <1>6, <1>8, InvParts, InvNext

\* The L1I answers a read.
LEMMA L1IAnswerKeeps ==
  ASSUME FrontInv, L1IAnswer
  PROVE  FrontInv'
<1>1. PICK k \in DOMAIN owed : L1I' = Push(L1I, "returned", owed[k]) /\ owed' = RemoveAt(owed, k)
  BY DEF L1IAnswer
<1>2. UNCHANGED <<IFETCH_BUFFER, DIB_HIT_BUFFER, DECODE_BUFFER, DISPATCH_BUFFER, initialized,
                  fetch_resume, budget, DIB, dispatched, executing, configVars>>
  BY DEF L1IAnswer, bufferVars, fetchVars
<1> DEFINE n == Len(owed)
           back == L1I.returned
<1>3. n \in Nat /\ k \in 1 .. n /\ owed[k] \in Read
  BY InvParts, LenProperties
<1>4. /\ L1I' \in ChannelOf(Read, Read) /\ L1I'.RQ = L1I.RQ
      /\ L1I'.returned = Append(back, owed[k]) /\ back \in Seq(Read)
  <2>1. "RQ" \in RequestQueues /\ L1I.RQ = L1I["RQ"] /\ L1I'.RQ = L1I'["RQ"]
    BY DEF RequestQueues
  <2>2. L1I \in ChannelOf(Read, Read)
    BY InvParts
  <2>3. /\ L1I' \in ChannelOf(Read, Read) /\ L1I'["RQ"] = L1I["RQ"]
        /\ L1I'.returned = Append(back, owed[k]) /\ back \in Seq(Read)
    <3> DEFINE e == owed[k]
    <3>1. e \in Read /\ L1I' = Push(L1I, "returned", e)
      BY <1>1, <1>3
    <3> HIDE DEF e
    <3>2. /\ Push(L1I, "returned", e) \in ChannelOf(Read, Read)
          /\ \A p \in RequestQueues : Push(L1I, "returned", e)[p] = L1I[p]
          /\ Push(L1I, "returned", e).returned = Append(L1I.returned, e)
          /\ L1I.returned \in Seq(Read)
      BY <2>2, <3>1, Answered
    <3>3. QED
      BY <2>1, <3>1, <3>2 DEF e
  <2>4. QED
    BY <2>1, <2>3
<1>5. /\ owed' \in Seq(Read) /\ Len(owed') = n - 1
      /\ \A i \in 1 .. n - 1 : owed'[i] = IF i < k THEN owed[i] ELSE owed[i + 1]
  BY <1>1, <1>3, InvParts, Removed
<1>6. /\ Len(Append(back, owed[k])) = Len(back) + 1 /\ Len(back) \in Nat
      /\ \A i \in 1 .. Len(back) : Append(back, owed[k])[i] = back[i]
      /\ Append(back, owed[k])[Len(back) + 1] = owed[k]
  BY <1>3, <1>4, AppendProperties, LenProperties
<1> HIDE DEF n
<1>7. ASSUME NEW instr, Named(owed, instr)
      PROVE  Named(owed', instr) \/ Named(L1I'.returned, instr)
  <2>1. PICK i \in 1 .. n : Names(owed[i], instr)
    BY <1>7 DEF Named, n
  <2>2. CASE i = k
    <3>1. Len(back) + 1 \in 1 .. Len(L1I'.returned)
      BY <1>4, <1>6
    <3>2. QED
      BY <3>1, <2>1, <2>2, <1>4, <1>6 DEF Named
  <2>3. CASE i < k
    <3>1. i \in 1 .. n - 1
      BY <2>3, <1>3
    <3>2. owed'[i] = owed[i]
      BY <3>1, <2>3, <1>5
    <3>3. QED
      BY <3>1, <3>2, <2>1, <1>5 DEF Named
  <2>4. CASE k < i
    <3>1. i - 1 \in 1 .. n - 1 /\ ~(i - 1 < k) /\ i - 1 + 1 = i
      BY <2>4, <1>3
    <3>2. owed'[i - 1] = owed[i]
      BY <3>1, <1>5
    <3>3. QED
      BY <3>1, <3>2, <2>1, <1>5 DEF Named
  <2>5. QED
    BY <2>2, <2>3, <2>4, <1>3
<1>8. ASSUME NEW instr, Named(back, instr)
      PROVE  Named(L1I'.returned, instr)
  <2>1. PICK i \in 1 .. Len(back) : Names(back[i], instr)
    BY <1>8 DEF Named
  <2>2. i \in 1 .. Len(L1I'.returned) /\ L1I'.returned[i] = back[i]
    BY <1>4, <1>6
  <2>3. QED
    BY <2>1, <2>2 DEF Named
<1>9. Covered(IFETCH_BUFFER', L1I'.RQ, owed', L1I'.returned)
  <2>1. Covered(IFETCH_BUFFER, L1I.RQ, owed, L1I.returned)
    BY InvParts
  <2>2. QED
    BY <2>1, <1>2, <1>4, <1>7, <1>8 DEF Covered
<1>10. QED
  BY <1>2, <1>4, <1>5, <1>9, InvParts, InvNext

-----------------------------------------------------------------------------
(* The steps of operate(): decode_instruction. *)

\* The numbers of a loop's rounds.
LEMMA RoundNumbers ==
  ASSUME NEW width \in Nat
  PROVE  [k \in 1 .. width |-> k] \in Seq(Nat) /\ Len([k \in 1 .. width |-> k]) = width
<1>1. [k \in 1 .. width |-> k] \in [1 .. width -> Nat]
  OBVIOUS
<1>2. QED
  BY <1>1, FunctionIsSequence

\* A round decodes one instruction at most.
LEMMA TakesOne ==
  ASSUME NEW base, NEW m, NEW n, NEW missed, NEW x \in Deciding(base, m, n, missed), NEW k
  PROVE  Len(TakeOldest(x, k).out) <= Len(x.out) + 1
<1>1. /\ x.out \in Seq(Entry) /\ x.dib \in Seq(Entry) /\ x.dec \in Seq(Entry)
      /\ x = [dib |-> x.dib, dec |-> x.dec, out |-> x.out, bw |-> x.bw]
  BY DEF Deciding
<1>2. Len(x.out) \in Nat
  BY <1>1, LenProperties
<1>3. ASSUME NEW e \in Entry
      PROVE  Len(Append(x.out, e)) = Len(x.out) + 1
  BY <1>1, AppendProperties
<1>4. CASE TakeOldest(x, k).out = x.out
  BY <1>2, <1>4
<1>5. CASE x.dib # << >> /\ TakeOldest(x, k).out = Append(x.out, Head(x.dib))
  <2>1. Head(x.dib) \in Entry
    BY <1>1, <1>5, CountTail
  <2>2. QED
    BY <2>1, <1>2, <1>3, <1>5
<1>6. CASE x.dec # << >> /\ TakeOldest(x, k).out = Append(x.out, Head(x.dec))
  <2>1. Head(x.dec) \in Entry
    BY <1>1, <1>6, CountTail
  <2>2. QED
    BY <2>1, <1>2, <1>3, <1>6
<1>7. \/ TakeOldest(x, k) = x
      \/ /\ x.dib # << >>
         /\ TakeOldest(x, k) = [x EXCEPT !.dib = Tail(@), !.out = Append(@, Head(x.dib))]
      \/ /\ x.dec # << >>
         /\ TakeOldest(x, k) = [x EXCEPT !.dec = Tail(@), !.out = Append(@, Head(x.dec)),
                                         !.bw = @ - 1]
  BY DEF TakeOldest, FromDIB
<1>8. \/ TakeOldest(x, k).out = x.out
      \/ x.dib # << >> /\ TakeOldest(x, k).out = Append(x.out, Head(x.dib))
      \/ x.dec # << >> /\ TakeOldest(x, k).out = Append(x.out, Head(x.dec))
  BY <1>1, <1>7
<1>9. QED
  BY <1>4, <1>5, <1>6, <1>8

\* What is decoded in a cycle is the next of the program, within the width.
LEMMA DecodeRounds ==
  ASSUME FrontInv, NEW width \in Nat, NEW bw \in Nat, NEW missed,
         missed = Count(DIB_HIT_BUFFER, Missed) + Count(DECODE_BUFFER, Missed)
  PROVE  LET end == FoldLeft(TakeOldest, [dib |-> DIB_HIT_BUFFER, dec |-> DECODE_BUFFER,
                                          out |-> << >>, bw |-> bw], [k \in 1 .. width |-> k])
         IN  /\ end \in Deciding(dispatched + Len(DISPATCH_BUFFER), Len(DIB_HIT_BUFFER),
                                 Len(DECODE_BUFFER), missed)
             /\ Len(end.out) <= width
<1> DEFINE base == dispatched + Len(DISPATCH_BUFFER)
           m == Len(DIB_HIT_BUFFER)
           n == Len(DECODE_BUFFER)
           b == [dib |-> DIB_HIT_BUFFER, dec |-> DECODE_BUFFER, out |-> << >>, bw |-> bw]
           q == [k \in 1 .. width |-> k]
           T == Deciding(base, m, n, missed)
<1>1. /\ base \in Nat /\ m \in Nat /\ n \in Nat /\ missed \in Nat
      /\ Count(DIB_HIT_BUFFER, Missed) \in Nat /\ Count(DECODE_BUFFER, Missed) \in Nat
  <2>1. dispatched \in Nat
    BY InvParts
  <2>2. QED
    BY <2>1, InvCounts
<1>2. b \in T
  <2>1. /\ << >> \in Seq(Entry) /\ Len(<< >>) = 0 /\ Count(<< >>, Missed) = 0
        /\ DIB_HIT_BUFFER \in Seq(Entry) /\ DECODE_BUFFER \in Seq(Entry)
        /\ Merged(DIB_HIT_BUFFER, DECODE_BUFFER, base)
    BY EmptySeq, CountEmpty, InvParts
  <2>2. Consecutive(<< >>, base)
    BY <2>1 DEF Consecutive
  <2>3. base + Len(<< >>) = base
    BY <1>1, <2>1
  <2>4. /\ Len(<< >>) + Len(DIB_HIT_BUFFER) + Len(DECODE_BUFFER) = m + n
        /\ Len(DIB_HIT_BUFFER) <= m /\ Len(DECODE_BUFFER) <= n
        /\ Count(<< >>, Missed) + Count(DIB_HIT_BUFFER, Missed) + Count(DECODE_BUFFER, Missed)
              = missed
    BY <1>1, <2>1
  <2> HIDE DEF base, m, n
  <2>5. QED
    BY <2>1, <2>2, <2>3, <2>4, DecidingRecord
<1>3. q \in Seq(Nat) /\ Len(q) = width
  BY RoundNumbers
<1> HIDE DEF b, q, base, m, n
<1>4. \A x \in T, k \in Nat : TakeOldest(x, k) \in T
  <2>1. TypeInv
    BY InvParts
  <2>2. QED
    BY <2>1, <1>1, TakeKeeps
<1>5. \A x \in T, k \in Nat : Len(TakeOldest(x, k).out) <= Len(x.out) + 1
  BY TakesOne
<1>6. \A x \in T : Len(x.out) \in Nat
  <2>1. \A x \in T : x.out \in Seq(Entry)
    BY DEF Deciding
  <2>2. QED
    BY <2>1, LenProperties
<1> HIDE DEF T
<1>7. PICK g \in [0 .. Len(q) -> T] :
            /\ FoldLeft(TakeOldest, b, q) = g[Len(q)]
            /\ g[0] = b
            /\ \A k \in 1 .. Len(q) : g[k] = TakeOldest(g[k - 1], q[k])
  <2> DEFINE R == Nat
  <2>1. b \in T /\ q \in Seq(R) /\ \A x \in T, k \in R : TakeOldest(x, k) \in T
    BY <1>2, <1>3, <1>4
  <2> HIDE DEF R
  <2>2. TakePath(T, b, q)
    BY <2>1, TakeFold
  <2>3. QED
    BY <2>2 DEF TakePath
<1> DEFINE S == {k \in 0 .. width : Len(g[k].out) <= k}
<1>8. \A k \in 0 .. width : k \in S
  <2>1. 0 \in S
    <3>1. Len(g[0].out) = 0
      BY <1>7 DEF b
    <3>2. QED
      BY <3>1
  <2>2. ASSUME NEW k \in 1 .. width, k - 1 \in S
        PROVE  k \in S
    <3>1. g[k] = TakeOldest(g[k - 1], q[k]) /\ g[k - 1] \in T /\ g[k] \in T /\ q[k] \in Nat
      BY <1>3, <1>7
    <3>2. Len(g[k].out) <= Len(g[k - 1].out) + 1
      BY <3>1, <1>5
    <3>3. Len(g[k].out) \in Nat /\ Len(g[k - 1].out) \in Nat /\ Len(g[k - 1].out) <= k - 1
      BY <3>1, <1>6, <2>2
    <3>4. QED
      BY <3>2, <3>3
  <2> HIDE DEF S
  <2>3. QED
    BY <2>1, <2>2, UpTo
<1>9. Len(g[width].out) <= width /\ g[width] \in T
  BY <1>3, <1>7, <1>8
<1>10. QED
  BY <1>3, <1>7, <1>9 DEF b, q, T, base, m, n

\* A decoded instruction is still the same, and no cause to wait if it was found out.
LEMMA DecodedKept ==
  ASSUME TypeInv, NEW e \in Entry
  PROVE  /\ Decoded(e) \in Entry /\ Decoded(e).id = e.id
         /\ Decoded(e) \in Missed <=> e \in Missed /\ ~ResumesAtDecode(e)
<1> DEFINE t == IF cfg.warmup THEN 0 ELSE cfg.DISPATCH_LATENCY
           p == e.mispredicted /\ ~ResumesAtDecode(e)
<1>1. t \in Nat
  BY ConfigSizes
<1>2. p \in BOOLEAN
  OBVIOUS
<1>3. Decoded(e) = [e EXCEPT !.mispredicted = p, !.ready = t]
  BY DEF Decoded
<1> HIDE DEF t, p
<1>4. Decoded(e) \in Entry /\ Decoded(e).id = e.id /\ Decoded(e).mispredicted = p
  BY <1>1, <1>2, <1>3 DEF Entry
<1>5. QED
  BY <1>4, Zenon DEF Missed, p

\* The windows of what was decoded are filled into the DIB.
LEMMA UpdatesKept ==
  ASSUME TypeInv, NEW q \in Seq(Entry)
  PROVE  FoldLeft(do_dib_update, DIB, q) \in Table
<1>1. DIB \in Table /\ cfg.DIB_WAY \in Nat
  BY ConfigSizes DEF TypeInv
<1>2. ASSUME NEW table \in Table, NEW e \in Entry
      PROVE  do_dib_update(table, e) \in Table
  <2>1. table \in Seq([tag : Windows]) /\ OncePerTag(table) /\ Len(table) <= cfg.DIB_WAY
    BY DEF Table
  <2> DEFINE w == [tag |-> program[e.id].window]
  <2>2. w \in [tag : Windows]
    BY DEF Windows, Entry
  <2> HIDE DEF w
  <2>3. /\ fill(table, cfg.DIB_WAY, w) \in Seq([tag : Windows])
        /\ OncePerTag(fill(table, cfg.DIB_WAY, w))
        /\ Len(fill(table, cfg.DIB_WAY, w)) <= cfg.DIB_WAY
    BY <1>1, <2>1, <2>2, FilledTable
  <2>4. fill(table, cfg.DIB_WAY, w) \in Table
    BY <2>3 DEF Table
  <2>5. QED
    BY <2>4 DEF do_dib_update, w
<1>3. PICK g \in [0 .. Len(q) -> Table] :
            /\ FoldLeft(do_dib_update, DIB, q) = g[Len(q)]
            /\ g[0] = DIB
            /\ \A k \in 1 .. Len(q) : g[k] = do_dib_update(g[k - 1], q[k])
  <2>1. UpdatePath(Table, DIB, q)
    BY <1>1, <1>2, UpdateFold
  <2>2. QED
    BY <2>1 DEF UpdatePath
<1>4. Len(q) \in 0 .. Len(q)
  BY LenProperties
<1>5. QED
  BY <1>3, <1>4

\* One instruction more and the order goes on.
LEMMA ConsecutiveJoined ==
  ASSUME NEW T, NEW s \in Seq(T), NEW t \in Seq(T), NEW base \in Nat,
         Consecutive(s, base), Consecutive(t, base + Len(s))
  PROVE  Consecutive(s \o t, base)
<1>1. /\ Len(s) \in Nat /\ Len(t) \in Nat /\ Len(s \o t) = Len(s) + Len(t)
      /\ \A i \in 1 .. Len(s) + Len(t) : (s \o t)[i] = IF i <= Len(s) THEN s[i] ELSE t[i - Len(s)]
  BY ConcatProperties, LenProperties
<1> SUFFICES ASSUME NEW i \in 1 .. Len(s) + Len(t)
             PROVE  (s \o t)[i].id = base + i
  BY <1>1 DEF Consecutive
<1>2. CASE i <= Len(s)
  <2>1. i \in 1 .. Len(s)
    BY <1>1, <1>2
  <2>2. QED
    BY <2>1, <1>1, <1>2 DEF Consecutive
<1>3. CASE ~(i <= Len(s))
  <2>1. i - Len(s) \in 1 .. Len(t)
    BY <1>1, <1>3
  <2>2. t[i - Len(s)].id = base + Len(s) + (i - Len(s))
    BY <2>1 DEF Consecutive
  <2>3. QED
    BY <2>2, <1>1, <1>3
<1>4. QED
  BY <1>2, <1>3

\* decode_instruction keeps all of it.
LEMMA DecodeKeeps ==
  ASSUME FrontInv, Decode
  PROVE  FrontInv'
<1> DEFINE room == cfg.DISPATCH_BUFFER_SIZE - Len(DISPATCH_BUFFER)
           width == Least(cfg.DIB_INORDER_WIDTH, room)
           base == dispatched + Len(DISPATCH_BUFFER)
           m == Len(DIB_HIT_BUFFER)
           n == Len(DECODE_BUFFER)
           missed == Count(DIB_HIT_BUFFER, Missed) + Count(DECODE_BUFFER, Missed)
           end == FoldLeft(TakeOldest, [dib |-> DIB_HIT_BUFFER, dec |-> DECODE_BUFFER,
                                        out |-> << >>, bw |-> cfg.DECODE_WIDTH],
                           [k \in 1 .. width |-> k])
           out == end.out
           new == [i \in DOMAIN out |-> Decoded(out[i])]
           resumes == \E i \in DOMAIN out : ResumesAtDecode(out[i])
<1>1. /\ DIB_HIT_BUFFER' = end.dib /\ DECODE_BUFFER' = end.dec
      /\ DISPATCH_BUFFER' = DISPATCH_BUFFER \o new
      /\ DIB' = FoldLeft(do_dib_update, DIB, out)
      /\ fetch_resume' = IF resumes THEN cfg.BRANCH_MISPREDICT_PENALTY ELSE fetch_resume
      /\ UNCHANGED <<IFETCH_BUFFER, initialized, budget, L1I, configVars, owed, dispatched,
                     executing>>
  BY DEF Decode, externalVars
<1>2. TypeInv
  BY InvParts
<1>3. /\ width \in Nat /\ width <= room /\ cfg.DECODE_WIDTH \in Nat
      /\ cfg.DISPATCH_BUFFER_SIZE \in Nat /\ dispatched \in Nat
      /\ Len(DISPATCH_BUFFER) \in Nat /\ m \in Nat /\ n \in Nat
      /\ base \in Nat
  <2>1. /\ cfg.DIB_INORDER_WIDTH \in Nat /\ cfg.DECODE_WIDTH \in Nat
        /\ cfg.DISPATCH_BUFFER_SIZE \in Nat /\ dispatched \in Nat
        /\ Len(DISPATCH_BUFFER) \in Nat /\ m \in Nat /\ n \in Nat
        /\ Len(DISPATCH_BUFFER) <= cfg.DISPATCH_BUFFER_SIZE
    BY <1>2, InvParts, ConfigSizes, InvCounts
  <2>2. room \in Nat /\ base \in Nat
    BY <2>1
  <2> HIDE DEF room
  <2>3. QED
    BY <2>1, <2>2 DEF Least
<1> HIDE DEF width
<1>4. end \in Deciding(base, m, n, missed) /\ Len(out) <= width
  BY <1>3, DecodeRounds
<1> HIDE DEF end
<1>5. /\ end.dib \in Seq(Entry) /\ end.dec \in Seq(Entry) /\ out \in Seq(Entry)
      /\ Merged(end.dib, end.dec, base + Len(out)) /\ Consecutive(out, base)
      /\ Len(out) + Len(end.dib) + Len(end.dec) = m + n
      /\ Len(end.dib) <= m /\ Len(end.dec) <= n
      /\ Count(out, Missed) + Count(end.dib, Missed) + Count(end.dec, Missed) = missed
  BY <1>4 DEF Deciding
<1> HIDE DEF out, base, m, n
<1>6. DIB' \in Table
  BY <1>1, <1>2, <1>5, UpdatesKept
<1>7. Len(out) \in Nat /\ DOMAIN out = 1 .. Len(out) /\ \A i \in 1 .. Len(out) : out[i] \in Entry
  BY <1>5, LenProperties
<1>8. /\ \A i \in 1 .. Len(out) : Decoded(out[i]) \in Entry /\ Decoded(out[i]).id = out[i].id
      /\ \A i \in 1 .. Len(out) :
            Decoded(out[i]) \in Missed <=> out[i] \in Missed /\ ~ResumesAtDecode(out[i])
  BY <1>2, <1>7, DecodedKept
<1>9. /\ new \in Seq(Entry) /\ Len(new) = Len(out)
      /\ \A i \in 1 .. Len(out) : new[i] = Decoded(out[i])
  <2>1. new \in [1 .. Len(out) -> Entry] /\ \A i \in 1 .. Len(out) : new[i] = Decoded(out[i])
    BY <1>7, <1>8
  <2> HIDE DEF new
  <2>2. QED
    BY <2>1, <1>7, FunctionIsSequence
<1> HIDE DEF new
<1>10. Consecutive(new, base)
  BY <1>5, <1>8, <1>9 DEF Consecutive
<1>11. /\ DISPATCH_BUFFER \in Seq(Entry) /\ Consecutive(DISPATCH_BUFFER, dispatched)
       /\ IFETCH_BUFFER \in Seq(Entry) /\ budget \in Nat
  BY InvParts
<1>12. /\ DISPATCH_BUFFER' \in Seq(Entry)
       /\ Len(DISPATCH_BUFFER') = Len(DISPATCH_BUFFER) + Len(out)
       /\ Consecutive(DISPATCH_BUFFER', dispatched')
       /\ Count(DISPATCH_BUFFER', Missed) = Count(DISPATCH_BUFFER, Missed) + Count(new, Missed)
  <2>1. /\ DISPATCH_BUFFER \o new \in Seq(Entry)
        /\ Len(DISPATCH_BUFFER \o new) = Len(DISPATCH_BUFFER) + Len(new)
    BY <1>9, <1>11, ConcatProperties
  <2>2. Count(DISPATCH_BUFFER \o new, Missed) = Count(DISPATCH_BUFFER, Missed) + Count(new, Missed)
    BY <1>9, <1>11, CountJoined
  <2>3. Consecutive(new, dispatched + Len(DISPATCH_BUFFER))
    BY <1>10 DEF base
  <2>4. Consecutive(DISPATCH_BUFFER \o new, dispatched)
    BY <2>3, <1>3, <1>9, <1>11, ConsecutiveJoined
  <2>5. QED
    BY <2>1, <2>2, <2>4, <1>1, <1>9
<1>13. dispatched' + Len(DISPATCH_BUFFER') = base + Len(out)
  BY <1>1, <1>3, <1>7, <1>12 DEF base
<1>14. Merged(DIB_HIT_BUFFER', DECODE_BUFFER', dispatched' + Len(DISPATCH_BUFFER'))
  BY <1>1, <1>5, <1>13
<1>15. Len(end.dib) \in Nat /\ Len(end.dec) \in Nat
  BY <1>5, LenProperties
<1>16. /\ Len(DISPATCH_BUFFER') <= cfg.DISPATCH_BUFFER_SIZE
       /\ Len(DIB_HIT_BUFFER') <= cfg.DIB_HIT_BUFFER_SIZE
       /\ Len(DECODE_BUFFER') <= cfg.DECODE_BUFFER_SIZE
  <2>1. Len(DISPATCH_BUFFER') <= cfg.DISPATCH_BUFFER_SIZE
    BY <1>3, <1>4, <1>7, <1>12
  <2>2. /\ m <= cfg.DIB_HIT_BUFFER_SIZE /\ n <= cfg.DECODE_BUFFER_SIZE
        /\ cfg.DIB_HIT_BUFFER_SIZE \in Nat /\ cfg.DECODE_BUFFER_SIZE \in Nat
    BY <1>2, InvParts, ConfigSizes DEF m, n
  <2>3. Len(end.dib) <= cfg.DIB_HIT_BUFFER_SIZE /\ Len(end.dec) <= cfg.DECODE_BUFFER_SIZE
    <3>1. m \in Nat /\ n \in Nat /\ Len(end.dib) <= m /\ Len(end.dec) <= n
      BY <1>3, <1>5
    <3>2. QED
      BY <2>2, <3>1, <1>15
  <2>4. QED
    BY <2>1, <2>3, <1>1
<1>17. dispatched' + Len(DISPATCH_BUFFER') + Len(DIB_HIT_BUFFER') + Len(DECODE_BUFFER')
            + Len(IFETCH_BUFFER') = initialized'
  <2>1. base + m + n + Len(IFETCH_BUFFER) = initialized /\ Len(IFETCH_BUFFER) \in Nat
    BY InvParts, InvCounts DEF base, m, n
  <2> DEFINE a == Len(out)
             b == Len(end.dib)
             c == Len(end.dec)
             f == Len(IFETCH_BUFFER)
  <2>2. base + a + b + c + f = base + m + n + f
    <3>1. a + b + c = m + n /\ base \in Nat /\ m \in Nat /\ n \in Nat
      BY <1>3, <1>5
    <3>2. a \in Nat /\ b \in Nat /\ c \in Nat /\ f \in Nat
      BY <2>1, <1>7, <1>15
    <3> HIDE DEF a, b, c, f
    <3>3. QED
      BY <3>1, <3>2
  <2>3. QED
    BY <2>1, <2>2, <1>1, <1>13
<1>18. Count(DISPATCH_BUFFER, Missed) + missed + Count(IFETCH_BUFFER, Missed)
          + Cardinality(executing \cap Missed) = One(fetch_resume = Never)
  <2>1. Count(DISPATCH_BUFFER, Missed) + Count(DIB_HIT_BUFFER, Missed)
           + Count(DECODE_BUFFER, Missed) + Count(IFETCH_BUFFER, Missed)
           + Cardinality(executing \cap Missed) = One(fetch_resume = Never)
    BY InvParts
  <2>2. QED
    BY <2>1, InvCounts
<1>19. /\ Count(DISPATCH_BUFFER, Missed) \in Nat /\ Count(IFETCH_BUFFER, Missed) \in Nat
       /\ Cardinality(executing \cap Missed) \in Nat /\ One(fetch_resume = Never) \in {0, 1}
       /\ Count(out, Missed) \in Nat /\ Count(end.dib, Missed) \in Nat
       /\ Count(end.dec, Missed) \in Nat /\ Count(new, Missed) \in Nat
  BY <1>5, <1>9, InvCounts, CountType
<1> HIDE DEF missed
<1>20. CASE resumes
  <2>1. PICK i \in 1 .. Len(out) : ResumesAtDecode(out[i])
    BY <1>7, <1>20
  <2>2. out[i] \in Missed
    BY <2>1, <1>7 DEF ResumesAtDecode, Missed
  <2>3. Count(out, Missed) # 0
    BY <2>2, <1>5, CountZero
  <2>4. /\ Count(DISPATCH_BUFFER, Missed) = 0 /\ Count(IFETCH_BUFFER, Missed) = 0
        /\ Cardinality(executing \cap Missed) = 0 /\ Count(out, Missed) = 1
        /\ Count(end.dib, Missed) = 0 /\ Count(end.dec, Missed) = 0
    BY <2>3, <1>5, <1>18, <1>19
  <2>5. Count(new, Missed) = 0
    <3>1. IsFiniteSet(Places(out, Missed)) /\ Cardinality(Places(out, Missed)) = 1
      BY <2>4, <1>5, CountType DEF Count
    <3>2. PICK p : Places(out, Missed) = {p}
      BY <3>1, FS_Singleton
    <3>3. \A j \in 1 .. Len(out) : out[j] \in Missed => j = p
      BY <3>2, <1>7 DEF Places
    <3>4. \A j \in 1 .. Len(new) : new[j] \notin Missed
      BY <3>3, <2>1, <2>2, <1>8, <1>9
    <3>5. QED
      BY <3>4, <1>9, CountZero
  <2>6. fetch_resume' \in 0 .. Never /\ One(fetch_resume' = Never) = 0
    <3>1. cfg.BRANCH_MISPREDICT_PENALTY \in 0 .. Never - 1
      BY <1>2, ConfigSizes
    <3>2. fetch_resume' = cfg.BRANCH_MISPREDICT_PENALTY
      BY <1>1, <1>20
    <3>3. fetch_resume' \in 0 .. Never /\ fetch_resume' # Never
      <4>1. \A t : t \in 0 .. Never - 1 => t \in 0 .. Never /\ t # Never
        BY DEF Never
      <4>2. QED
        BY <3>1, <3>2, <4>1
    <3>4. QED
      BY <3>3 DEF One
  <2>7. Count(DISPATCH_BUFFER', Missed) + Count(DIB_HIT_BUFFER', Missed)
            + Count(DECODE_BUFFER', Missed) + Count(IFETCH_BUFFER', Missed)
            + Cardinality(executing' \cap Missed) = One(fetch_resume' = Never)
    BY <2>4, <2>5, <2>6, <1>1, <1>12
  <2>8. QED
    BY <2>6, <2>7, <1>1, <1>5, <1>6, <1>12, <1>14, <1>16, <1>17, InvParts, InvNext
<1>21. CASE ~resumes
  <2>1. Count(new, Missed) = Count(out, Missed)
    <3>1. \A i \in 1 .. Len(new) : new[i] \in Missed <=> out[i] \in Missed
      BY <1>7, <1>8, <1>9, <1>21
    <3>2. QED
      BY <3>1, <1>5, <1>9, CountAlike
  <2>2. fetch_resume' = fetch_resume
    BY <1>1, <1>21
  <2>3. Count(DISPATCH_BUFFER', Missed) + Count(DIB_HIT_BUFFER', Missed)
            + Count(DECODE_BUFFER', Missed) + Count(IFETCH_BUFFER', Missed)
            + Cardinality(executing' \cap Missed) = One(fetch_resume' = Never)
    <3>1. Count(DISPATCH_BUFFER, Missed) + Count(new, Missed) + Count(end.dib, Missed)
             + Count(end.dec, Missed) + Count(IFETCH_BUFFER, Missed)
             + Cardinality(executing \cap Missed) = One(fetch_resume = Never)
      BY <2>1, <1>5, <1>18, <1>19
    <3>2. QED
      BY <3>1, <2>2, <1>1, <1>12
  <2>4. fetch_resume' \in 0 .. Never
    BY <2>2, InvParts
  <2>5. QED
    BY <2>3, <2>4, <1>1, <1>5, <1>6, <1>12, <1>14, <1>16, <1>17, InvParts, InvNext
<1>22. QED
  BY <1>20, <1>21

-----------------------------------------------------------------------------
(* promote_to_decode. *)

Promoting == [dib : Seq(Entry), dec : Seq(Entry)]

\* An instruction goes to the end of one of the two buffers.
LEMMA PromoteOneKeeps ==
  ASSUME TypeInv, NEW x \in Promoting, NEW e \in Entry
  PROVE  /\ PromoteOne(x, e) \in Promoting
         /\ \E d \in Entry :
               /\ d.id = e.id /\ (d \in Missed <=> e \in Missed)
               /\ \/ PromoteOne(x, e) = [dib |-> Append(x.dib, d), dec |-> x.dec]
                  \/ PromoteOne(x, e) = [dib |-> x.dib, dec |-> Append(x.dec, d)]
<1>1. x = [dib |-> x.dib, dec |-> x.dec] /\ x.dib \in Seq(Entry) /\ x.dec \in Seq(Entry)
  BY DEF Promoting
<1>2. ASSUME NEW t \in Nat
      PROVE  LET d == [e EXCEPT !.ready = t]
             IN  d \in Entry /\ d.id = e.id /\ (d \in Missed <=> e \in Missed)
  <2>1. LET d == [e EXCEPT !.ready = t]
        IN  d \in Entry /\ d.id = e.id /\ d.mispredicted = e.mispredicted
    BY DEF Entry
  <2>2. QED
    BY <2>1 DEF Missed
<1>3. CASE e.decoded
  <2> DEFINE t == cfg.DIB_HIT_LATENCY
             d == [e EXCEPT !.ready = t]
  <2>1. t \in Nat
    BY ConfigSizes
  <2> HIDE DEF t
  <2>2. d \in Entry /\ d.id = e.id /\ (d \in Missed <=> e \in Missed)
    BY <2>1, <1>2
  <2>3. PromoteOne(x, e) = [dib |-> Append(x.dib, d), dec |-> x.dec]
    BY <1>1, <1>3 DEF PromoteOne, t
  <2> HIDE DEF d
  <2>4. Append(x.dib, d) \in Seq(Entry)
    BY <1>1, <2>2, AppendProperties
  <2>5. PromoteOne(x, e) \in Promoting
    BY <1>1, <2>3, <2>4 DEF Promoting
  <2>6. QED
    BY <2>2, <2>3, <2>5
<1>4. CASE ~e.decoded
  <2> DEFINE t == IF cfg.warmup THEN 0 ELSE cfg.DECODE_LATENCY
             d == [e EXCEPT !.ready = t]
  <2>1. t \in Nat
    BY ConfigSizes
  <2> HIDE DEF t
  <2>2. d \in Entry /\ d.id = e.id /\ (d \in Missed <=> e \in Missed)
    BY <2>1, <1>2
  <2>3. PromoteOne(x, e) = [dib |-> x.dib, dec |-> Append(x.dec, d)]
    BY <1>1, <1>4 DEF PromoteOne, t
  <2> HIDE DEF d
  <2>4. Append(x.dec, d) \in Seq(Entry)
    BY <1>1, <2>2, AppendProperties
  <2>5. PromoteOne(x, e) \in Promoting
    BY <1>1, <2>3, <2>4 DEF Promoting
  <2>6. QED
    BY <2>2, <2>3, <2>5
<1>5. QED
  BY <1>3, <1>4

\* The buffers after some of the instructions of q are the two they were and these.
Promoted(x, dib, dec, base, q, k) ==
    /\ x \in Promoting
    /\ Merged(x.dib, x.dec, base)
    /\ Len(x.dib) + Len(x.dec) = Len(dib) + Len(dec) + k
    /\ Len(x.dib) <= Len(dib) + k /\ Len(x.dec) <= Len(dec) + k
    /\ Count(x.dib, Missed) + Count(x.dec, Missed)
          = Count(dib, Missed) + Count(dec, Missed) + Count(SubSeq(q, 1, k), Missed)

\* One more of them.
LEMMA PromotedNext ==
  ASSUME TypeInv, NEW dib \in Seq(Entry), NEW dec \in Seq(Entry), NEW base \in Nat,
         NEW q \in Seq(Entry), Consecutive(q, base + Len(dib) + Len(dec)),
         NEW k \in 1 .. Len(q), NEW x, Promoted(x, dib, dec, base, q, k - 1)
  PROVE  Promoted(PromoteOne(x, q[k]), dib, dec, base, q, k)
<1> DEFINE e == q[k]
           r == PromoteOne(x, e)
           total == Count(dib, Missed) + Count(dec, Missed)
           before == Count(SubSeq(q, 1, k - 1), Missed)
           one == One(e \in Missed)
<1>1. /\ Len(q) \in Nat /\ Len(dib) \in Nat /\ Len(dec) \in Nat /\ e \in Entry
      /\ k \in Nat \ {0}
  BY LenProperties
<1>2. /\ Count(SubSeq(q, 1, k), Missed) = before + one
      /\ before \in Nat /\ one \in Nat /\ total \in Nat
  <2>1. SubSeq(q, 1, k - 1) \in Seq(Entry) /\ Count(SubSeq(q, 1, k), Missed) = before + one
    BY CountUpTo
  <2>2. before \in Nat /\ Count(dib, Missed) \in Nat /\ Count(dec, Missed) \in Nat
    BY <2>1, CountType
  <2>3. QED
    BY <2>1, <2>2 DEF One
<1>3. /\ x \in Promoting /\ x.dib \in Seq(Entry) /\ x.dec \in Seq(Entry)
      /\ Merged(x.dib, x.dec, base)
      /\ Len(x.dib) + Len(x.dec) = Len(dib) + Len(dec) + (k - 1)
      /\ Len(x.dib) <= Len(dib) + (k - 1) /\ Len(x.dec) <= Len(dec) + (k - 1)
      /\ Count(x.dib, Missed) + Count(x.dec, Missed) = total + before
  BY DEF Promoted, Promoting
<1>4. e.id = base + Len(dib) + Len(dec) + k
  BY DEF Consecutive
<1> HIDE DEF e, total, before
<1>5. PICK d \in Entry :
         /\ d.id = e.id /\ (d \in Missed <=> e \in Missed)
         /\ \/ r = [dib |-> Append(x.dib, d), dec |-> x.dec]
            \/ r = [dib |-> x.dib, dec |-> Append(x.dec, d)]
  BY <1>1, <1>3, PromoteOneKeeps
<1>6. r \in Promoting
  BY <1>1, <1>3, PromoteOneKeeps
<1> HIDE DEF r
<1>7. /\ Len(x.dib) \in Nat /\ Len(x.dec) \in Nat
      /\ Count(x.dib, Missed) \in Nat /\ Count(x.dec, Missed) \in Nat
  BY <1>3, LenProperties, CountType
<1>8. d.id = base + Len(x.dib) + Len(x.dec) + 1 /\ d.id = base + Len(x.dec) + Len(x.dib) + 1
  <2> DEFINE u == Len(x.dib)
             v == Len(x.dec)
  <2>1. u + v = Len(dib) + Len(dec) + (k - 1) /\ u \in Nat /\ v \in Nat
    BY <1>3, <1>7
  <2> HIDE DEF u, v
  <2>2. d.id = base + u + v + 1 /\ d.id = base + v + u + 1
    <3> DEFINE a == Len(dib)
               c == Len(dec)
    <3>1. a \in Nat /\ c \in Nat /\ u + v = a + c + (k - 1) /\ d.id = base + a + c + k
      BY <2>1, <1>1, <1>4, <1>5
    <3> HIDE DEF a, c
    <3>2. QED
      BY <3>1, <2>1, <1>1
  <2>3. QED
    BY <2>2 DEF u, v
<1>9. One(d \in Missed) = one
  BY <1>5 DEF One
<1>10. \A i \in Entry : i.id \in Nat
  BY ProgramSequence
<1>11. Count(x.dib, Missed) + Count(x.dec, Missed) + one = total + (before + one)
  BY <1>2, <1>3, <1>7
<1> HIDE DEF one
<1>12. CASE r = [dib |-> Append(x.dib, d), dec |-> x.dec]
  <2> DEFINE w == Append(x.dib, d)
  <2>1. Merged(w, x.dec, base)
    BY <1>3, <1>8, <1>10, MergedNext
  <2>2. /\ Len(w) = Len(x.dib) + 1
        /\ Count(w, Missed) = Count(x.dib, Missed) + one
    BY <1>3, <1>9, AppendProperties, CountAppend
  <2>3. r.dib = w /\ r.dec = x.dec
    BY <1>12
  <2> HIDE DEF w
  <2>4. /\ Len(w) + Len(x.dec) = Len(dib) + Len(dec) + k
        /\ Len(w) <= Len(dib) + k /\ Len(x.dec) <= Len(dec) + k
    <3> DEFINE u == Len(x.dib)
               v == Len(x.dec)
               a == Len(dib)
               c == Len(dec)
    <3>1. /\ u \in Nat /\ v \in Nat /\ a \in Nat /\ c \in Nat
          /\ u + v = a + c + (k - 1) /\ u <= a + (k - 1) /\ v <= c + (k - 1)
      BY <1>1, <1>3, <1>7
    <3> HIDE DEF u, v, a, c
    <3>2. /\ u + 1 + v = a + c + k /\ u + (v + 1) = a + c + k
          /\ u + 1 <= a + k /\ v <= c + k /\ u <= a + k /\ v + 1 <= c + k
      BY <3>1, <1>1
    <3>3. QED
      BY <3>2, <2>2 DEF u, v, a, c
  <2>5. Count(w, Missed) + Count(x.dec, Missed) = total + (before + one)
    BY <2>2, <1>2, <1>7, <1>11
  <2>6. QED
    BY <2>1, <2>3, <2>4, <2>5, <1>2, <1>6 DEF Promoted, total, r, e
<1>13. CASE r = [dib |-> x.dib, dec |-> Append(x.dec, d)]
  <2> DEFINE w == Append(x.dec, d)
  <2>1. Merged(x.dib, w, base)
    <3>1. Merged(x.dec, x.dib, base)
      BY <1>3, MergedSwap
    <3>2. Merged(w, x.dib, base)
      BY <3>1, <1>3, <1>8, <1>10, MergedNext
    <3>3. w \in Seq(Entry)
      BY <1>3, AppendProperties
    <3>4. QED
      BY <3>2, <3>3, <1>3, MergedSwap
  <2>2. /\ Len(w) = Len(x.dec) + 1
        /\ Count(w, Missed) = Count(x.dec, Missed) + one
    BY <1>3, <1>9, AppendProperties, CountAppend
  <2>3. r.dib = x.dib /\ r.dec = w
    BY <1>13
  <2> HIDE DEF w
  <2>4. /\ Len(x.dib) + Len(w) = Len(dib) + Len(dec) + k
        /\ Len(x.dib) <= Len(dib) + k /\ Len(w) <= Len(dec) + k
    <3> DEFINE u == Len(x.dib)
               v == Len(x.dec)
               a == Len(dib)
               c == Len(dec)
    <3>1. /\ u \in Nat /\ v \in Nat /\ a \in Nat /\ c \in Nat
          /\ u + v = a + c + (k - 1) /\ u <= a + (k - 1) /\ v <= c + (k - 1)
      BY <1>1, <1>3, <1>7
    <3> HIDE DEF u, v, a, c
    <3>2. /\ u + 1 + v = a + c + k /\ u + (v + 1) = a + c + k
          /\ u + 1 <= a + k /\ v <= c + k /\ u <= a + k /\ v + 1 <= c + k
      BY <3>1, <1>1
    <3>3. QED
      BY <3>2, <2>2 DEF u, v, a, c
  <2>5. Count(x.dib, Missed) + Count(w, Missed) = total + (before + one)
    BY <2>2, <1>2, <1>7, <1>11
  <2>6. QED
    BY <2>1, <2>3, <2>4, <2>5, <1>2, <1>6 DEF Promoted, total, r, e
<1>14. QED
  BY <1>5, <1>12, <1>13

\* All of them.
LEMMA PromoteRounds ==
  ASSUME TypeInv, NEW dib \in Seq(Entry), NEW dec \in Seq(Entry), NEW base \in Nat,
         Merged(dib, dec, base), NEW q \in Seq(Entry),
         Consecutive(q, base + Len(dib) + Len(dec))
  PROVE  Promoted(FoldLeft(PromoteOne, [dib |-> dib, dec |-> dec], q), dib, dec, base, q, Len(q))
<1> DEFINE b == [dib |-> dib, dec |-> dec]
           n == Len(q)
<1>1. b \in Promoting /\ n \in Nat
  BY LenProperties DEF Promoting
<1>2. \A x \in Promoting, e \in Entry : PromoteOne(x, e) \in Promoting
  BY PromoteOneKeeps
<1>3. Promoted(b, dib, dec, base, q, 0)
  <2>1. Len(dib) \in Nat /\ Len(dec) \in Nat /\ Count(dib, Missed) \in Nat /\ Count(dec, Missed) \in Nat
    BY LenProperties, CountType
  <2>2. Count(SubSeq(q, 1, 0), Missed) = 0
    <3>1. SubSeq(q, 1, 0) = << >>
      <4>1. 0 \in 0 .. Len(q)
        BY <1>1
      <4>2. SubSeq(q, 1, 0) \in Seq(Entry) /\ Len(SubSeq(q, 1, 0)) = 0
        BY <4>1, CountSplit
      <4>3. QED
        BY <4>2, EmptySeq
    <3>2. QED
      BY <3>1, CountEmpty
  <2>3. b.dib = dib /\ b.dec = dec
    OBVIOUS
  <2> HIDE DEF b
  <2>4. QED
    BY <1>1, <2>1, <2>2, <2>3 DEF Promoted
<1> HIDE DEF b
<1>4. PICK g \in [0 .. Len(q) -> Promoting] :
            /\ FoldLeft(PromoteOne, b, q) = g[Len(q)]
            /\ g[0] = b
            /\ \A k \in 1 .. Len(q) : g[k] = PromoteOne(g[k - 1], q[k])
  <2>1. PromotePath(Promoting, b, q)
    BY <1>1, <1>2, PromoteFold
  <2>2. QED
    BY <2>1 DEF PromotePath
<1> DEFINE S == {k \in 0 .. n : Promoted(g[k], dib, dec, base, q, k)}
<1>5. \A k \in 0 .. n : k \in S
  <2>1. 0 \in S
    BY <1>1, <1>3, <1>4
  <2>2. ASSUME NEW k \in 1 .. n, k - 1 \in S
        PROVE  k \in S
    <3>1. Promoted(g[k - 1], dib, dec, base, q, k - 1) /\ k \in 1 .. Len(q)
      BY <2>2
    <3>2. Promoted(PromoteOne(g[k - 1], q[k]), dib, dec, base, q, k)
      BY <3>1, PromotedNext
    <3>3. g[k] = PromoteOne(g[k - 1], q[k]) /\ k \in 0 .. n
      BY <1>1, <1>4
    <3>4. Promoted(g[k], dib, dec, base, q, k)
      BY <3>2, <3>3
    <3>5. QED
      BY <3>3, <3>4
  <2> HIDE DEF S, n
  <2>3. QED
    BY <1>1, <2>1, <2>2, UpTo
<1>6. Promoted(g[n], dib, dec, base, q, n)
  BY <1>1, <1>5
<1>7. QED
  BY <1>4, <1>6 DEF b

\* The span of the instructions to promote.
LEMMA CompletedSpan ==
  ASSUME NEW s \in Seq(Entry), NEW limit \in Nat
  PROVE  SpanOf(s, limit, IsCompleted) \in 0 .. Len(s) /\ SpanOf(s, limit, IsCompleted) <= limit
<1> DEFINE D == {k \in 1 .. Len(s) : k <= limit /\ \A i \in 1 .. k : IsCompleted(s[i])}
<1>1. Len(s) \in Nat /\ D \in SUBSET (1 .. Len(s)) /\ \A k \in D : k <= limit
  BY LenProperties
<1>2. \A k \in D : \A i \in 1 .. k : i \in D
  <2> SUFFICES ASSUME NEW k \in D, NEW i \in 1 .. k
               PROVE  i \in D
    OBVIOUS
  <2>1. i \in 1 .. Len(s) /\ i <= limit /\ \A j \in 1 .. i : j \in 1 .. k
    BY <1>1
  <2>2. \A j \in 1 .. k : IsCompleted(s[j])
    OBVIOUS
  <2>3. QED
    BY <2>1, <2>2
<1>3. SpanOf(s, limit, IsCompleted) = Cardinality(D)
  BY DEF SpanOf
<1> HIDE DEF D
<1>4. Cardinality(D) \in 0 .. Len(s) /\ D = 1 .. Cardinality(D)
  BY <1>1, <1>2, FirstPart
<1>5. Cardinality(D) <= limit
  <2>1. CASE Cardinality(D) = 0
    BY <2>1
  <2>2. CASE Cardinality(D) # 0
    <3>1. Cardinality(D) \in 1 .. Cardinality(D)
      BY <2>2, <1>1, <1>4
    <3>2. QED
      BY <3>1, <1>1, <1>4
  <2>3. QED
    BY <2>1, <2>2
<1>6. QED
  BY <1>3, <1>4, <1>5

\* promote_to_decode keeps all of it.
LEMMA PromoteKeeps ==
  ASSUME FrontInv, Promote
  PROVE  FrontInv'
<1> DEFINE limit == Least(cfg.FETCH_WIDTH, PromoteRoom)
           n == SpanOf(IFETCH_BUFFER, limit, IsCompleted)
           q == SubSeq(IFETCH_BUFFER, 1, n)
           rest == SubSeq(IFETCH_BUFFER, n + 1, Len(IFETCH_BUFFER))
           base == dispatched + Len(DISPATCH_BUFFER)
           end == FoldLeft(PromoteOne, [dib |-> DIB_HIT_BUFFER, dec |-> DECODE_BUFFER], q)
<1>1. /\ DIB_HIT_BUFFER' = end.dib /\ DECODE_BUFFER' = end.dec
      /\ IFETCH_BUFFER' = rest
      /\ UNCHANGED <<DISPATCH_BUFFER, initialized, fetch_resume, budget, DIB, L1I, configVars,
                     owed, dispatched, executing>>
  BY DEF Promote, fetchVars, externalVars
<1>2. TypeInv
  BY InvParts
<1>3. /\ limit \in Nat
      /\ Len(DIB_HIT_BUFFER) + limit <= cfg.DIB_HIT_BUFFER_SIZE
      /\ Len(DECODE_BUFFER) + limit <= cfg.DECODE_BUFFER_SIZE
      /\ cfg.DIB_HIT_BUFFER_SIZE \in Nat /\ cfg.DECODE_BUFFER_SIZE \in Nat
  <2> DEFINE a == cfg.DIB_HIT_BUFFER_SIZE - Len(DIB_HIT_BUFFER)
             c == cfg.DECODE_BUFFER_SIZE - Len(DECODE_BUFFER)
             l == Least(cfg.FETCH_WIDTH, Least(a, c))
  <2>1. /\ cfg.DIB_HIT_BUFFER_SIZE \in Nat /\ cfg.DECODE_BUFFER_SIZE \in Nat
        /\ cfg.FETCH_WIDTH \in Nat
        /\ Len(DIB_HIT_BUFFER) \in Nat /\ Len(DECODE_BUFFER) \in Nat
        /\ Len(DIB_HIT_BUFFER) <= cfg.DIB_HIT_BUFFER_SIZE
        /\ Len(DECODE_BUFFER) <= cfg.DECODE_BUFFER_SIZE
    BY <1>2, InvParts, ConfigSizes, InvCounts
  <2>2. a \in Nat /\ c \in Nat
    BY <2>1
  <2>3. l \in Nat /\ l <= a /\ l <= c
    <3> HIDE DEF a, c
    <3>1. QED
      BY <2>1, <2>2 DEF Least
  <2>4. limit = l
    BY DEF PromoteRoom
  <2> HIDE DEF l, limit
  <2>5. QED
    BY <2>1, <2>2, <2>3, <2>4
<1>4. /\ IFETCH_BUFFER \in Seq(Entry) /\ DIB_HIT_BUFFER \in Seq(Entry)
      /\ DECODE_BUFFER \in Seq(Entry) /\ DISPATCH_BUFFER \in Seq(Entry)
      /\ Len(IFETCH_BUFFER) \in Nat /\ Len(DIB_HIT_BUFFER) \in Nat /\ Len(DECODE_BUFFER) \in Nat
      /\ base \in Nat /\ budget \in Nat /\ initialized \in Nat
  <2>1. dispatched \in Nat /\ initialized \in 0 .. Len(program)
    BY InvParts
  <2>2. QED
    BY <2>1, InvParts, InvCounts
<1> HIDE DEF limit
<1>5. n \in 0 .. Len(IFETCH_BUFFER) /\ n <= limit
  BY <1>3, <1>4, CompletedSpan
<1> HIDE DEF n
<1>6. /\ q \in Seq(Entry) /\ Len(q) = n
      /\ rest \in Seq(Entry) /\ Len(rest) = Len(IFETCH_BUFFER) - n
      /\ \A i \in 1 .. n : q[i] = IFETCH_BUFFER[i]
      /\ \A i \in 1 .. Len(IFETCH_BUFFER) - n : rest[i] = IFETCH_BUFFER[n + i]
      /\ Count(IFETCH_BUFFER, Missed) = Count(q, Missed) + Count(rest, Missed)
  BY <1>4, <1>5, CountSplit
<1>7. /\ base + Len(DIB_HIT_BUFFER) + Len(DECODE_BUFFER) + Len(IFETCH_BUFFER) = initialized
      /\ Merged(DIB_HIT_BUFFER, DECODE_BUFFER, base)
      /\ \A i \in 1 .. Len(IFETCH_BUFFER) :
            IFETCH_BUFFER[i].id = initialized - Len(IFETCH_BUFFER) + i
  BY InvParts DEF Consecutive
<1> HIDE DEF q, rest, base
<1>8. Consecutive(q, base + Len(DIB_HIT_BUFFER) + Len(DECODE_BUFFER))
  <2> SUFFICES ASSUME NEW i \in 1 .. n
               PROVE  q[i].id = base + Len(DIB_HIT_BUFFER) + Len(DECODE_BUFFER) + i
    BY <1>6 DEF Consecutive
  <2>1. i \in 1 .. Len(IFETCH_BUFFER)
    BY <1>4, <1>5
  <2>2. q[i].id = initialized - Len(IFETCH_BUFFER) + i
    BY <2>1, <1>6, <1>7
  <2> DEFINE u == Len(DIB_HIT_BUFFER)
             v == Len(DECODE_BUFFER)
             w == Len(IFETCH_BUFFER)
  <2>3. base + u + v + w = initialized /\ u \in Nat /\ v \in Nat /\ w \in Nat
    BY <1>4, <1>7
  <2> HIDE DEF u, v, w
  <2>4. initialized - w + i = base + u + v + i
    BY <2>3, <1>4, <1>5
  <2>5. QED
    BY <2>2, <2>4 DEF u, v, w
<1>9. Promoted(end, DIB_HIT_BUFFER, DECODE_BUFFER, base, q, n)
  BY <1>2, <1>4, <1>6, <1>7, <1>8, PromoteRounds
<1> HIDE DEF end
<1>10. /\ end.dib \in Seq(Entry) /\ end.dec \in Seq(Entry)
       /\ Merged(end.dib, end.dec, base)
       /\ Len(end.dib) + Len(end.dec) = Len(DIB_HIT_BUFFER) + Len(DECODE_BUFFER) + n
       /\ Len(end.dib) <= Len(DIB_HIT_BUFFER) + n /\ Len(end.dec) <= Len(DECODE_BUFFER) + n
       /\ Count(end.dib, Missed) + Count(end.dec, Missed)
             = Count(DIB_HIT_BUFFER, Missed) + Count(DECODE_BUFFER, Missed) + Count(q, Missed)
  <2>1. SubSeq(q, 1, n) = q
    BY <1>6, SubSeqFull
  <2>2. QED
    BY <2>1, <1>9 DEF Promoted, Promoting
<1>11. Len(end.dib) \in Nat /\ Len(end.dec) \in Nat
  BY <1>10, LenProperties
<1>12. /\ Len(DIB_HIT_BUFFER') <= cfg.DIB_HIT_BUFFER_SIZE
       /\ Len(DECODE_BUFFER') <= cfg.DECODE_BUFFER_SIZE
       /\ Len(IFETCH_BUFFER') + budget' <= cfg.IFETCH_BUFFER_SIZE
  <2>1. Len(end.dib) <= cfg.DIB_HIT_BUFFER_SIZE /\ Len(end.dec) <= cfg.DECODE_BUFFER_SIZE
    <3> DEFINE u == Len(end.dib)
               v == Len(end.dec)
               a == Len(DIB_HIT_BUFFER)
               c == Len(DECODE_BUFFER)
               A == cfg.DIB_HIT_BUFFER_SIZE
               C == cfg.DECODE_BUFFER_SIZE
    <3>1. limit <= A - a /\ limit <= C - c
      BY <1>3
    <3>2. A \in Nat /\ C \in Nat
      BY <1>2, ConfigSizes
    <3>3. a \in Nat /\ c \in Nat /\ u \in Nat /\ v \in Nat /\ n \in Nat /\ n <= limit
      BY <1>4, <1>5, <1>11
    <3>4. u <= a + n /\ v <= c + n
      BY <1>10
    <3>5. limit \in Nat
      BY <1>3
    <3> HIDE DEF u, v, a, c, A, C
    <3>6. u <= A /\ v <= C
      BY <3>1, <3>2, <3>3, <3>4, <3>5
    <3>7. QED
      BY <3>6 DEF u, v, A, C
  <2>2. Len(IFETCH_BUFFER) + budget <= cfg.IFETCH_BUFFER_SIZE /\ cfg.IFETCH_BUFFER_SIZE \in Nat
    BY <1>2, InvParts, ConfigSizes
  <2>3. Len(rest) + budget <= cfg.IFETCH_BUFFER_SIZE
    BY <2>2, <1>4, <1>5, <1>6
  <2>4. QED
    BY <2>1, <2>3, <1>1
<1>13. Consecutive(IFETCH_BUFFER', initialized' - Len(IFETCH_BUFFER'))
  <2> SUFFICES ASSUME NEW i \in 1 .. Len(IFETCH_BUFFER) - n
               PROVE  rest[i].id = initialized - Len(rest) + i
    BY <1>1, <1>6 DEF Consecutive
  <2>1. n + i \in 1 .. Len(IFETCH_BUFFER)
    BY <1>4, <1>5
  <2>2. IFETCH_BUFFER[n + i].id = initialized - Len(IFETCH_BUFFER) + (n + i)
    BY <2>1, <1>7
  <2>3. QED
    BY <2>2, <1>4, <1>5, <1>6
<1>14. dispatched' + Len(DISPATCH_BUFFER') + Len(DIB_HIT_BUFFER') + Len(DECODE_BUFFER')
            + Len(IFETCH_BUFFER') = initialized'
  <2> DEFINE u == Len(end.dib)
             v == Len(end.dec)
             w == Len(rest)
             a == Len(DIB_HIT_BUFFER)
             b == Len(DECODE_BUFFER)
             c == Len(IFETCH_BUFFER)
  <2>1. u + v = a + b + n /\ u \in Nat /\ v \in Nat
    BY <1>10, <1>11
  <2>2. w = c - n /\ n \in Nat /\ a \in Nat /\ b \in Nat /\ c \in Nat /\ base \in Nat
    BY <1>4, <1>5, <1>6
  <2>0. base + a + b + c = initialized
    BY <1>7
  <2> HIDE DEF u, v, w, a, b, c
  <2>3. base + u + v + w = initialized
    BY <2>0, <2>1, <2>2
  <2>4. QED
    BY <2>3, <1>1 DEF u, v, w, base
<1>15. Merged(DIB_HIT_BUFFER', DECODE_BUFFER', dispatched' + Len(DISPATCH_BUFFER'))
  BY <1>1, <1>10 DEF base
<1>16. Covered(IFETCH_BUFFER', L1I'.RQ, owed', L1I'.returned)
  <2>1. Covered(IFETCH_BUFFER, L1I.RQ, owed, L1I.returned)
    BY InvParts
  <2>2. \A i \in 1 .. Len(rest) : n + i \in 1 .. Len(IFETCH_BUFFER) /\ rest[i] = IFETCH_BUFFER[n + i]
    BY <1>4, <1>5, <1>6
  <2>3. QED
    BY <2>1, <2>2, <1>1 DEF Covered
<1>17. Count(DISPATCH_BUFFER', Missed) + Count(DIB_HIT_BUFFER', Missed)
            + Count(DECODE_BUFFER', Missed) + Count(IFETCH_BUFFER', Missed)
            + Cardinality(executing' \cap Missed) = One(fetch_resume' = Never)
  <2>1. Count(DISPATCH_BUFFER, Missed) + Count(DIB_HIT_BUFFER, Missed)
           + Count(DECODE_BUFFER, Missed) + Count(IFETCH_BUFFER, Missed)
           + Cardinality(executing \cap Missed) = One(fetch_resume = Never)
    BY InvParts
  <2>2. /\ Count(end.dib, Missed) \in Nat /\ Count(end.dec, Missed) \in Nat
        /\ Count(q, Missed) \in Nat /\ Count(rest, Missed) \in Nat
    BY <1>6, <1>10, CountType
  <2>3. /\ Count(DISPATCH_BUFFER, Missed) \in Nat /\ Count(DIB_HIT_BUFFER, Missed) \in Nat
        /\ Count(DECODE_BUFFER, Missed) \in Nat /\ Cardinality(executing \cap Missed) \in Nat
    BY InvCounts
  <2>4. Count(DISPATCH_BUFFER, Missed) + Count(end.dib, Missed) + Count(end.dec, Missed)
           + Count(rest, Missed) + Cardinality(executing \cap Missed) = One(fetch_resume = Never)
    <3>1. /\ Count(end.dib, Missed) + Count(end.dec, Missed)
                = Count(DIB_HIT_BUFFER, Missed) + Count(DECODE_BUFFER, Missed) + Count(q, Missed)
          /\ Count(IFETCH_BUFFER, Missed) = Count(q, Missed) + Count(rest, Missed)
      BY <1>6, <1>10
    <3>2. QED
      BY <3>1, <2>1, <2>2, <2>3
  <2>5. QED
    BY <2>4, <1>1
<1>18. QED
  BY <1>1, <1>6, <1>10, <1>12, <1>13, <1>14, <1>15, <1>16, <1>17, InvParts, InvNext

-----------------------------------------------------------------------------
(* The stages that work on IFETCH_BUFFER in place. *)

\* The same instructions in the same places.
SameInstrs(s, t) ==
    /\ Len(s) = Len(t)
    /\ \A i \in 1 .. Len(t) : s[i].id = t[i].id /\ s[i].mispredicted = t[i].mispredicted

\* A step that keeps the instructions of IFETCH_BUFFER and touches the DIB, the reads
\* and the budget besides.
LEMMA FetchSideKeeps ==
  ASSUME FrontInv,
         UNCHANGED <<configVars, DIB_HIT_BUFFER, DECODE_BUFFER, DISPATCH_BUFFER, initialized,
                     fetch_resume, owed, dispatched, executing>>,
         IFETCH_BUFFER' \in Seq(Entry), SameInstrs(IFETCH_BUFFER', IFETCH_BUFFER),
         DIB' \in Table, L1I' \in ChannelOf(Read, Read), Len(L1I'.RQ) <= cfg.RQ_SIZE,
         budget' \in Nat, Len(IFETCH_BUFFER) + budget' <= cfg.IFETCH_BUFFER_SIZE,
         Covered(IFETCH_BUFFER', L1I'.RQ, owed', L1I'.returned)
  PROVE  FrontInv'
<1>1. /\ IFETCH_BUFFER \in Seq(Entry) /\ Consecutive(IFETCH_BUFFER, initialized - Len(IFETCH_BUFFER))
      /\ Len(IFETCH_BUFFER) \in Nat /\ DOMAIN IFETCH_BUFFER = 1 .. Len(IFETCH_BUFFER)
      /\ DOMAIN IFETCH_BUFFER' = 1 .. Len(IFETCH_BUFFER')
      /\ Len(IFETCH_BUFFER') = Len(IFETCH_BUFFER)
  BY InvParts, LenProperties DEF SameInstrs
<1>2. Consecutive(IFETCH_BUFFER', initialized' - Len(IFETCH_BUFFER'))
  BY <1>1 DEF Consecutive, SameInstrs
<1>3. Count(IFETCH_BUFFER', Missed) = Count(IFETCH_BUFFER, Missed)
  <2>1. \A i \in 1 .. Len(IFETCH_BUFFER) :
           /\ IFETCH_BUFFER'[i] \in Entry /\ IFETCH_BUFFER[i] \in Entry
           /\ IFETCH_BUFFER'[i].mispredicted = IFETCH_BUFFER[i].mispredicted
    BY <1>1, LenProperties DEF SameInstrs
  <2>2. \A i \in 1 .. Len(IFETCH_BUFFER') :
           IFETCH_BUFFER'[i] \in Missed <=> IFETCH_BUFFER[i] \in Missed
    BY <2>1, <1>1 DEF Missed
  <2>3. QED
    BY <2>2, <1>1, CountAlike
<1>4. Len(IFETCH_BUFFER') + budget' <= cfg.IFETCH_BUFFER_SIZE
  BY <1>1
<1>5. QED
  BY <1>1, <1>2, <1>3, <1>4, InvParts, InvNext

\* What names an instruction names it with its flags changed.
LEMMA NamedAlike ==
  ASSUME NEW reads, NEW e, NEW d, d.id = e.id, Named(reads, e)
  PROVE  Named(reads, d)
BY DEF Named, Names, Line

\* Fewer instructions wait.
LEMMA CoveredAlike ==
  ASSUME NEW s, NEW t, SameInstrs(s, t), NEW rq, NEW below, NEW returned,
         Covered(t, rq, below, returned),
         \A i \in 1 .. Len(t) : s[i].issued /\ ~s[i].completed => t[i].issued /\ ~t[i].completed
  PROVE  Covered(s, rq, below, returned)
<1> SUFFICES ASSUME NEW i \in 1 .. Len(t), s[i].issued, ~s[i].completed
             PROVE  Named(rq, s[i]) \/ Named(below, s[i]) \/ Named(returned, s[i])
  BY DEF Covered, SameInstrs
<1>1. Named(rq, t[i]) \/ Named(below, t[i]) \/ Named(returned, t[i])
  BY DEF Covered
<1>2. s[i].id = t[i].id
  BY DEF SameInstrs
<1>3. QED
  BY <1>1, <1>2, NamedAlike

-----------------------------------------------------------------------------
(* check_dib. *)

\* IFETCH_BUFFER and the DIB while instructions are looked up.
Checking(old) ==
    {x \in [dib : Table, buffer : Seq(Entry)] :
        /\ SameInstrs(x.buffer, old)
        /\ \A i \in 1 .. Len(old) : x.buffer[i].issued = old[i].issued
                                    /\ (old[i].completed => x.buffer[i].completed)}

\* One lookup.
LEMMA CheckOne ==
  ASSUME TypeInv, NEW old \in Seq(Entry), NEW x \in Checking(old), NEW i \in 1 .. Len(old)
  PROVE  do_check_dib(x, i) \in Checking(old)
<1> DEFINE e == x.buffer[i]
           window == program[e.id].window
           hit == window \in Tags(x.dib)
           d == Checked(e, hit)
           dib == check_hit(x.dib, window)
           buffer == [x.buffer EXCEPT ![i] = d]
<1>1. /\ x.dib \in Table /\ x.buffer \in Seq(Entry) /\ Len(x.buffer) = Len(old)
      /\ \A k \in 1 .. Len(old) :
            /\ x.buffer[k].id = old[k].id /\ x.buffer[k].mispredicted = old[k].mispredicted
            /\ x.buffer[k].issued = old[k].issued
            /\ old[k].completed => x.buffer[k].completed
  BY DEF Checking, SameInstrs
<1>2. do_check_dib(x, i) = [dib |-> dib, buffer |-> buffer]
  BY DEF do_check_dib
<1>3. e \in Entry
  BY <1>1, LenProperties
<1>4. dib \in Table
  <2>1. x.dib \in Seq([tag : Windows]) /\ OncePerTag(x.dib) /\ Len(x.dib) <= cfg.DIB_WAY
    BY <1>1 DEF Table
  <2> HIDE DEF window
  <2>2. dib \in Seq([tag : Windows]) /\ OncePerTag(dib) /\ Len(dib) = Len(x.dib)
    BY <2>1, UsedTable
  <2>3. QED
    BY <2>1, <2>2 DEF Table
<1> HIDE DEF dib, hit
<1>5. /\ d \in Entry /\ d.id = e.id /\ d.mispredicted = e.mispredicted /\ d.issued = e.issued
      /\ e.completed => d.completed
  <2> DEFINE c == e.completed \/ hit
             f == e.decoded \/ hit
  <2>1. c \in BOOLEAN /\ f \in BOOLEAN /\ (e.completed => c)
    OBVIOUS
  <2>2. d = [e EXCEPT !.dib_checked = TRUE, !.completed = c, !.decoded = f]
    BY <1>3 DEF Entry, Checked
  <2> HIDE DEF c, f, e, d
  <2>3. /\ d \in Entry /\ d.id = e.id /\ d.mispredicted = e.mispredicted /\ d.issued = e.issued
        /\ d.completed = c
    BY <2>1, <2>2, <1>3 DEF Entry
  <2>4. QED
    BY <2>1, <2>3
<1> HIDE DEF d
<1>6. /\ buffer \in Seq(Entry) /\ Len(buffer) = Len(x.buffer)
      /\ \A k \in 1 .. Len(x.buffer) : buffer[k] = IF k = i THEN d ELSE x.buffer[k]
  BY <1>1, <1>5, CountReplaced
<1> HIDE DEF buffer
<1>7. \A k \in 1 .. Len(old) :
         /\ buffer[k].id = old[k].id /\ buffer[k].mispredicted = old[k].mispredicted
         /\ buffer[k].issued = old[k].issued
         /\ old[k].completed => buffer[k].completed
  BY <1>1, <1>5, <1>6 DEF e
<1>8. SameInstrs(buffer, old)
  BY <1>1, <1>6, <1>7 DEF SameInstrs
<1>9. QED
  BY <1>2, <1>4, <1>6, <1>7, <1>8 DEF Checking

\* check_dib keeps all of it.
LEMMA CheckDIBKeeps ==
  ASSUME FrontInv, CheckDIB
  PROVE  FrontInv'
<1> DEFINE n == Len(IFETCH_BUFFER)
           D == {k \in 1 .. n : k <= n /\ \A i \in 1 .. k : IFETCH_BUFFER[i].dib_checked}
           checked == Cardinality(D)
           width == Least(cfg.FETCH_WIDTH, n - checked)
           q == [i \in 1 .. width |-> checked + i]
           b == [dib |-> DIB, buffer |-> IFETCH_BUFFER]
           end == FoldLeft(do_check_dib, b, q)
           T == Checking(IFETCH_BUFFER)
<1>1. /\ DIB' = end.dib /\ IFETCH_BUFFER' = end.buffer
      /\ budget' = Least(cfg.FETCH_WIDTH, cfg.IFETCH_BUFFER_SIZE - n)
      /\ UNCHANGED <<DIB_HIT_BUFFER, DECODE_BUFFER, DISPATCH_BUFFER, initialized, fetch_resume,
                     L1I, configVars, owed, dispatched, executing>>
  BY DEF CheckDIB, SpanOf, externalVars
<1>2. TypeInv /\ IFETCH_BUFFER \in Seq(Entry) /\ DIB \in Table /\ L1I \in ChannelOf(Read, Read)
      /\ Len(L1I.RQ) <= cfg.RQ_SIZE /\ Covered(IFETCH_BUFFER, L1I.RQ, owed, L1I.returned)
  BY InvParts
<1>3. /\ n \in Nat /\ cfg.FETCH_WIDTH \in Nat /\ cfg.IFETCH_BUFFER_SIZE \in Nat
      /\ n <= cfg.IFETCH_BUFFER_SIZE
  <2>1. n + budget <= cfg.IFETCH_BUFFER_SIZE /\ budget \in Nat
    BY InvParts
  <2>2. n \in Nat /\ cfg.FETCH_WIDTH \in Nat /\ cfg.IFETCH_BUFFER_SIZE \in Nat
    BY <1>2, InvCounts, ConfigSizes
  <2> HIDE DEF n
  <2>3. QED
    BY <2>1, <2>2
<1> HIDE DEF n, end
<1>4. checked \in 0 .. n
  <2>1. D \in SUBSET (1 .. n)
    OBVIOUS
  <2>2. \A k \in D : \A i \in 1 .. k : i \in D
    <3> SUFFICES ASSUME NEW k \in D, NEW i \in 1 .. k
                 PROVE  i \in D
      OBVIOUS
    <3>1. i \in 1 .. n /\ i <= n /\ \A j \in 1 .. i : j \in 1 .. k
      BY <1>3
    <3>2. \A j \in 1 .. k : IFETCH_BUFFER[j].dib_checked
      OBVIOUS
    <3>3. QED
      BY <3>1, <3>2
  <2> HIDE DEF D
  <2>3. QED
    BY <2>1, <2>2, <1>3, FirstPart
<1> HIDE DEF checked
<1>5. width \in Nat /\ width <= n - checked
  BY <1>3, <1>4 DEF Least
<1> HIDE DEF width
<1>6. q \in Seq(1 .. n)
  <2>1. q \in [1 .. width -> 1 .. n]
    BY <1>3, <1>4, <1>5
  <2> HIDE DEF q
  <2>2. QED
    BY <2>1, <1>5, FunctionIsSequence
<1> HIDE DEF q
<1>7. b \in T
  BY <1>2 DEF Checking, SameInstrs
<1> HIDE DEF b
<1>8. \A x \in T, i \in 1 .. n : do_check_dib(x, i) \in T
  BY <1>2, CheckOne DEF n
<1>9. end \in T
  <2> DEFINE E == 1 .. n
  <2>1. q \in Seq(E) /\ \A x \in T, i \in E : do_check_dib(x, i) \in T
    BY <1>6, <1>8
  <2> HIDE DEF E, T
  <2>2. CheckPath(T, b, q)
    BY <2>1, <1>7, CheckFold
  <2>3. PICK g \in [0 .. Len(q) -> T] : end = g[Len(q)]
    BY <2>2 DEF CheckPath, end
  <2>4. Len(q) \in 0 .. Len(q)
    BY <2>1, LenProperties
  <2>5. QED
    BY <2>3, <2>4
<1>10. /\ end.dib \in Table /\ end.buffer \in Seq(Entry)
       /\ SameInstrs(end.buffer, IFETCH_BUFFER)
       /\ \A i \in 1 .. Len(IFETCH_BUFFER) :
             /\ end.buffer[i].issued = IFETCH_BUFFER[i].issued
             /\ IFETCH_BUFFER[i].completed => end.buffer[i].completed
  BY <1>9 DEF Checking
<1>11. Covered(end.buffer, L1I.RQ, owed, L1I.returned)
  BY <1>2, <1>10, CoveredAlike
<1>12. budget' \in Nat /\ n + budget' <= cfg.IFETCH_BUFFER_SIZE
  <2> DEFINE room == cfg.IFETCH_BUFFER_SIZE - n
  <2>1. room \in Nat /\ n + room = cfg.IFETCH_BUFFER_SIZE /\ budget' = Least(cfg.FETCH_WIDTH, room)
    BY <1>1, <1>3
  <2> HIDE DEF room
  <2>2. budget' \in Nat /\ budget' <= room
    BY <2>1, <1>3 DEF Least
  <2>3. QED
    BY <2>1, <2>2, <1>3
<1>13. QED
  BY <1>1, <1>2, <1>10, <1>11, <1>12, FetchSideKeeps DEF n

-----------------------------------------------------------------------------
(* initialize_instruction. *)

\* An instruction more, and fetch stops if it is mispredicted.
LEMMA InitializeKeeps ==
  ASSUME FrontInv, NEW direction \in BOOLEAN, NEW btb, InitializeInstruction(direction, btb)
  PROVE  FrontInv'
<1> DEFINE id == initialized + 1
           instr == program[id]
           stops == Mispredicts(instr, direction, btb) /\ ~cfg.warmup
           follows == is_branch(instr) /\ ~Mispredicts(instr, direction, btb) /\ branch_taken(instr)
           dsts == IF cfg.warmup THEN {} ELSE do_stack_pointer_folding(instr).dsts
           prediction == is_branch(instr) /\ direction
           e == [id |-> id, dsts |-> dsts, prediction |-> prediction, mispredicted |-> stops,
                 dib_checked |-> FALSE, issued |-> FALSE, completed |-> FALSE,
                 decoded |-> FALSE, ready |-> 0]
           n == Len(IFETCH_BUFFER)
<1>1. /\ fetch_resume = 0 /\ budget > 0 /\ initialized < Len(program)
      /\ initialized' = id /\ IFETCH_BUFFER' = Append(IFETCH_BUFFER, e)
      /\ fetch_resume' = IF stops THEN Never ELSE fetch_resume
      /\ budget' = IF stops \/ follows THEN 0 ELSE budget - 1
      /\ UNCHANGED <<DIB_HIT_BUFFER, DECODE_BUFFER, DISPATCH_BUFFER, DIB, L1I, configVars, owed,
                     dispatched, executing>>
  BY DEF InitializeInstruction, CanInitialize, externalVars
<1>2. /\ TypeInv /\ IFETCH_BUFFER \in Seq(Entry) /\ initialized \in 0 .. Len(program)
      /\ Len(program) \in Nat /\ n \in Nat /\ budget \in Nat /\ cfg.IFETCH_BUFFER_SIZE \in Nat
      /\ n + budget <= cfg.IFETCH_BUFFER_SIZE
      /\ Consecutive(IFETCH_BUFFER, initialized - n)
      /\ Covered(IFETCH_BUFFER, L1I.RQ, owed, L1I.returned)
  <2>1. TypeInv
    BY InvParts
  <2>2. QED
    BY <2>1, InvParts, InvCounts, ConfigSizes
<1>3. id \in 1 .. Len(program)
  BY <1>1, <1>2
<1>4. e \in Entry /\ e.id = id /\ ~e.issued /\ (e \in Missed <=> stops)
  <2>1. dsts \in Results
    BY <1>3 DEF Results
  <2>2. stops \in BOOLEAN /\ prediction \in BOOLEAN
    OBVIOUS
  <2> HIDE DEF id, dsts, stops, prediction
  <2>3. e \in Entry /\ e.id = id /\ e.issued = FALSE /\ e.mispredicted = stops
    BY <2>1, <2>2, <1>3 DEF Entry
  <2>4. QED
    BY <2>3, Zenon DEF Missed
<1> HIDE DEF e, stops, follows
<1>5. /\ IFETCH_BUFFER' \in Seq(Entry) /\ Len(IFETCH_BUFFER') = n + 1
      /\ \A i \in 1 .. n : IFETCH_BUFFER'[i] = IFETCH_BUFFER[i]
      /\ IFETCH_BUFFER'[n + 1] = e
  BY <1>1, <1>2, <1>4, AppendProperties
<1>6. Count(IFETCH_BUFFER', Missed) = Count(IFETCH_BUFFER, Missed) + One(e \in Missed)
  BY <1>1, <1>2, <1>4, CountAppend
<1>7. \A i \in 1 .. n : IFETCH_BUFFER[i].id = initialized - n + i
  BY <1>2 DEF Consecutive
<1> HIDE DEF n
<1>8. budget' \in Nat /\ Len(IFETCH_BUFFER') + budget' <= cfg.IFETCH_BUFFER_SIZE
  <2>1. budget' \in Nat /\ budget' <= budget - 1
    BY <1>1, <1>2
  <2>2. QED
    BY <2>1, <1>1, <1>2, <1>5
<1>9. Consecutive(IFETCH_BUFFER', initialized' - Len(IFETCH_BUFFER'))
  <2> SUFFICES ASSUME NEW i \in 1 .. n + 1
               PROVE  IFETCH_BUFFER'[i].id = initialized + 1 - (n + 1) + i
    BY <1>1, <1>5, <1>2 DEF Consecutive
  <2>1. n \in Nat /\ initialized \in Nat /\ e.id = initialized + 1
    BY <1>2, <1>4
  <2>2. CASE i \in 1 .. n
    <3>1. IFETCH_BUFFER'[i].id = initialized - n + i
      BY <2>2, <1>5, <1>7
    <3>2. QED
      BY <2>1, <2>2, <3>1
  <2>3. CASE i = n + 1
    <3>1. IFETCH_BUFFER'[i].id = initialized + 1
      BY <2>1, <2>3, <1>5
    <3>2. QED
      BY <2>1, <2>3, <3>1
  <2>4. QED
    BY <2>1, <2>2, <2>3
<1>10. Covered(IFETCH_BUFFER', L1I'.RQ, owed', L1I'.returned)
  <2> SUFFICES ASSUME NEW i \in 1 .. n + 1, IFETCH_BUFFER'[i].issued, ~IFETCH_BUFFER'[i].completed
               PROVE  \/ Named(L1I.RQ, IFETCH_BUFFER'[i]) \/ Named(owed, IFETCH_BUFFER'[i])
                      \/ Named(L1I.returned, IFETCH_BUFFER'[i])
    BY <1>1, <1>5 DEF Covered
  <2>1. i # n + 1
    BY <1>4, <1>5
  <2>2. i \in 1 .. Len(IFETCH_BUFFER)
    BY <2>1, <1>2 DEF n
  <2>3. QED
    BY <2>2, <1>2, <1>5 DEF Covered, n
<1>11. dispatched' + Len(DISPATCH_BUFFER') + Len(DIB_HIT_BUFFER') + Len(DECODE_BUFFER')
            + Len(IFETCH_BUFFER') = initialized'
  <2> DEFINE u == dispatched + Len(DISPATCH_BUFFER) + Len(DIB_HIT_BUFFER) + Len(DECODE_BUFFER)
  <2>1. u + n = initialized
    BY InvParts DEF n
  <2>2. u \in Nat
    <3>1. dispatched \in Nat
      BY InvParts
    <3>2. QED
      BY <3>1, InvCounts
  <2> HIDE DEF u
  <2>3. u + (n + 1) = initialized + 1
    BY <2>1, <2>2, <1>2
  <2>4. QED
    BY <2>3, <1>1, <1>5 DEF u
<1>12. One(fetch_resume = Never) = 0 /\ One(fetch_resume' = Never) = One(e \in Missed)
  <2>1. fetch_resume # Never
    BY <1>1 DEF Never
  <2>2. fetch_resume' = Never <=> stops
    BY <2>1, <1>1
  <2>3. fetch_resume' = Never <=> e \in Missed
    BY <2>2, <1>4
  <2>4. QED
    BY <2>1, <2>3 DEF One
<1>13. Count(DISPATCH_BUFFER', Missed) + Count(DIB_HIT_BUFFER', Missed)
            + Count(DECODE_BUFFER', Missed) + Count(IFETCH_BUFFER', Missed)
            + Cardinality(executing' \cap Missed) = One(fetch_resume' = Never)
  <2>1. Count(DISPATCH_BUFFER, Missed) + Count(DIB_HIT_BUFFER, Missed)
           + Count(DECODE_BUFFER, Missed) + Count(IFETCH_BUFFER, Missed)
           + Cardinality(executing \cap Missed) = 0
    BY <1>12, InvParts
  <2>2. One(e \in Missed) \in Nat
    BY DEF One
  <2>3. /\ Count(DISPATCH_BUFFER, Missed) \in Nat /\ Count(DIB_HIT_BUFFER, Missed) \in Nat
        /\ Count(DECODE_BUFFER, Missed) \in Nat /\ Count(IFETCH_BUFFER, Missed) \in Nat
        /\ Cardinality(executing \cap Missed) \in Nat
    BY InvCounts
  <2>4. /\ Count(DISPATCH_BUFFER, Missed) = 0 /\ Count(DIB_HIT_BUFFER, Missed) = 0
        /\ Count(DECODE_BUFFER, Missed) = 0 /\ Count(IFETCH_BUFFER, Missed) = 0
        /\ Cardinality(executing \cap Missed) = 0
    <3> DEFINE u == Count(DISPATCH_BUFFER, Missed)
               v == Count(DIB_HIT_BUFFER, Missed)
               w == Count(DECODE_BUFFER, Missed)
               x == Count(IFETCH_BUFFER, Missed)
               y == Cardinality(executing \cap Missed)
    <3>1. u + v + w + x + y = 0 /\ u \in Nat /\ v \in Nat /\ w \in Nat /\ x \in Nat /\ y \in Nat
      BY <2>1, <2>3
    <3> HIDE DEF u, v, w, x, y
    <3>2. u = 0 /\ v = 0 /\ w = 0 /\ x = 0 /\ y = 0
      BY <3>1
    <3>3. QED
      BY <3>2 DEF u, v, w, x, y
  <2>5. QED
    BY <2>2, <2>4, <1>1, <1>6, <1>12
<1>14. fetch_resume' \in 0 .. Never
  <2>1. fetch_resume' \in {0, Never}
    BY <1>1
  <2>2. QED
    BY <2>1 DEF Never
<1>15. initialized' \in 0 .. Len(program)
  BY <1>1, <1>2, <1>3
<1>16. QED
  BY <1>1, <1>5, <1>8, <1>9, <1>10, <1>11, <1>13, <1>14, <1>15, InvParts, InvNext

-----------------------------------------------------------------------------
(* fetch_instruction. *)

\* The reads and IFETCH_BUFFER while chunks are fetched; the rest of the reads are below
\* and returned.
Fetching(old, below, returned) ==
    {x \in [rq : Seq(Read), buffer : Seq(Entry)] :
        /\ Len(x.rq) <= cfg.RQ_SIZE
        /\ SameInstrs(x.buffer, old)
        /\ Covered(x.buffer, x.rq, below, returned)}

\* A chunk is a run of places from the first instruction to fetch.
LEMMA ChunkIsRun ==
  ASSUME NEW buffer \in Seq(Entry), ToFetch(buffer) # {}
  PROVE  LET first == FirstToFetch(buffer)
             chunk == Chunk(buffer)
         IN  /\ first \in 1 .. Len(buffer) /\ first \in ToFetch(buffer)
             /\ chunk \in SUBSET (first .. Len(buffer))
             /\ Cardinality(chunk) \in 1 .. Len(buffer) - first + 1
             /\ chunk = first .. first + Cardinality(chunk) - 1
             /\ \A i \in chunk : Line(buffer[i]) = Line(buffer[first])
<1> DEFINE first == FirstToFetch(buffer)
           chunk == Chunk(buffer)
           n == Len(buffer)
           top == Top(chunk)
           Same(j) == Line(buffer[j]) = Line(buffer[first])
<1>1. n \in Nat /\ DOMAIN buffer = 1 .. n
  BY LenProperties
<1>2. first \in ToFetch(buffer)
  <2>1. ToFetch(buffer) \subseteq Nat
    BY <1>1 DEF ToFetch
  <2>2. PICK i \in ToFetch(buffer) : \A j \in ToFetch(buffer) : i <= j
    BY <2>1, SmallestOf
  <2>3. QED
    BY <2>2 DEF FirstToFetch
<1>3. first \in 1 .. n
  BY <1>1, <1>2 DEF ToFetch
<1>4. chunk = {i \in first .. n : \A j \in first .. i : Same(j)}
  BY DEF Chunk
<1> HIDE DEF first, chunk, Same, n
<1>5. chunk \in SUBSET (1 .. n) /\ first \in chunk
  <2>1. first \in first .. n /\ \A j \in first .. first : j = first
    BY <1>1, <1>3
  <2>2. Same(first)
    BY DEF Same
  <2>3. \A i \in first .. n : i \in 1 .. n
    BY <1>1, <1>3
  <2>4. QED
    BY <2>1, <2>2, <2>3, <1>4
<1>6. top \in chunk /\ \A i \in chunk : top >= i
  BY <1>1, <1>5, TopOf
<1> HIDE DEF top
<1>7. top \in first .. n /\ \A j \in first .. top : Same(j)
  BY <1>4, <1>6
<1>8. chunk = first .. top
  <2>1. \A i \in chunk : i \in first .. top
    BY <1>1, <1>3, <1>4, <1>6, <1>7
  <2>2. ASSUME NEW i \in first .. top
        PROVE  i \in chunk
    <3>1. i \in first .. n /\ \A j \in first .. i : j \in first .. top
      BY <1>1, <1>3, <1>7
    <3>2. QED
      BY <3>1, <1>4, <1>7
  <2>3. QED
    BY <2>1, <2>2
<1>9. Cardinality(chunk) = top - first + 1
  <2>1. first \in Int /\ top \in Int /\ first <= top
    BY <1>3, <1>7
  <2>2. Cardinality(first .. top) = IF first > top THEN 0 ELSE top - first + 1
    BY <2>1, FS_Interval
  <2>3. QED
    BY <2>1, <2>2, <1>8
<1>10. Cardinality(chunk) \in 1 .. n - first + 1 /\ top = first + Cardinality(chunk) - 1
  BY <1>1, <1>3, <1>7, <1>9
<1>11. chunk \in SUBSET (first .. n)
  BY <1>4
<1>12. \A i \in chunk : Same(i)
  BY <1>7, <1>8
<1>13. QED
  BY <1>2, <1>3, <1>8, <1>10, <1>11, <1>12 DEF first, chunk, n, Same

\* A chunk is fetched, and the read names all of it.
LEMMA FetchOne ==
  ASSUME TypeInv, NEW old \in Seq(Entry), NEW below, NEW returned,
         NEW x \in Fetching(old, below, returned), NEW k
  PROVE  FetchChunk(x, k) \in Fetching(old, below, returned)
<1> DEFINE buffer == x.buffer
           rq == x.rq
           first == FirstToFetch(buffer)
           chunk == Chunk(buffer)
           n == Len(buffer)
           many == Cardinality(chunk)
           ids == [i \in 1 .. many |-> buffer[first - 1 + i].id]
           line == Line(buffer[first])
           read == [line |-> line, ids |-> ids]
           asked == Append(rq, read)
           marked == Mark(buffer, chunk)
<1>1. CASE FetchChunk(x, k) = x
  BY <1>1
<1>2. CASE FetchChunk(x, k) # x
  <2>1. /\ rq \in Seq(Read) /\ buffer \in Seq(Entry) /\ Len(rq) <= cfg.RQ_SIZE
        /\ SameInstrs(buffer, old) /\ Covered(buffer, rq, below, returned)
    BY DEF Fetching
  <2>2. /\ ToFetch(buffer) # {} /\ ~(Len(rq) >= cfg.RQ_SIZE)
        /\ FetchChunk(x, k) = [rq |-> Asked(x, chunk), buffer |-> marked]
    BY <1>2 DEF FetchChunk
  <2>3. /\ first \in 1 .. n /\ chunk \in SUBSET (first .. n)
        /\ many \in 1 .. n - first + 1 /\ chunk = first .. first + many - 1
        /\ \A i \in chunk : Line(buffer[i]) = line
    BY <2>1, <2>2, ChunkIsRun
  <2>4. n \in Nat /\ DOMAIN buffer = 1 .. n /\ \A i \in 1 .. n : buffer[i] \in Entry
    BY <2>1, LenProperties
  <2>5. Asked(x, chunk) = asked
    <3>1. first - 1 + 1 = first
      BY <2>3, <2>4
    <3>2. QED
      BY <3>1 DEF Asked
  <2>6. Len(rq) \in Nat /\ cfg.RQ_SIZE \in Nat
    BY <2>1, LenProperties, ConfigSizes
  <2> HIDE DEF first, chunk, n, many
  <2>7. \A i \in 1 .. many : first - 1 + i \in 1 .. n /\ first - 1 + i \in chunk
    BY <2>3, <2>4
  <2>8. ids \in Seq(Nat) /\ Len(ids) = many
    <3>1. \A i \in 1 .. n : buffer[i].id \in Nat
      BY <2>4, ProgramSequence
    <3>2. ids \in [1 .. many -> Nat] /\ many \in Nat
      BY <3>1, <2>3, <2>7
    <3> HIDE DEF ids
    <3>3. QED
      BY <3>2, FunctionIsSequence
  <2>9. line \in Lines
    <3>1. buffer[first] \in Entry
      BY <2>3, <2>4
    <3>2. QED
      BY <3>1 DEF Line, Lines, Entry
  <2>10. read \in Read
    <3> HIDE DEF ids, line
    <3>1. QED
      BY <2>8, <2>9 DEF Read
  <2>11. \A i \in chunk : Names(read, buffer[i])
    <3> SUFFICES ASSUME NEW i \in chunk
                 PROVE  Names(read, buffer[i])
      OBVIOUS
    <3> DEFINE j == i - (first - 1)
    <3>1. j \in 1 .. many /\ first - 1 + j = i
      BY <2>3, <2>4
    <3> HIDE DEF j
    <3>2. ids[j] = buffer[i].id
      BY <3>1
    <3>3. Line(buffer[i]) = line
      BY <2>3
    <3> HIDE DEF ids, line
    <3>4. read.line = line /\ read.ids = ids
      OBVIOUS
    <3>5. QED
      BY <3>1, <3>2, <3>3, <3>4, <2>8 DEF Names
  <2> HIDE DEF read, line, ids
  <2>12. /\ asked \in Seq(Read) /\ Len(asked) = Len(rq) + 1
         /\ \A i \in 1 .. Len(rq) : asked[i] = rq[i]
         /\ asked[Len(rq) + 1] = read
    BY <2>1, <2>10, AppendProperties
  <2> HIDE DEF asked
  <2>13. ASSUME NEW e, Named(rq, e) \/ Names(read, e)
         PROVE  Named(asked, e)
    <3>1. CASE Names(read, e)
      <4>1. Len(rq) + 1 \in 1 .. Len(asked)
        BY <2>6, <2>12
      <4>2. QED
        BY <4>1, <3>1, <2>12 DEF Named
    <3>2. CASE Named(rq, e)
      <4>1. PICK i \in 1 .. Len(rq) : Names(rq[i], e)
        BY <3>2 DEF Named
      <4>2. i \in 1 .. Len(asked) /\ asked[i] = rq[i]
        BY <2>6, <2>12
      <4>3. QED
        BY <4>1, <4>2 DEF Named
    <3>3. QED
      BY <2>13, <3>1, <3>2
  <2>14. ASSUME NEW e \in Entry
         PROVE  LET d == [e EXCEPT !.issued = TRUE]
                IN  /\ d \in Entry /\ d.id = e.id /\ d.mispredicted = e.mispredicted
                    /\ d.completed = e.completed
    BY DEF Entry
  <2>15. /\ marked \in Seq(Entry) /\ Len(marked) = n
         /\ \A i \in 1 .. n :
               /\ marked[i].id = buffer[i].id /\ marked[i].mispredicted = buffer[i].mispredicted
               /\ i \notin chunk => marked[i] = buffer[i]
    <3>1. /\ marked \in [1 .. n -> Entry]
          /\ \A i \in 1 .. n :
                /\ marked[i].id = buffer[i].id /\ marked[i].mispredicted = buffer[i].mispredicted
                /\ i \notin chunk => marked[i] = buffer[i]
      BY <2>4, <2>14 DEF Mark
    <3> HIDE DEF marked
    <3>2. QED
      BY <3>1, <2>4, FunctionIsSequence
  <2> HIDE DEF marked
  <2>16. SameInstrs(marked, old)
    BY <2>1, <2>4, <2>15 DEF SameInstrs, n
  <2>17. Covered(marked, asked, below, returned)
    <3> SUFFICES ASSUME NEW i \in 1 .. n, marked[i].issued, ~marked[i].completed
                 PROVE  Named(asked, marked[i]) \/ Named(below, marked[i]) \/ Named(returned, marked[i])
      BY <2>15 DEF Covered
    <3>1. CASE i \in chunk
      <4>1. Named(asked, buffer[i])
        BY <3>1, <2>11, <2>13
      <4>2. marked[i].id = buffer[i].id
        BY <2>15
      <4>3. QED
        BY <4>1, <4>2, NamedAlike
    <3>2. CASE i \notin chunk
      <4>1. marked[i] = buffer[i]
        BY <3>2, <2>15
      <4>2. Named(rq, buffer[i]) \/ Named(below, buffer[i]) \/ Named(returned, buffer[i])
        BY <4>1, <2>1 DEF Covered, n
      <4>3. QED
        BY <4>1, <4>2, <2>13
    <3>3. QED
      BY <3>1, <3>2
  <2>18. Len(asked) <= cfg.RQ_SIZE
    BY <2>2, <2>6, <2>12
  <2>19. [rq |-> asked, buffer |-> marked] \in Fetching(old, below, returned)
    BY <2>12, <2>15, <2>16, <2>17, <2>18 DEF Fetching
  <2>20. QED
    BY <2>2, <2>5, <2>19
<1>3. QED
  BY <1>1, <1>2

\* fetch_instruction keeps all of it.
LEMMA FetchKeeps ==
  ASSUME FrontInv, Fetch
  PROVE  FrontInv'
<1> DEFINE q == [k \in 1 .. cfg.L1I_BANDWIDTH |-> k]
           b == [rq |-> L1I.RQ, buffer |-> IFETCH_BUFFER]
           end == FoldLeft(FetchChunk, b, q)
           T == Fetching(IFETCH_BUFFER, owed, L1I.returned)
<1>1. /\ L1I' = [L1I EXCEPT !.RQ = end.rq] /\ IFETCH_BUFFER' = end.buffer
      /\ UNCHANGED <<DIB_HIT_BUFFER, DECODE_BUFFER, DISPATCH_BUFFER, initialized, fetch_resume,
                     budget, DIB, configVars, owed, dispatched, executing>>
  BY DEF Fetch, fetchVars, externalVars
<1> HIDE DEF end
<1>2. /\ TypeInv /\ IFETCH_BUFFER \in Seq(Entry) /\ L1I \in ChannelOf(Read, Read)
      /\ Len(L1I.RQ) <= cfg.RQ_SIZE /\ Covered(IFETCH_BUFFER, L1I.RQ, owed, L1I.returned)
  BY InvParts
<1>3. q \in Seq(Nat)
  BY <1>2, ConfigSizes, RoundNumbers
<1> HIDE DEF q
<1>4. b \in T
  BY <1>2 DEF Fetching, ChannelOf, SameInstrs
<1> HIDE DEF b
<1>5. \A x \in T, k \in Nat : FetchChunk(x, k) \in T
  BY <1>2, FetchOne
<1>6. end \in T
  <2> DEFINE E == Nat
  <2>1. q \in Seq(E) /\ \A x \in T, i \in E : FetchChunk(x, i) \in T
    BY <1>3, <1>5
  <2> HIDE DEF E, T
  <2>2. FetchPath(T, b, q)
    BY <2>1, <1>4, FetchFold
  <2>3. PICK g \in [0 .. Len(q) -> T] : end = g[Len(q)]
    BY <2>2 DEF FetchPath, end
  <2>4. Len(q) \in 0 .. Len(q)
    BY <2>1, LenProperties
  <2>5. QED
    BY <2>3, <2>4
<1>7. /\ end.rq \in Seq(Read) /\ end.buffer \in Seq(Entry) /\ Len(end.rq) <= cfg.RQ_SIZE
      /\ SameInstrs(end.buffer, IFETCH_BUFFER)
      /\ Covered(end.buffer, end.rq, owed, L1I.returned)
  BY <1>6 DEF Fetching
<1>8. L1I' \in ChannelOf(Read, Read) /\ L1I'.RQ = end.rq /\ L1I'.returned = L1I.returned
  BY <1>1, <1>2, <1>7 DEF ChannelOf
<1>9. budget' \in Nat /\ Len(IFETCH_BUFFER) + budget' <= cfg.IFETCH_BUFFER_SIZE /\ DIB' \in Table
  BY <1>1, InvParts
<1>10. QED
  BY <1>1, <1>7, <1>8, <1>9, FetchSideKeeps

-----------------------------------------------------------------------------
(* handle_memory_return. *)

\* IFETCH_BUFFER while the ids of a response are used up.
Returning(old, returned) ==
    {x \in [returned : Seq(Read), buffer : Seq(Entry), bw : Int, rest : Seq(Nat)] :
        /\ x.returned = returned
        /\ SameInstrs(x.buffer, old)
        /\ \A i \in 1 .. Len(old) : x.buffer[i].issued = old[i].issued
                                    /\ (old[i].completed => x.buffer[i].completed)}

\* What waits for the id is completed, or the id is left.
Used(x, old, response, id) ==
    \/ \E l \in 1 .. Len(x.rest) : x.rest[l] = id
    \/ \A i \in 1 .. Len(old) :
          old[i].id = id /\ Fetched(old[i], response) => x.buffer[i].completed

\* What makes a record of the return.
LEMMA ReturningRecord ==
  ASSUME NEW old, NEW returned \in Seq(Read), NEW buffer \in Seq(Entry), NEW bw \in Int,
         NEW rest \in Seq(Nat), SameInstrs(buffer, old),
         \A i \in 1 .. Len(old) : buffer[i].issued = old[i].issued
                                  /\ (old[i].completed => buffer[i].completed)
  PROVE  [returned |-> returned, buffer |-> buffer, bw |-> bw, rest |-> rest]
            \in Returning(old, returned)
BY DEF Returning

\* One id.
LEMMA ReturnOneKeeps ==
  ASSUME NEW old \in Seq(Entry), NEW returned, NEW x \in Returning(old, returned),
         NEW response, NEW id \in Nat
  PROVE  /\ ReturnOne(response, x, id) \in Returning(old, returned)
         /\ Used(ReturnOne(response, x, id), old, response, id)
         /\ \A j : Used(x, old, response, j) => Used(ReturnOne(response, x, id), old, response, j)
<1> DEFINE n == Len(old)
           r == ReturnOne(response, x, id)
           found == WaitingFor(x.buffer, response, id)
<1>1. /\ x = [returned |-> returned, buffer |-> x.buffer, bw |-> x.bw, rest |-> x.rest]
      /\ returned \in Seq(Read) /\ x.buffer \in Seq(Entry) /\ x.bw \in Int /\ x.rest \in Seq(Nat)
      /\ SameInstrs(x.buffer, old)
      /\ \A i \in 1 .. n : x.buffer[i].issued = old[i].issued
                           /\ (old[i].completed => x.buffer[i].completed)
  BY DEF Returning
<1>2. /\ Len(x.buffer) = n /\ n \in Nat /\ DOMAIN x.buffer = 1 .. n
      /\ \A i \in 1 .. n : /\ x.buffer[i] \in Entry
                           /\ x.buffer[i].id = old[i].id
                           /\ x.buffer[i].mispredicted = old[i].mispredicted
  BY <1>1, LenProperties DEF SameInstrs
<1>6. /\ x.bw = 0 => r = [returned |-> returned, buffer |-> x.buffer, bw |-> x.bw,
                          rest |-> Append(x.rest, id)]
      /\ x.bw # 0 => r = [returned |-> returned, buffer |-> Complete(x.buffer, found),
                          bw |-> x.bw - Cardinality(found), rest |-> x.rest]
  <2> DEFINE y == [returned |-> returned, buffer |-> x.buffer, bw |-> x.bw, rest |-> x.rest]
             v == Complete(x.buffer, found)
             w == x.bw - Cardinality(found)
             rest == Append(x.rest, id)
  <2>1. /\ x.bw = 0 => r = [x EXCEPT !.rest = rest]
        /\ x.bw # 0 => r = [x EXCEPT !.buffer = v, !.bw = w]
    BY Zenon DEF ReturnOne
  <2> HIDE DEF r, v, w, rest
  <2>2. /\ [y EXCEPT !.rest = rest]
                = [returned |-> returned, buffer |-> x.buffer, bw |-> x.bw, rest |-> rest]
        /\ [y EXCEPT !.buffer = v, !.bw = w]
                = [returned |-> returned, buffer |-> v, bw |-> w, rest |-> x.rest]
    <3> DEFINE y1 == [y EXCEPT !.buffer = v]
               y2 == [returned |-> returned, buffer |-> v, bw |-> x.bw, rest |-> x.rest]
    <3>1. [y EXCEPT !.buffer = v, !.bw = w] = [y1 EXCEPT !.bw = w]
      <4> HIDE DEF y
      <4>1. QED
        OBVIOUS
    <3>2. y1 = y2
      OBVIOUS
    <3>3. [y2 EXCEPT !.bw = w]
             = [returned |-> returned, buffer |-> v, bw |-> w, rest |-> x.rest]
      OBVIOUS
    <3>4. [y EXCEPT !.rest = rest]
             = [returned |-> returned, buffer |-> x.buffer, bw |-> x.bw, rest |-> rest]
      OBVIOUS
    <3> HIDE DEF y, y1, y2
    <3>5. QED
      BY <3>1, <3>2, <3>3, <3>4
  <2>3. x = y
    BY <1>1
  <2> HIDE DEF y
  <2>4. /\ x.bw = 0 => r = [returned |-> returned, buffer |-> x.buffer, bw |-> x.bw,
                            rest |-> rest]
        /\ x.bw # 0 => r = [returned |-> returned, buffer |-> v, bw |-> w, rest |-> x.rest]
    BY <2>1, <2>2, <2>3
  <2>5. QED
    BY <2>4 DEF v, w, rest
<1>3. CASE x.bw = 0
  <2> DEFINE rest == Append(x.rest, id)
  <2>1. r = [returned |-> returned, buffer |-> x.buffer, bw |-> x.bw, rest |-> rest]
    BY <1>3, <1>6
  <2>2. /\ rest \in Seq(Nat) /\ Len(rest) = Len(x.rest) + 1 /\ Len(x.rest) \in Nat
        /\ \A l \in 1 .. Len(x.rest) : rest[l] = x.rest[l]
        /\ rest[Len(x.rest) + 1] = id
    BY <1>1, AppendProperties, LenProperties
  <2> HIDE DEF rest, r
  <2>3. r \in Returning(old, returned)
    BY <1>1, <2>1, <2>2, ReturningRecord
  <2>4. Used(r, old, response, id)
    <3>1. Len(x.rest) + 1 \in 1 .. Len(rest)
      BY <2>2
    <3>2. QED
      BY <3>1, <2>1, <2>2 DEF Used
  <2>5. ASSUME NEW j, Used(x, old, response, j)
        PROVE  Used(r, old, response, j)
    <3>1. \A l \in 1 .. Len(x.rest) : l \in 1 .. Len(rest)
      BY <2>2
    <3>2. QED
      BY <2>5, <3>1, <2>1, <2>2 DEF Used
  <2>6. QED
    BY <2>3, <2>4, <2>5 DEF r
<1>4. CASE x.bw # 0
  <2> DEFINE buffer == Complete(x.buffer, found)
             bw == x.bw - Cardinality(found)
  <2>1. r = [returned |-> returned, buffer |-> buffer, bw |-> bw, rest |-> x.rest]
    BY <1>4, <1>6
  <2>2. bw \in Int
    <3>1. found \in SUBSET (1 .. n)
      BY <1>2 DEF WaitingFor
    <3>2. IsFiniteSet(1 .. n)
      BY <1>2, FirstNumbers
    <3>3. Cardinality(found) \in Nat
      BY <3>1, <3>2, FS_Subset, FS_CardinalityType
    <3>4. QED
      BY <3>3, <1>1
  <2>3. ASSUME NEW e \in Entry
        PROVE  LET d == [e EXCEPT !.completed = TRUE]
               IN  /\ d \in Entry /\ d.id = e.id /\ d.mispredicted = e.mispredicted
                   /\ d.issued = e.issued /\ d.completed
    BY DEF Entry
  <2>4. /\ buffer \in Seq(Entry) /\ Len(buffer) = n
        /\ \A i \in 1 .. n :
              /\ buffer[i].id = old[i].id /\ buffer[i].mispredicted = old[i].mispredicted
              /\ buffer[i].issued = x.buffer[i].issued
              /\ (x.buffer[i].completed => buffer[i].completed)
              /\ (i \in found => buffer[i].completed)
    <3>1. /\ buffer \in [1 .. n -> Entry]
          /\ \A i \in 1 .. n :
                buffer[i] = IF i \in found THEN [x.buffer[i] EXCEPT !.completed = TRUE]
                            ELSE x.buffer[i]
      <4> HIDE DEF found
      <4>1. QED
        BY <1>2, <2>3 DEF Complete
    <3> HIDE DEF buffer, found
    <3>2. ASSUME NEW i \in 1 .. n
          PROVE  /\ buffer[i].id = old[i].id /\ buffer[i].mispredicted = old[i].mispredicted
                 /\ buffer[i].issued = x.buffer[i].issued
                 /\ (x.buffer[i].completed => buffer[i].completed)
                 /\ (i \in found => buffer[i].completed)
      <4>1. /\ x.buffer[i] \in Entry /\ x.buffer[i].id = old[i].id
            /\ x.buffer[i].mispredicted = old[i].mispredicted
        BY <1>2
      <4>2. CASE i \in found
        <5> DEFINE d == [x.buffer[i] EXCEPT !.completed = TRUE]
        <5>1. buffer[i] = d
          BY <3>1, <4>2
        <5>2. /\ d.id = x.buffer[i].id /\ d.mispredicted = x.buffer[i].mispredicted
              /\ d.issued = x.buffer[i].issued /\ d.completed
          BY <4>1, <2>3
        <5> HIDE DEF d
        <5>3. QED
          BY <4>1, <5>1, <5>2, Zenon
      <4>3. CASE i \notin found
        <5>1. buffer[i] = x.buffer[i]
          BY <3>1, <4>3
        <5>2. QED
          BY <4>1, <4>3, <5>1, Zenon
      <4>4. QED
        BY <4>2, <4>3
    <3>3. QED
      BY <3>1, <3>2, <1>2, FunctionIsSequence
  <2> HIDE DEF buffer, bw, r
  <2>5. SameInstrs(buffer, old)
    BY <2>4 DEF SameInstrs
  <2>6. r \in Returning(old, returned)
    <3>1. \A i \in 1 .. Len(old) : buffer[i].issued = old[i].issued
                                   /\ (old[i].completed => buffer[i].completed)
      BY <1>1, <2>4
    <3>2. QED
      BY <3>1, <1>1, <2>1, <2>2, <2>4, <2>5, ReturningRecord
  <2>7. Used(r, old, response, id)
    <3>1. ASSUME NEW i \in 1 .. n, old[i].id = id, Fetched(old[i], response)
          PROVE  buffer[i].completed
      <4>1. x.buffer[i].id = id /\ x.buffer[i].issued = old[i].issued /\ old[i].id = x.buffer[i].id
        BY <3>1, <1>1, <1>2
      <4>2. Fetched(x.buffer[i], response)
        BY <3>1, <4>1 DEF Fetched
      <4>3. i \in found
        BY <4>1, <4>2, <1>2 DEF WaitingFor
      <4>4. QED
        BY <4>3, <2>4
    <3>2. r.buffer = buffer
      BY <2>1
    <3>3. QED
      BY <3>1, <3>2 DEF Used
  <2>8. ASSUME NEW j, Used(x, old, response, j)
        PROVE  Used(r, old, response, j)
    BY <2>8, <2>1, <2>4 DEF Used
  <2>9. QED
    BY <2>6, <2>7, <2>8 DEF r
<1>5. QED
  BY <1>3, <1>4

\* All the ids of a response.
LEMMA ReturnIdsKeeps ==
  ASSUME NEW old \in Seq(Entry), NEW returned, NEW b \in Returning(old, returned),
         NEW response, NEW q \in Seq(Nat)
  PROVE  LET end == ReturnIds(response, b, q)
         IN  /\ end \in Returning(old, returned)
             /\ \A j \in 1 .. Len(q) : Used(end, old, response, q[j])
<1> DEFINE T == Returning(old, returned)
           N == Nat
           n == Len(q)
<1>1. n \in Nat /\ \A k \in 1 .. n : q[k] \in N
  BY LenProperties
<1>2. \A x \in T, id \in N :
         /\ ReturnOne(response, x, id) \in T
         /\ Used(ReturnOne(response, x, id), old, response, id)
         /\ \A j : Used(x, old, response, j) => Used(ReturnOne(response, x, id), old, response, j)
  BY ReturnOneKeeps
<1>3. b \in T /\ q \in Seq(N)
  OBVIOUS
<1> HIDE DEF T, N
<1>4. NamePath(response, T, b, q)
  BY <1>2, <1>3, NameFold
<1>5. PICK g \in [0 .. n -> T] :
         /\ ReturnIds(response, b, q) = g[n]
         /\ g[0] = b
         /\ \A k \in 1 .. n : g[k] = ReturnOne(response, g[k - 1], q[k])
  BY <1>4, Zenon DEF NamePath
<1> HIDE DEF n
<1> DEFINE S == {k \in 0 .. n : \A j \in 1 .. k : Used(g[k], old, response, q[j])}
<1>6. \A k \in 0 .. n : k \in S
  <2>1. 0 \in S
    BY <1>1
  <2>2. ASSUME NEW k \in 1 .. n, k - 1 \in S
        PROVE  k \in S
    <3>1. g[k] = ReturnOne(response, g[k - 1], q[k]) /\ g[k - 1] \in T /\ q[k] \in N /\ k \in 0 .. n
      BY <1>1, <1>5
    <3>2. \A j \in 1 .. k - 1 : Used(g[k - 1], old, response, q[j])
      BY <2>2
    <3>3. \A j \in 1 .. k - 1 : Used(g[k], old, response, q[j])
      BY <3>1, <3>2, <1>2
    <3>4. Used(g[k], old, response, q[k])
      BY <3>1, <1>2
    <3>5. \A j \in 1 .. k : j \in 1 .. k - 1 \/ j = k
      OBVIOUS
    <3>6. QED
      BY <3>1, <3>3, <3>4, <3>5
  <2> HIDE DEF S
  <2>3. QED
    BY <1>1, <2>1, <2>2, UpTo
<1>7. g[n] \in T /\ \A j \in 1 .. n : Used(g[n], old, response, q[j])
  BY <1>1, <1>5, <1>6
<1>8. QED
  BY <1>5, <1>7, Zenon DEF T, n

\* The responses and IFETCH_BUFFER while responses are used up.
Serving(old, rq, below) ==
    {x \in [returned : Seq(Read), buffer : Seq(Entry), bw : Int, rest : Seq(Nat)] :
        /\ SameInstrs(x.buffer, old)
        /\ Covered(x.buffer, rq, below, x.returned)}

\* A response, all of it or some.
LEMMA ReturnResponseKeeps ==
  ASSUME NEW old \in Seq(Entry), NEW rq, NEW below, NEW x \in Serving(old, rq, below), NEW k
  PROVE  ReturnResponse(x, k) \in Serving(old, rq, below)
<1> DEFINE back == x.returned
           response == Head(back)
           b == [x EXCEPT !.rest = << >>]
           end == ReturnIds(response, b, response.ids)
           left == LeftOver(back, end.rest)
           mid == x.buffer
           n == Len(mid)
<1>1. /\ x = [returned |-> back, buffer |-> mid, bw |-> x.bw, rest |-> x.rest]
      /\ back \in Seq(Read) /\ mid \in Seq(Entry) /\ x.bw \in Int /\ x.rest \in Seq(Nat)
      /\ SameInstrs(mid, old) /\ Covered(mid, rq, below, back)
  BY DEF Serving
<1>2. CASE x.bw = 0 \/ back = << >>
  BY <1>2 DEF ReturnResponse
<1>3. CASE ~(x.bw = 0 \/ back = << >>)
  <2>1. ReturnResponse(x, k) = [end EXCEPT !.returned = left]
    BY <1>3 DEF ReturnResponse
  <2>2. /\ Tail(back) \in Seq(Read) /\ Len(Tail(back)) = Len(back) - 1
        /\ Len(back) \in Nat \ {0} /\ response = back[1] /\ response \in Read
        /\ \A i \in 1 .. Len(back) - 1 : Tail(back)[i] = back[i + 1]
    BY <1>1, <1>3, CountTail
  <2>3. b = [returned |-> back, buffer |-> mid, bw |-> x.bw, rest |-> << >>]
    <3> DEFINE y == [returned |-> back, buffer |-> mid, bw |-> x.bw, rest |-> x.rest]
    <3>1. [y EXCEPT !.rest = << >>]
             = [returned |-> back, buffer |-> mid, bw |-> x.bw, rest |-> << >>]
      OBVIOUS
    <3>2. x = y
      BY <1>1
    <3> HIDE DEF y
    <3>3. QED
      BY <3>1, <3>2
  <2> HIDE DEF response, b
  <2>4. b \in Returning(mid, back)
    <3>1. << >> \in Seq(Nat) /\ SameInstrs(mid, mid)
      BY EmptySeq DEF SameInstrs
    <3> HIDE DEF mid, back
    <3>2. [returned |-> back, buffer |-> mid, bw |-> x.bw, rest |-> << >>] \in Returning(mid, back)
      BY <1>1, <3>1, ReturningRecord
    <3>3. QED
      BY <2>3, <3>2
  <2>5. response.ids \in Seq(Nat)
    BY <2>2 DEF Read
  <2>6. /\ end \in Returning(mid, back)
        /\ \A j \in 1 .. Len(response.ids) : Used(end, mid, response, response.ids[j])
    BY <1>1, <2>4, <2>5, ReturnIdsKeeps
  <2> HIDE DEF end
  <2>7. /\ end = [returned |-> back, buffer |-> end.buffer, bw |-> end.bw, rest |-> end.rest]
        /\ end.buffer \in Seq(Entry) /\ end.bw \in Int /\ end.rest \in Seq(Nat)
        /\ SameInstrs(end.buffer, mid)
        /\ \A i \in 1 .. n : end.buffer[i].issued = mid[i].issued
                             /\ (mid[i].completed => end.buffer[i].completed)
    BY <2>6 DEF Returning
  <2> HIDE DEF mid, back, n
  <2>8. ReturnResponse(x, k) = [returned |-> left, buffer |-> end.buffer, bw |-> end.bw,
                                rest |-> end.rest]
    BY <2>1, <2>7
  <2>9. left = IF end.rest = << >> THEN Tail(back)
               ELSE [back EXCEPT ![1] = [back[1] EXCEPT !.ids = end.rest]]
    BY DEF LeftOver
  <2>10. SameInstrs(end.buffer, old)
    BY <1>1, <2>7 DEF SameInstrs
  <2>11. /\ left \in Seq(Read)
         /\ \A e : Named(back, e) =>
               \/ Named(left, e)
               \/ Names(response, e) /\ \A l \in 1 .. Len(end.rest) : end.rest[l] # e.id
    <3>1. CASE end.rest = << >>
      <4>1. left = Tail(back) /\ Len(end.rest) = 0
        BY <3>1, <2>9
      <4>2. ASSUME NEW e, Named(back, e), ~Names(response, e)
            PROVE  Named(left, e)
        <5>1. PICK i \in 1 .. Len(back) : Names(back[i], e)
          BY <4>2 DEF Named
        <5>2. i # 1
          BY <5>1, <4>2, <2>2
        <5>3. i - 1 \in 1 .. Len(back) - 1 /\ i - 1 + 1 = i
          BY <5>2, <2>2
        <5>4. Tail(back)[i - 1] = back[i]
          BY <5>3, <2>2
        <5>5. QED
          BY <5>1, <5>3, <5>4, <4>1, <2>2 DEF Named
      <4>3. QED
        BY <4>1, <4>2, <2>2
    <3>2. CASE end.rest # << >>
      <4> DEFINE more == [back[1] EXCEPT !.ids = end.rest]
      <4>1. left = [back EXCEPT ![1] = more]
        BY <3>2, <2>9
      <4>2. more \in Read /\ more.line = response.line /\ more.ids = end.rest
        BY <2>2, <2>7 DEF Read
      <4>3. 1 \in 1 .. Len(back)
        BY <2>2
      <4> HIDE DEF more
      <4>4. /\ left \in Seq(Read) /\ Len(left) = Len(back)
            /\ \A i \in 1 .. Len(back) : left[i] = IF i = 1 THEN more ELSE back[i]
        BY <1>1, <4>1, <4>2, <4>3, CountReplaced
      <4> HIDE DEF left
      <4>5. ASSUME NEW e, Named(back, e), ~Named(left, e)
            PROVE  Names(response, e) /\ \A l \in 1 .. Len(end.rest) : end.rest[l] # e.id
        <5>1. PICK i \in 1 .. Len(back) : Names(back[i], e)
          BY <4>5 DEF Named
        <5>2. i = 1
          BY <5>1, <4>4, <4>5 DEF Named
        <5>3. Names(response, e)
          BY <5>1, <5>2, <2>2
        <5>4. ~Names(more, e)
          BY <4>3, <4>4, <4>5 DEF Named
        <5>5. QED
          BY <5>3, <5>4, <4>2 DEF Names
      <4>6. QED
        BY <4>4, <4>5
    <3>3. QED
      BY <3>1, <3>2
  <2> HIDE DEF left
  <2>12. Covered(end.buffer, rq, below, left)
    <3> SUFFICES ASSUME NEW i \in 1 .. n, end.buffer[i].issued, ~end.buffer[i].completed
                 PROVE  \/ Named(rq, end.buffer[i]) \/ Named(below, end.buffer[i])
                        \/ Named(left, end.buffer[i])
      BY <2>7 DEF Covered, SameInstrs, n
    <3>1. mid[i].issued /\ ~mid[i].completed /\ end.buffer[i].id = mid[i].id
      BY <2>7 DEF SameInstrs, n
    <3>2. Named(rq, mid[i]) \/ Named(below, mid[i]) \/ Named(back, mid[i])
      BY <3>1, <1>1 DEF Covered, n
    <3>3. CASE Named(back, mid[i])
      <4>1. CASE Named(left, mid[i])
        BY <4>1, <3>1, NamedAlike
      <4>2. CASE Names(response, mid[i]) /\ \A l \in 1 .. Len(end.rest) : end.rest[l] # mid[i].id
        <5>1. PICK j \in 1 .. Len(response.ids) : response.ids[j] = mid[i].id
          BY <4>2 DEF Names
        <5>2. Fetched(mid[i], response)
          BY <4>2, <3>1 DEF Names, Fetched, Line
        <5>3. Used(end, mid, response, mid[i].id)
          BY <5>1, <2>6
        <5>4. end.buffer[i].completed
          BY <5>2, <5>3, <4>2 DEF Used, n
        <5>5. QED
          BY <5>4
      <4>3. QED
        BY <3>3, <4>1, <4>2, <2>11
    <3>4. CASE Named(rq, mid[i]) \/ Named(below, mid[i])
      BY <3>1, <3>4, NamedAlike
    <3>5. QED
      BY <3>2, <3>3, <3>4
  <2>13. [returned |-> left, buffer |-> end.buffer, bw |-> end.bw, rest |-> end.rest]
            \in Serving(old, rq, below)
    BY <2>7, <2>10, <2>11, <2>12 DEF Serving
  <2>14. QED
    BY <2>8, <2>13
<1>4. QED
  BY <1>2, <1>3

\* handle_memory_return keeps all of it.
LEMMA MemoryReturnKeeps ==
  ASSUME FrontInv, MemoryReturn
  PROVE  FrontInv'
<1> DEFINE q == [k \in 1 .. cfg.L1I_BANDWIDTH |-> k]
           b == [returned |-> L1I.returned, buffer |-> IFETCH_BUFFER,
                 bw |-> cfg.FETCH_WIDTH, rest |-> << >>]
           end == FoldLeft(ReturnResponse, b, q)
           T == Serving(IFETCH_BUFFER, L1I.RQ, owed)
<1>1. /\ L1I' = [L1I EXCEPT !.returned = end.returned] /\ IFETCH_BUFFER' = end.buffer
      /\ UNCHANGED <<DIB_HIT_BUFFER, DECODE_BUFFER, DISPATCH_BUFFER, initialized, fetch_resume,
                     budget, DIB, configVars, owed, dispatched, executing>>
  BY DEF MemoryReturn, fetchVars, externalVars
<1> HIDE DEF end
<1>2. /\ TypeInv /\ IFETCH_BUFFER \in Seq(Entry) /\ L1I \in ChannelOf(Read, Read)
      /\ Len(L1I.RQ) <= cfg.RQ_SIZE /\ Covered(IFETCH_BUFFER, L1I.RQ, owed, L1I.returned)
  BY InvParts
<1>3. q \in Seq(Nat)
  BY <1>2, ConfigSizes, RoundNumbers
<1> HIDE DEF q
<1>4. b \in T
  <2>1. L1I.returned \in Seq(Read) /\ cfg.FETCH_WIDTH \in Int /\ << >> \in Seq(Nat)
    <3>1. L1I.returned \in Seq(Read)
      BY <1>2 DEF ChannelOf
    <3>2. cfg.FETCH_WIDTH \in Nat
      BY <1>2, ConfigSizes
    <3>3. QED
      BY <3>1, <3>2, EmptySeq
  <2>2. SameInstrs(IFETCH_BUFFER, IFETCH_BUFFER)
    BY DEF SameInstrs
  <2>3. QED
    BY <2>1, <2>2, <1>2 DEF Serving
<1> HIDE DEF b
<1>5. \A x \in T, k \in Nat : ReturnResponse(x, k) \in T
  BY <1>2, ReturnResponseKeeps
<1>6. end \in T
  <2> DEFINE E == Nat
  <2>1. q \in Seq(E) /\ \A x \in T, i \in E : ReturnResponse(x, i) \in T
    BY <1>3, <1>5
  <2> HIDE DEF E, T
  <2>2. ReturnPath(T, b, q)
    BY <2>1, <1>4, ReturnFold
  <2>3. PICK g \in [0 .. Len(q) -> T] : end = g[Len(q)]
    BY <2>2 DEF ReturnPath, end
  <2>4. Len(q) \in 0 .. Len(q)
    BY <2>1, LenProperties
  <2>5. QED
    BY <2>3, <2>4
<1>7. /\ end.returned \in Seq(Read) /\ end.buffer \in Seq(Entry)
      /\ SameInstrs(end.buffer, IFETCH_BUFFER)
      /\ Covered(end.buffer, L1I.RQ, owed, end.returned)
  BY <1>6 DEF Serving
<1>8. L1I' \in ChannelOf(Read, Read) /\ L1I'.RQ = L1I.RQ /\ L1I'.returned = end.returned
  BY <1>1, <1>2, <1>7 DEF ChannelOf
<1>9. budget' \in Nat /\ Len(IFETCH_BUFFER) + budget' <= cfg.IFETCH_BUFFER_SIZE /\ DIB' \in Table
  BY <1>1, InvParts
<1>10. QED
  BY <1>1, <1>2, <1>7, <1>8, <1>9, FetchSideKeeps

-----------------------------------------------------------------------------
(* The invariant. *)

\* At the start everything is empty.
LEMMA InitHolds ==
  ASSUME FrontendInit
  PROVE  FrontInv
<1>1. /\ cfg \in Configs /\ program \in Programs
      /\ initialized = 0 /\ fetch_resume = 0 /\ budget = 0
      /\ IFETCH_BUFFER = << >> /\ DIB_HIT_BUFFER = << >>
      /\ DECODE_BUFFER = << >> /\ DISPATCH_BUFFER = << >>
      /\ DIB = << >> /\ L1I = EmptyChannel /\ owed = << >>
      /\ dispatched = 0 /\ executing = {}
  BY DEF FrontendInit
<1>2. Len(<< >>) = 0 /\ 1 .. 0 = {}
  OBVIOUS
<1>3. \A S : << >> \in Seq(S)
  BY EmptySeq
<1>4. EmptyChannel \in ChannelOf(Read, Read) /\ EmptyChannel.RQ = << >>
  BY <1>3 DEF EmptyChannel, ChannelOf
<1>5. Len(program) \in Nat
  BY <1>1, FrontendAssumption, LenProperties
<1>6. /\ cfg.IFETCH_BUFFER_SIZE \in Nat /\ cfg.DIB_HIT_BUFFER_SIZE \in Nat
      /\ cfg.DECODE_BUFFER_SIZE \in Nat /\ cfg.DISPATCH_BUFFER_SIZE \in Nat
      /\ cfg.DIB_WAY \in Nat /\ cfg.RQ_SIZE \in Nat
  BY <1>1, FrontendAssumption, Zenon
<1>7. DIB \in Table
  BY <1>1, <1>2, <1>3, <1>6 DEF Table, OncePerTag
<1>8. TypeInv
  <2>1. initialized \in 0 .. Len(program) /\ dispatched \in Nat /\ budget \in Nat
        /\ fetch_resume \in 0 .. Never
    BY <1>1, <1>5 DEF Never
  <2>2. executing \in SUBSET Entry /\ IsFiniteSet(executing)
    BY <1>1, FS_EmptySet
  <2>3. QED
    BY <1>1, <1>3, <1>4, <1>7, <2>1, <2>2 DEF TypeInv
<1>9. SizeInv
  BY <1>1, <1>2, <1>4, <1>6 DEF SizeInv
<1>10. OrderInv
  <2>1. \A base : Consecutive(<< >>, base)
    BY <1>2 DEF Consecutive
  <2>2. Merged(<< >>, << >>, 0)
    <3>1. 0 + 1 .. 0 + 0 + 0 = {}
      OBVIOUS
    <3>2. QED
      BY <1>2, <3>1 DEF Merged, Ascending
  <2>3. dispatched + Len(DISPATCH_BUFFER) = 0
    BY <1>1, <1>2
  <2>4. QED
    BY <1>1, <1>2, <2>1, <2>2, <2>3 DEF OrderInv
<1>11. Covered(IFETCH_BUFFER, L1I.RQ, owed, L1I.returned)
  BY <1>1, <1>2 DEF Covered
<1>12. StopInv
  <2>1. Count(<< >>, Missed) = 0 /\ executing \cap Missed = {}
    BY <1>1, CountEmpty
  <2>2. Cardinality({}) = 0
    BY FS_EmptySet
  <2>3. One(fetch_resume = Never) = 0
    BY <1>1 DEF One, Never
  <2>4. QED
    BY <1>1, <2>1, <2>2, <2>3 DEF StopInv
<1>13. QED
  BY <1>8, <1>9, <1>10, <1>11, <1>12 DEF FrontInv

\* Every step of the front end, the back end and the L1I keeps it.
LEMMA NextKeeps ==
  ASSUME FrontInv, [FrontendNext]_frontendVars
  PROVE  FrontInv'
<1>1. CASE StartCycle
  BY <1>1, StandStill DEF StartCycle
<1>2. CASE MemoryReturn
  BY <1>2, MemoryReturnKeeps
<1>3. CASE Decode
  BY <1>3, DecodeKeeps
<1>4. CASE Promote
  BY <1>4, PromoteKeeps
<1>5. CASE Fetch
  BY <1>5, FetchKeeps
<1>6. CASE CheckDIB
  BY <1>6, CheckDIBKeeps
<1>7. CASE \E direction \in BOOLEAN, btb \in {"zero", "target", "wrong"} :
              InitializeInstruction(direction, btb)
  BY <1>7, InitializeKeeps
<1>8. CASE EndCycle
  BY <1>8, EndCycleKeeps
<1>9. CASE Dispatch
  BY <1>9, DispatchKeeps
<1>10. CASE \E instr \in executing : CompleteExecution(instr)
  BY <1>10, CompleteKeeps
<1>11. CASE L1ITake
  BY <1>11, L1ITakeKeeps
<1>12. CASE L1IAnswer
  BY <1>12, L1IAnswerKeeps
<1>13. CASE UNCHANGED frontendVars
  BY <1>13, StandStill DEF frontendVars
<1>14. QED
  BY <1>1, <1>2, <1>3, <1>4, <1>5, <1>6, <1>7, <1>8, <1>9, <1>10, <1>11, <1>12, <1>13
  DEF FrontendNext, FrontendOperate

\* The front end keeps its invariant, for every trace and every configuration.
THEOREM FrontEndKeepsInvariant == FrontendSpec => []FrontInv
<1>1. FrontendInit => FrontInv
  BY InitHolds
<1>2. FrontInv /\ [FrontendNext]_frontendVars => FrontInv'
  BY NextKeeps
<1>3. QED
  BY <1>1, <1>2, PTL DEF FrontendSpec

\* Instructions that are joined from two sequences.
LEMMA JoinedIds ==
  ASSUME NEW s \in Seq(Entry), NEW t \in Seq(Entry), NEW base \in Nat, Merged(s, t, base),
         TypeInv
  PROVE  /\ Len(s \o t) = Len(s) + Len(t)
         /\ {(s \o t)[i].id : i \in DOMAIN (s \o t)} = base + 1 .. base + Len(s \o t)
<1> DEFINE j == s \o t
           m == Len(s)
           n == Len(t)
           top == base + Len(s) + Len(t)
<1>1. /\ j \in Seq(Entry) /\ Len(j) = m + n /\ m \in Nat /\ n \in Nat
      /\ \A i \in 1 .. m + n : j[i] = IF i <= m THEN s[i] ELSE t[i - m]
  BY ConcatProperties, LenProperties
<1>2. DOMAIN j = 1 .. m + n /\ top = base + Len(j)
  BY <1>1, LenProperties
<1>3. /\ \A i \in 1 .. m : s[i].id \in base + 1 .. top
      /\ \A i \in 1 .. n : t[i].id \in base + 1 .. top
      /\ \A id \in base + 1 .. top :
            \/ \E i \in 1 .. m : s[i].id = id
            \/ \E i \in 1 .. n : t[i].id = id
  BY DEF Merged
<1> HIDE DEF j, m, n, top
<1>4. ASSUME NEW i \in 1 .. m + n
      PROVE  j[i].id \in base + 1 .. top
  <2>1. CASE i <= m
    <3>1. i \in 1 .. m /\ j[i] = s[i]
      BY <1>1, <2>1
    <3>2. QED
      BY <3>1, <1>3
  <2>2. CASE ~(i <= m)
    <3>1. i - m \in 1 .. n /\ j[i] = t[i - m]
      BY <1>1, <2>2
    <3>2. QED
      BY <3>1, <1>3
  <2>3. QED
    BY <2>1, <2>2
<1>5. ASSUME NEW id \in base + 1 .. top
      PROVE  \E i \in 1 .. m + n : j[i].id = id
  <2>1. CASE \E i \in 1 .. m : s[i].id = id
    <3>1. PICK i \in 1 .. m : s[i].id = id
      BY <2>1
    <3>2. i \in 1 .. m + n /\ i <= m
      BY <1>1
    <3>3. QED
      BY <1>1, <3>1, <3>2
  <2>2. CASE \E i \in 1 .. n : t[i].id = id
    <3>1. PICK i \in 1 .. n : t[i].id = id
      BY <2>2
    <3>2. i + m \in 1 .. m + n /\ ~(i + m <= m) /\ i + m - m = i
      BY <1>1
    <3>3. j[i + m] = t[i]
      BY <1>1, <3>2
    <3>4. QED
      BY <3>1, <3>2, <3>3
  <2>3. QED
    BY <1>3, <2>1, <2>2
<1>6. {j[i].id : i \in DOMAIN j} = base + 1 .. top
  BY <1>2, <1>4, <1>5
<1>7. QED
  BY <1>1, <1>2, <1>6 DEF j, m, n

\* The ids of consecutive instructions.
LEMMA ConsecutiveIds ==
  ASSUME NEW s \in Seq(Entry), NEW base, Consecutive(s, base)
  PROVE  Ids(s) = [i \in 1 .. Len(s) |-> base + i]
<1>1. DOMAIN s = 1 .. Len(s)
  BY LenProperties
<1>2. \A i \in 1 .. Len(s) : s[i].id = base + i
  BY DEF Consecutive
<1>3. QED
  BY <1>1, <1>2 DEF Ids

\* The overtaking by way of the DIB is undone by the merge, for every trace and for
\* buffers of any size: ProgramOrderRestored (decode_instruction, promote_to_decode).
THEOREM TheMergeRestoresOrder == FrontendSpec => []ProgramOrderRestored
<1>1. FrontInv => ProgramOrderRestored
  <2> SUFFICES ASSUME FrontInv
               PROVE  ProgramOrderRestored
    OBVIOUS
  <2> DEFINE merged == DIB_HIT_BUFFER \o DECODE_BUFFER
             k == dispatched + Len(DISPATCH_BUFFER)
             m == k + Len(merged)
  <2>1. BuffersBounded
    <3>1. Len(DIB) <= cfg.DIB_WAY /\ Cardinality(Tags(DIB)) = Len(DIB)
      BY InvParts, TagsCounted DEF Table
    <3>2. /\ Len(IFETCH_BUFFER) + budget <= cfg.IFETCH_BUFFER_SIZE
          /\ Len(IFETCH_BUFFER) <= cfg.IFETCH_BUFFER_SIZE
      <4>1. /\ Len(IFETCH_BUFFER) + budget <= cfg.IFETCH_BUFFER_SIZE /\ budget \in Nat
            /\ Len(IFETCH_BUFFER) \in Nat /\ cfg.IFETCH_BUFFER_SIZE \in Nat
        BY InvParts, InvCounts, ConfigSizes
      <4>2. QED
        BY <4>1
    <3>3. QED
      BY <3>1, <3>2, InvParts DEF BuffersBounded
  <2>2. /\ dispatched \in Nat /\ Len(DISPATCH_BUFFER) \in Nat /\ Len(DIB_HIT_BUFFER) \in Nat
        /\ Len(DECODE_BUFFER) \in Nat /\ Len(IFETCH_BUFFER) \in Nat
        /\ dispatched + Len(DISPATCH_BUFFER) + Len(DIB_HIT_BUFFER) + Len(DECODE_BUFFER)
               + Len(IFETCH_BUFFER) = initialized
    BY InvParts, InvCounts
  <2>3. k \in Nat
    BY <2>2
  <2>4. /\ Len(merged) = Len(DIB_HIT_BUFFER) + Len(DECODE_BUFFER)
        /\ {merged[i].id : i \in DOMAIN merged} = k + 1 .. m
    <3> HIDE DEF k
    <3>1. Merged(DIB_HIT_BUFFER, DECODE_BUFFER, k) /\ TypeInv
          /\ DIB_HIT_BUFFER \in Seq(Entry) /\ DECODE_BUFFER \in Seq(Entry)
      BY InvParts DEF k
    <3>2. QED
      BY <2>3, <3>1, JoinedIds
  <2>5. Ids(DISPATCH_BUFFER) = [i \in 1 .. Len(DISPATCH_BUFFER) |-> dispatched + i]
    BY InvParts, ConsecutiveIds
  <2> HIDE DEF merged
  <2>6. m = initialized - Len(IFETCH_BUFFER) /\ m + Len(IFETCH_BUFFER) = initialized
    BY <2>2, <2>4
  <2>7. Ids(IFETCH_BUFFER) = [i \in 1 .. Len(IFETCH_BUFFER) |-> m + i]
    <3>1. IFETCH_BUFFER \in Seq(Entry) /\ Consecutive(IFETCH_BUFFER, m)
      BY <2>6, InvParts
    <3> HIDE DEF m
    <3>2. QED
      BY <3>1, ConsecutiveIds
  <2>8. QED
    BY <2>1, <2>4, <2>5, <2>6, <2>7 DEF ProgramOrderRestored, merged
<1>2. QED
  BY <1>1, FrontEndKeepsInvariant, PTL

\* A name among two joined sequences of reads.
LEMMA NamedJoined ==
  ASSUME NEW s \in Seq(Read), NEW t \in Seq(Read), NEW e, Named(s, e) \/ Named(t, e)
  PROVE  Named(s \o t, e)
<1> DEFINE j == s \o t
           m == Len(s)
           n == Len(t)
<1>1. /\ Len(j) = m + n /\ m \in Nat /\ n \in Nat
      /\ \A i \in 1 .. m + n : j[i] = IF i <= m THEN s[i] ELSE t[i - m]
  BY ConcatProperties, LenProperties
<1>2. (\E i \in 1 .. m : Names(s[i], e)) \/ (\E i \in 1 .. n : Names(t[i], e))
  BY DEF Named
<1> HIDE DEF j, m, n
<1>3. CASE \E i \in 1 .. m : Names(s[i], e)
  <2>1. PICK i \in 1 .. m : Names(s[i], e)
    BY <1>3
  <2>2. i \in 1 .. Len(j) /\ j[i] = s[i]
    BY <1>1
  <2>3. QED
    BY <2>1, <2>2 DEF Named, j
<1>4. CASE \E i \in 1 .. n : Names(t[i], e)
  <2>1. PICK i \in 1 .. n : Names(t[i], e)
    BY <1>4
  <2>2. i + m \in 1 .. m + n /\ ~(i + m <= m) /\ i + m - m = i
    BY <1>1
  <2>3. i + m \in 1 .. Len(j) /\ j[i + m] = t[i]
    BY <1>1, <2>2
  <2>4. QED
    BY <2>1, <2>3 DEF Named, j
<1>5. QED
  BY <1>2, <1>3, <1>4

\* No instruction waits for a line nobody fetches, however responses are split and
\* merged: FetchIsOutstanding (do_fetch_instruction, handle_memory_return).
THEOREM NoFetchIsForgotten == FrontendSpec => []FetchIsOutstanding
<1>1. FrontInv => FetchIsOutstanding
  <2> SUFFICES ASSUME FrontInv
               PROVE  FetchIsOutstanding
    OBVIOUS
  <2> DEFINE two == L1I.RQ \o owed
             reads == two \o L1I.returned
  <2>1. /\ L1I.RQ \in Seq(Read) /\ owed \in Seq(Read) /\ L1I.returned \in Seq(Read)
        /\ IFETCH_BUFFER \in Seq(Entry) /\ Covered(IFETCH_BUFFER, L1I.RQ, owed, L1I.returned)
    BY InvParts DEF ChannelOf
  <2>2. two \in Seq(Read)
    BY <2>1, ConcatProperties
  <2>3. reads \in Seq(Read)
    BY <2>1, <2>2, ConcatProperties
  <2>4. DOMAIN IFETCH_BUFFER = 1 .. Len(IFETCH_BUFFER) /\ DOMAIN reads = 1 .. Len(reads)
    BY <2>1, <2>3, LenProperties
  <2>5. ASSUME NEW i \in DOMAIN IFETCH_BUFFER,
               IFETCH_BUFFER[i].issued, ~IFETCH_BUFFER[i].completed
        PROVE  Named(reads, IFETCH_BUFFER[i])
    <3> DEFINE e == IFETCH_BUFFER[i]
    <3>1. Named(L1I.RQ, e) \/ Named(owed, e) \/ Named(L1I.returned, e)
      BY <2>1, <2>4, <2>5 DEF Covered
    <3> HIDE DEF e
    <3>2. Named(L1I.RQ, e) \/ Named(owed, e) => Named(two, e)
      BY <2>1, NamedJoined
    <3> HIDE DEF two
    <3>3. Named(two, e) \/ Named(L1I.returned, e) => Named(reads, e)
      BY <2>1, <2>2, NamedJoined
    <3>4. QED
      BY <3>1, <3>2, <3>3 DEF e
  <2>6. ASSUME NEW i \in DOMAIN IFETCH_BUFFER, Named(reads, IFETCH_BUFFER[i])
        PROVE  \E k \in DOMAIN reads : /\ reads[k].line = Line(IFETCH_BUFFER[i])
                                       /\ Contains(reads[k].ids, IFETCH_BUFFER[i].id)
    <3> HIDE DEF reads
    <3>1. PICK k \in 1 .. Len(reads) : Names(reads[k], IFETCH_BUFFER[i])
      BY <2>6 DEF Named
    <3>2. Contains(reads[k].ids, IFETCH_BUFFER[i].id)
      BY <3>1 DEF Names, Contains
    <3>3. reads[k].line = Line(IFETCH_BUFFER[i])
      BY <3>1 DEF Names
    <3>4. QED
      BY <3>2, <3>3, <2>4
  <2> HIDE DEF reads
  <2>7. \A i \in DOMAIN IFETCH_BUFFER :
           (IFETCH_BUFFER[i].issued /\ ~IFETCH_BUFFER[i].completed) =>
              \E k \in DOMAIN reads : /\ reads[k].line = Line(IFETCH_BUFFER[i])
                                      /\ Contains(reads[k].ids, IFETCH_BUFFER[i].id)
    BY <2>5, <2>6
  <2>8. QED
    BY <2>7, Zenon DEF FetchIsOutstanding, reads
<1>2. QED
  BY <1>1, FrontEndKeepsInvariant, PTL

\* Fetch stops for one mispredicted branch at a time and is restarted once for it:
\* StoppedFetchHasCause (do_init_instruction, decode_instruction, do_complete_execution).
THEOREM FetchStopsOnce == FrontendSpec => []StoppedFetchHasCause
<1>1. FrontInv => StoppedFetchHasCause
  <2> SUFFICES ASSUME FrontInv
               PROVE  StoppedFetchHasCause
    OBVIOUS
  <2> DEFINE a == DISPATCH_BUFFER \o DIB_HIT_BUFFER
             b == a \o DECODE_BUFFER
             waiting == b \o IFETCH_BUFFER
  <2>1. /\ DISPATCH_BUFFER \in Seq(Entry) /\ DIB_HIT_BUFFER \in Seq(Entry)
        /\ DECODE_BUFFER \in Seq(Entry) /\ IFETCH_BUFFER \in Seq(Entry)
        /\ executing \in SUBSET Entry
    BY InvParts
  <2>2. /\ a \in Seq(Entry)
        /\ Count(a, Missed) = Count(DISPATCH_BUFFER, Missed) + Count(DIB_HIT_BUFFER, Missed)
    BY <2>1, ConcatProperties, CountJoined
  <2> HIDE DEF a
  <2>3. b \in Seq(Entry) /\ Count(b, Missed) = Count(a, Missed) + Count(DECODE_BUFFER, Missed)
    BY <2>1, <2>2, ConcatProperties, CountJoined
  <2> HIDE DEF b
  <2>4. /\ waiting \in Seq(Entry)
        /\ Count(waiting, Missed) = Count(b, Missed) + Count(IFETCH_BUFFER, Missed)
    BY <2>1, <2>3, ConcatProperties, CountJoined
  <2> HIDE DEF waiting
  <2>5. {i \in DOMAIN waiting : waiting[i].mispredicted} = Places(waiting, Missed)
    <3>1. \A i \in DOMAIN waiting : waiting[i] \in Entry
      BY <2>4, LenProperties
    <3>2. QED
      BY <3>1 DEF Places, Missed
  <2>6. {instr \in executing : instr.mispredicted} = executing \cap Missed
    BY <2>1 DEF Missed
  <2>7. Count(waiting, Missed) + Cardinality(executing \cap Missed) = One(fetch_resume = Never)
    BY <2>2, <2>3, <2>4, InvParts
  <2>8. /\ Cardinality({i \in DOMAIN waiting : waiting[i].mispredicted}) = Count(waiting, Missed)
        /\ Cardinality({instr \in executing : instr.mispredicted})
              = Cardinality(executing \cap Missed)
    BY <2>5, <2>6 DEF Count
  <2>9. Cardinality({i \in DOMAIN waiting : waiting[i].mispredicted})
          + Cardinality({instr \in executing : instr.mispredicted})
        = IF fetch_resume = Never THEN 1 ELSE 0
    BY <2>7, <2>8 DEF One
  <2>10. QED
    BY <2>9, Zenon DEF StoppedFetchHasCause, waiting, b, a
<1>2. QED
  BY <1>1, FrontEndKeepsInvariant, PTL
=============================================================================

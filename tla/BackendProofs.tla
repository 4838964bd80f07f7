---------------------------- MODULE BackendProofs -----------------------------
(***************************************************************************)
(* Proofs about the register allocator and about Backend.                  *)
(***************************************************************************)
EXTENDS Backend, RenameWindow, SequenceCounts

-----------------------------------------------------------------------------
(* Queues of registers without repetitions. *)

\* Popping the free list removes its head and nothing else.
LEMMA TailMembers ==
  ASSUME NEW S, NEW s \in Seq(S), s # << >>, Distinct(s)
  PROVE  /\ Tail(s) \in Seq(S) /\ Distinct(Tail(s))
         /\ Head(s) \in Members(s) /\ Head(s) \in S
         /\ Members(Tail(s)) = Members(s) \ {Head(s)}
<1>1. /\ Head(s) \in S /\ Tail(s) \in Seq(S) /\ Len(s) \in Nat /\ Len(s) >= 1
      /\ Len(Tail(s)) = Len(s) - 1
      /\ \A i \in 1 .. Len(Tail(s)) : Tail(s)[i] = s[i + 1]
  BY HeadTailProperties, LenProperties, EmptySeq, SMT
<1>2. Head(s) = s[1]
  OBVIOUS
<1>3. DOMAIN s = 1 .. Len(s) /\ DOMAIN Tail(s) = 1 .. Len(Tail(s))
  BY <1>1, LenProperties
<1>4. Distinct(Tail(s))
  BY <1>1, <1>3, SMT DEF Distinct
<1>5. Head(s) \in Members(s)
  BY <1>1, <1>2, <1>3, SMT DEF Members
<1>6. ASSUME NEW x \in Members(Tail(s))
      PROVE  x \in Members(s) /\ x # Head(s)
  <2>1. PICK i \in 1 .. Len(Tail(s)) : x = Tail(s)[i]
    BY <1>3 DEF Members
  <2>2. /\ i + 1 \in DOMAIN s /\ 1 \in DOMAIN s /\ x = s[i + 1] /\ i + 1 # 1
    BY <1>1, <1>3, <2>1, SMT
  <2>3. QED
    BY <1>2, <2>2 DEF Members, Distinct
<1>7. ASSUME NEW x \in Members(s), x # Head(s)
      PROVE  x \in Members(Tail(s))
  <2>1. PICK i \in DOMAIN s : x = s[i]
    BY DEF Members
  <2>2. i - 1 \in 1 .. Len(Tail(s)) /\ Tail(s)[i - 1] = s[i]
    BY <1>1, <1>2, <1>3, <1>7, <2>1, SMT
  <2>3. QED
    BY <1>3, <2>1, <2>2 DEF Members
<1>8. QED
  BY <1>1, <1>4, <1>5, <1>6, <1>7

\* A register put at the end of the free list is one more member.
LEMMA AppendMembers ==
  ASSUME NEW S, NEW s \in Seq(S), NEW x \in S, Distinct(s), x \notin Members(s)
  PROVE  /\ Append(s, x) \in Seq(S) /\ Distinct(Append(s, x))
         /\ Members(Append(s, x)) = Members(s) \cup {x}
<1>1. /\ Append(s, x) \in Seq(S) /\ Len(s) \in Nat
      /\ Len(Append(s, x)) = Len(s) + 1
      /\ \A i \in 1 .. Len(s) : Append(s, x)[i] = s[i]
      /\ Append(s, x)[Len(s) + 1] = x
  BY AppendProperties, LenProperties
<1>2. DOMAIN s = 1 .. Len(s) /\ DOMAIN Append(s, x) = 1 .. Len(s) + 1
  BY <1>1, LenProperties
<1>3. Distinct(Append(s, x))
  BY <1>1, <1>2, SMT DEF Distinct, Members
<1>4. ASSUME NEW y \in Members(Append(s, x))
      PROVE  y \in Members(s) \cup {x}
  BY <1>1, <1>2, <1>4, SMT DEF Members
<1>5. ASSUME NEW y \in Members(s) \cup {x}
      PROVE  y \in Members(Append(s, x))
  <2>1. CASE y = x
    BY <1>1, <1>2, <2>1, SMT DEF Members
  <2>2. CASE y \in Members(s)
    BY <1>1, <1>2, <2>2, SMT DEF Members
  <2>3. QED
    BY <1>5, <2>1, <2>2
<1>6. QED
  BY <1>1, <1>3, <1>4, <1>5

-----------------------------------------------------------------------------
(* The results in flight, one more or one less. *)

\* The results in flight, with one more: renaming a destination.
LEMMA JoinedResult ==
  ASSUME NEW S, NEW w, w \in [DOMAIN w -> S], NEW v, v \notin DOMAIN w, NEW p \in S
  PROVE  /\ With(w, v, p) \in [DOMAIN w \cup {v} -> S]
         /\ DOMAIN With(w, v, p) = DOMAIN w \cup {v}
         /\ With(w, v, p)[v] = p
         /\ \A u \in DOMAIN w : With(w, v, p)[u] = w[u] /\ u # v /\ w[u] \in S
         /\ Members(With(w, v, p)) = Members(w) \cup {p}
         /\ Distinct(w) /\ p \notin Members(w) => Distinct(With(w, v, p))
<1> DEFINE x == With(w, v, p)
<1>1. /\ x \in [DOMAIN w \cup {v} -> S]
      /\ DOMAIN x = DOMAIN w \cup {v}
      /\ x[v] = p
      /\ \A u \in DOMAIN w : x[u] = w[u] /\ u # v /\ w[u] \in S
  BY DEF With
<1> HIDE DEF x
<1>2. Members(x) = Members(w) \cup {p}
  <2>1. ASSUME NEW y \in Members(x)
        PROVE  y \in Members(w) \cup {p}
    BY <1>1, <2>1 DEF Members
  <2>2. ASSUME NEW y \in Members(w) \cup {p}
        PROVE  y \in Members(x)
    BY <1>1, <2>2 DEF Members
  <2>3. QED
    BY <2>1, <2>2
<1>3. Distinct(w) /\ p \notin Members(w) => Distinct(x)
  BY <1>1 DEF Distinct, Members
<1>4. QED
  BY <1>1, <1>2, <1>3 DEF x

\* The results in flight, less one: retiring a destination.
LEMMA DroppedResult ==
  ASSUME NEW S, NEW w, w \in [DOMAIN w -> S], NEW v \in DOMAIN w, Distinct(w)
  PROVE  /\ Dropped(w, v) \in [DOMAIN w \ {v} -> S]
         /\ DOMAIN Dropped(w, v) = DOMAIN w \ {v}
         /\ \A u \in DOMAIN w : u # v => Dropped(w, v)[u] = w[u] /\ w[u] # w[v]
         /\ Members(Dropped(w, v)) = Members(w) \ {w[v]}
         /\ w[v] \in Members(w) /\ w[v] \in S
         /\ Distinct(Dropped(w, v))
<1> DEFINE x == Dropped(w, v)
<1>1. /\ x \in [DOMAIN w \ {v} -> S]
      /\ DOMAIN x = DOMAIN w \ {v}
      /\ \A u \in DOMAIN w : u # v => x[u] = w[u] /\ w[u] # w[v]
  BY DEF Dropped, Distinct
<1> HIDE DEF x
<1>2. Members(x) = Members(w) \ {w[v]}
  <2>1. ASSUME NEW y \in Members(x)
        PROVE  y \in Members(w) \ {w[v]}
    BY <1>1, <2>1 DEF Members
  <2>2. ASSUME NEW y \in Members(w) \ {w[v]}
        PROVE  y \in Members(x)
    BY <1>1, <2>2 DEF Members
  <2>3. QED
    BY <2>1, <2>2
<1>3. Distinct(x)
  BY <1>1 DEF Distinct
<1>4. QED
  BY <1>1, <1>2, <1>3 DEF x, Members

\* The order of results is total.
LEMMA ResultOrder ==
  /\ \A v \in Nat \X Nat : ~Before(v, v)
  /\ \A v, w \in Nat \X Nat : Before(v, w) => ~Before(w, v)
  /\ \A v, w \in Nat \X Nat : Before(v, w) \/ Before(w, v) \/ v = w
<1>1. \A v \in Nat \X Nat : v = <<v[1], v[2]>> /\ v[1] \in Nat /\ v[2] \in Nat
  OBVIOUS
<1>2. \A v \in Nat \X Nat : ~Before(v, v)
  BY <1>1 DEF Before
<1>3. \A v, w \in Nat \X Nat : Before(v, w) => ~Before(w, v)
  BY <1>1 DEF Before
<1>4. ASSUME NEW v \in Nat \X Nat, NEW w \in Nat \X Nat, ~Before(v, w), ~Before(w, v)
      PROVE  v = w
  <2>1. v[1] = w[1] /\ v[2] = w[2]
    BY <1>1, <1>4 DEF Before
  <2>2. QED
    BY <1>1, <2>1
<1>5. QED
  BY <1>2, <1>3, <1>4
-----------------------------------------------------------------------------
(* The registers are accounted for: the invariant of the allocator, with the *)
(* results in flight.  A result remembers a register of the program, so that *)
(* its retirement knows what it replaces.                                    *)

Accounted(a, w, Producers) ==
    /\ a \in Allocator(Producers)
    /\ w \in [DOMAIN w -> PhysRegs] /\ DOMAIN w \subseteq Nat \X Nat
    /\ Partitioned(a, w) /\ FrontendIsLatest(a, w)
    /\ \A v \in DOMAIN w : a.file[w[v]].arch \in ArchRegs

\* Register p holds what instruction id reads as register reg: the youngest of
\* the older results in flight, or the committed value if there is none.
Resolves(a, w, id, reg, p) ==
    \/ /\ p = a.backend[reg]
       /\ \A v \in DOMAIN w : v[1] < id => a.file[w[v]].arch # reg
    \/ \E v \in DOMAIN w :
          /\ v[1] < id /\ p = w[v] /\ a.file[w[v]].arch = reg
          /\ \A u \in DOMAIN w : (u[1] < id /\ a.file[w[u]].arch = reg) => ~Before(v, u)

\* What the instructions of N read stays where it is, and valid.
Carries(a, w, b, x, N) ==
    \A id \in N, reg \in ArchRegs, p \in PhysRegs : Resolves(a, w, id, reg, p) =>
       Resolves(b, x, id, reg, p) /\ (a.file[p].valid => b.file[p].valid)

LEMMA CarriesOn ==
  ASSUME NEW a, NEW w, NEW b, NEW x, NEW c, NEW y, NEW N,
         Carries(a, w, b, x, N), Carries(b, x, c, y, N)
  PROVE  Carries(a, w, c, y, N)
BY DEF Carries

\* The members of the allocator's record.
LEMMA AllocatorMembers ==
  ASSUME NEW P, NEW a \in Allocator(P)
  PROVE  /\ a.frontend \in [ArchRegs -> PhysRegs \cup {Unmapped}]
         /\ a.backend \in [ArchRegs -> PhysRegs \cup {Unmapped}]
         /\ a.free \in Seq(PhysRegs)
         /\ a.file \in [PhysRegs -> [arch : ArchRegs \cup {0, 255}, producer : P \cup {0},
                                     valid : BOOLEAN, busy : BOOLEAN]]
         /\ Unmapped \notin PhysRegs
<1>1. \A q \in PhysRegs : q # Unmapped
  BY RegisterAssumption, SMT DEF PhysRegs, Unmapped, RatSize
<1>2. QED
  BY <1>1 DEF Allocator

\* A register taken from the front of the free queue is nowhere else.
LEMMA TakeFree ==
  ASSUME NEW P, NEW a, NEW w, Accounted(a, w, P), a.free # << >>
  PROVE  /\ Head(a.free) \in PhysRegs /\ Tail(a.free) \in Seq(PhysRegs)
         /\ Len(Tail(a.free)) = Len(a.free) - 1
         /\ Head(a.free) \notin Members(w) /\ Head(a.free) \notin Committed(a)
         /\ Distinct(Tail(a.free))
         /\ Members(Tail(a.free)) = Members(a.free) \ {Head(a.free)}
         /\ Head(a.free) \in Members(a.free)
         /\ \A v \in DOMAIN w : w[v] # Head(a.free)
         /\ \A r \in ArchRegs : a.backend[r] # Head(a.free)
<1>1. /\ a.free \in Seq(PhysRegs) /\ Unmapped \notin PhysRegs
  BY AllocatorMembers DEF Accounted
<1>2. /\ Tail(a.free) \in Seq(PhysRegs) /\ Distinct(Tail(a.free))
      /\ Head(a.free) \in Members(a.free) /\ Head(a.free) \in PhysRegs
      /\ Members(Tail(a.free)) = Members(a.free) \ {Head(a.free)}
  BY <1>1, TailMembers DEF Accounted, Partitioned
<1>3. Len(Tail(a.free)) = Len(a.free) - 1
  BY <1>1, HeadTailProperties
<1>4. Head(a.free) \notin Members(w) /\ Head(a.free) \notin Committed(a)
  BY <1>2 DEF Accounted, Partitioned
<1>5. \A v \in DOMAIN w : w[v] # Head(a.free)
  BY <1>4 DEF Members
<1>6. \A r \in ArchRegs : a.backend[r] # Head(a.free)
  BY <1>1, <1>2, <1>4 DEF Committed
<1>7. QED
  BY <1>2, <1>3, <1>4, <1>5, <1>6

\* A result that comes after all those in flight.
LEMMA RenameDestKeeps ==
  ASSUME NEW P, NEW a, NEW w, Accounted(a, w, P), a.free # << >>,
         NEW reg \in ArchRegs, NEW id \in P, NEW v \in Nat \X Nat,
         \A u \in DOMAIN w : Before(u, v)
  PROVE  LET b == rename_dest_register(a, reg, id)
             x == With(w, v, Head(a.free))
         IN  /\ Accounted(b, x, P)
             /\ \A N : (\A n \in N : ~(v[1] < n)) => Carries(a, w, b, x, N)
             /\ \A u \in DOMAIN w : b.file[w[u]] = a.file[w[u]]
             /\ b.file[Head(a.free)].arch = reg
             /\ b.free = Tail(a.free)
<1> DEFINE p == Head(a.free)
           b == rename_dest_register(a, reg, id)
           x == With(w, v, p)
           e == [arch |-> reg, producer |-> id, valid |-> FALSE, busy |-> TRUE]
<1>1. /\ a.frontend \in [ArchRegs -> PhysRegs \cup {Unmapped}]
      /\ a.backend \in [ArchRegs -> PhysRegs \cup {Unmapped}]
      /\ a.free \in Seq(PhysRegs)
      /\ a.file \in [PhysRegs -> [arch : ArchRegs \cup {0, 255}, producer : P \cup {0},
                                  valid : BOOLEAN, busy : BOOLEAN]]
      /\ Unmapped \notin PhysRegs
  BY AllocatorMembers DEF Accounted
<1>2. /\ b.frontend = [a.frontend EXCEPT ![reg] = p]
      /\ b.backend = a.backend
      /\ b.free = Tail(a.free)
      /\ b.file = [a.file EXCEPT ![p] = e]
      /\ b = [frontend |-> b.frontend, backend |-> b.backend, free |-> b.free, file |-> b.file]
  BY DEF rename_dest_register
<1>3. /\ p \in PhysRegs /\ Tail(a.free) \in Seq(PhysRegs)
      /\ p \notin Members(w) /\ p \notin Committed(a)
      /\ Distinct(Tail(a.free)) /\ p \in Members(a.free)
      /\ Members(Tail(a.free)) = Members(a.free) \ {p}
      /\ \A u \in DOMAIN w : w[u] # p
      /\ \A r \in ArchRegs : a.backend[r] # p
  BY TakeFree, SMTT(30)
<1>4. /\ w \in [DOMAIN w -> PhysRegs] /\ DOMAIN w \subseteq Nat \X Nat
      /\ \A u \in DOMAIN w : a.file[w[u]].arch \in ArchRegs
      /\ Partitioned(a, w) /\ FrontendIsLatest(a, w)
  BY DEF Accounted
<1>5. v \notin DOMAIN w
  BY <1>4, ResultOrder
<1>6. e \in [arch : ArchRegs \cup {0, 255}, producer : P \cup {0}, valid : BOOLEAN, busy : BOOLEAN]
      /\ e.arch = reg
  OBVIOUS
<1> HIDE DEF p, b, x, e
<1>7. /\ x \in [DOMAIN x -> PhysRegs]
      /\ DOMAIN x = DOMAIN w \cup {v}
      /\ x[v] = p
      /\ \A u \in DOMAIN w : x[u] = w[u] /\ u # v /\ w[u] \in PhysRegs
      /\ Members(x) = Members(w) \cup {p}
      /\ Distinct(x)
  <2>1. /\ x \in [DOMAIN w \cup {v} -> PhysRegs]
        /\ DOMAIN x = DOMAIN w \cup {v}
        /\ x[v] = p
        /\ \A u \in DOMAIN w : x[u] = w[u] /\ u # v /\ w[u] \in PhysRegs
        /\ Members(x) = Members(w) \cup {p}
        /\ Distinct(w) /\ p \notin Members(w) => Distinct(x)
    BY <1>3, <1>4, <1>5, JoinedResult DEF x
  <2>2. QED
    BY <2>1, <1>3, <1>4 DEF Partitioned
<1>8. b \in Allocator(P)
  <2>1. b.file \in [PhysRegs -> [arch : ArchRegs \cup {0, 255}, producer : P \cup {0},
                                 valid : BOOLEAN, busy : BOOLEAN]]
    BY <1>1, <1>2, <1>3, <1>6
  <2>2. b.frontend \in [ArchRegs -> PhysRegs \cup {Unmapped}]
    BY <1>1, <1>2, <1>3
  <2>3. QED
    BY <1>1, <1>2, <1>3, <2>1, <2>2, ZenonT(40) DEF Allocator
<1>9. Partitioned(b, x)
  <2>1. Committed(b) = Committed(a)
    BY <1>2 DEF Committed
  <2>2. QED
    BY <1>2, <1>3, <1>4, <1>7, <2>1 DEF Partitioned
<1>10. /\ \A u \in DOMAIN w : b.file[x[u]] = a.file[w[u]] /\ b.file[w[u]] = a.file[w[u]]
       /\ b.file[x[v]].arch = reg /\ b.file[p].arch = reg
       /\ \A q \in PhysRegs : q # p => b.file[q] = a.file[q]
  BY <1>1, <1>2, <1>3, <1>6, <1>7
<1>11. FrontendIsLatest(b, x)
  <2> SUFFICES ASSUME NEW r \in ArchRegs
               PROVE  LatestOf(b, x, r)
    BY DEF FrontendIsLatest, LatestOf
  <2>1. CASE r = reg
    <3>1. \A j \in DOMAIN x : ~Before(v, j)
      BY <1>4, <1>7, ResultOrder
    <3>2. b.frontend[r] = x[v] /\ b.file[x[v]].arch = r /\ v \in DOMAIN x
      BY <1>1, <1>2, <1>7, <1>10, <2>1
    <3>3. QED
      BY <3>1, <3>2 DEF LatestOf
  <2>2. CASE r # reg
    <3>1. b.frontend[r] = a.frontend[r] /\ b.backend[r] = a.backend[r]
      BY <1>1, <1>2, <2>2
    <3>2. \A j \in DOMAIN x : b.file[x[j]].arch = r => j \in DOMAIN w /\ a.file[w[j]].arch = r
      BY <1>7, <1>10, <2>2
    <3>3. CASE /\ a.frontend[r] = a.backend[r]
               /\ \A i \in DOMAIN w : a.file[w[i]].arch # r
      BY <3>1, <3>2, <3>3 DEF LatestOf
    <3>4. CASE \E i \in DOMAIN w :
                  /\ a.frontend[r] = w[i]
                  /\ a.file[w[i]].arch = r
                  /\ \A j \in DOMAIN w : a.file[w[j]].arch = r => ~Before(i, j)
      <4>1. PICK i \in DOMAIN w :
                  /\ a.frontend[r] = w[i]
                  /\ a.file[w[i]].arch = r
                  /\ \A j \in DOMAIN w : a.file[w[j]].arch = r => ~Before(i, j)
        BY <3>4
      <4>2. i \in DOMAIN x /\ x[i] = w[i] /\ b.file[x[i]].arch = r
        BY <1>7, <1>10, <4>1
      <4>3. QED
        BY <3>1, <3>2, <4>1, <4>2 DEF LatestOf
    <3>5. QED
      BY <1>4, <3>3, <3>4 DEF FrontendIsLatest, LatestOf
  <2>3. QED
    BY <2>1, <2>2
<1>12. Accounted(b, x, P)
  <2>1. \A u \in DOMAIN x : b.file[x[u]].arch \in ArchRegs
    BY <1>4, <1>7, <1>10
  <2>2. DOMAIN x \subseteq Nat \X Nat
    BY <1>4, <1>7
  <2>3. QED
    BY <1>7, <1>8, <1>9, <1>11, <2>1, <2>2 DEF Accounted
<1>13. ASSUME NEW N, \A n \in N : ~(v[1] < n)
       PROVE  Carries(a, w, b, x, N)
  <2> SUFFICES ASSUME NEW n \in N, NEW r \in ArchRegs, NEW q \in PhysRegs,
                      Resolves(a, w, n, r, q)
               PROVE  Resolves(b, x, n, r, q) /\ b.file[q] = a.file[q]
    BY DEF Carries
  <2>1. \A u \in DOMAIN x : u[1] < n => u \in DOMAIN w
    BY <1>7, <1>13
  <2>2. CASE /\ q = a.backend[r]
             /\ \A u \in DOMAIN w : u[1] < n => a.file[w[u]].arch # r
    <3>1. q # p
      BY <1>3, <2>2
    <3>2. \A u \in DOMAIN x : u[1] < n => b.file[x[u]].arch # r
      BY <1>10, <2>1, <2>2
    <3>3. QED
      BY <1>2, <1>10, <2>2, <3>1, <3>2 DEF Resolves
  <2>3. CASE \E u \in DOMAIN w :
                /\ u[1] < n /\ q = w[u] /\ a.file[w[u]].arch = r
                /\ \A t \in DOMAIN w : (t[1] < n /\ a.file[w[t]].arch = r) => ~Before(u, t)
    <3>1. PICK u \in DOMAIN w :
                /\ u[1] < n /\ q = w[u] /\ a.file[w[u]].arch = r
                /\ \A t \in DOMAIN w : (t[1] < n /\ a.file[w[t]].arch = r) => ~Before(u, t)
      BY <2>3
    <3>2. q # p
      BY <1>3, <3>1
    <3>3. u \in DOMAIN x /\ q = x[u] /\ b.file[x[u]].arch = r
      BY <1>7, <1>10, <3>1
    <3>4. \A t \in DOMAIN x : (t[1] < n /\ b.file[x[t]].arch = r) => ~Before(u, t)
      BY <1>10, <2>1, <3>1
    <3>5. QED
      BY <1>10, <3>1, <3>2, <3>3, <3>4 DEF Resolves
  <2>4. QED
    BY <2>2, <2>3 DEF Resolves
<1>14. QED
  BY <1>2, <1>10, <1>12, <1>13 DEF b, x, p

\* It depends on the entries of a register and on what writes it.
LEMMA LatestAlike ==
  ASSUME NEW a, NEW b, NEW w, NEW r, LatestOf(a, w, r),
         b.frontend[r] = a.frontend[r], b.backend[r] = a.backend[r],
         \A i \in DOMAIN w : b.file[w[i]].arch = a.file[w[i]].arch
  PROVE  LatestOf(b, w, r)
<1>1. CASE /\ a.frontend[r] = a.backend[r]
           /\ \A i \in DOMAIN w : a.file[w[i]].arch # r
  BY <1>1 DEF LatestOf
<1>2. CASE \E i \in DOMAIN w :
              /\ a.frontend[r] = w[i]
              /\ a.file[w[i]].arch = r
              /\ \A j \in DOMAIN w : a.file[w[j]].arch = r => ~Before(i, j)
  <2>1. PICK i \in DOMAIN w :
              /\ a.frontend[r] = w[i]
              /\ a.file[w[i]].arch = r
              /\ \A j \in DOMAIN w : a.file[w[j]].arch = r => ~Before(i, j)
    BY <1>2
  <2>2. b.frontend[r] = w[i] /\ b.file[w[i]].arch = r
    BY <2>1
  <2>3. \A j \in DOMAIN w : b.file[w[j]].arch = r => ~Before(i, j)
    BY <2>1
  <2>4. QED
    BY <2>2, <2>3 DEF LatestOf
<1>3. QED
  BY <1>1, <1>2 DEF LatestOf

\* A register given to a value of before the trace is committed at once.
LEMMA RenameSourceKeeps ==
  ASSUME NEW P, NEW a, NEW w, Accounted(a, w, P), NEW reg \in ArchRegs,
         a.frontend[reg] # Unmapped \/ a.free # << >>
  PROVE  LET b == rename_src_register(a, reg)
         IN  /\ Accounted(b, w, P)
             /\ \A N : Carries(a, w, b, w, N)
             /\ \A u \in DOMAIN w : b.file[w[u]] = a.file[w[u]]
             /\ b.frontend[reg] \in PhysRegs
             /\ \A r \in ArchRegs : a.frontend[r] # Unmapped => b.frontend[r] = a.frontend[r]
             /\ Len(b.free) = Len(a.free) - One(a.frontend[reg] = Unmapped)
<1> DEFINE p == Head(a.free)
           b == rename_src_register(a, reg)
           e == [arch |-> reg, producer |-> 0, valid |-> TRUE, busy |-> TRUE]
<1>1. /\ a.frontend \in [ArchRegs -> PhysRegs \cup {Unmapped}]
      /\ a.backend \in [ArchRegs -> PhysRegs \cup {Unmapped}]
      /\ a.free \in Seq(PhysRegs)
      /\ a.file \in [PhysRegs -> [arch : ArchRegs \cup {0, 255}, producer : P \cup {0},
                                  valid : BOOLEAN, busy : BOOLEAN]]
      /\ Unmapped \notin PhysRegs
  BY AllocatorMembers DEF Accounted
<1>2. /\ w \in [DOMAIN w -> PhysRegs] /\ DOMAIN w \subseteq Nat \X Nat
      /\ \A u \in DOMAIN w : a.file[w[u]].arch \in ArchRegs /\ w[u] \in PhysRegs
      /\ Partitioned(a, w) /\ FrontendIsLatest(a, w)
  BY DEF Accounted
<1>3. CASE a.frontend[reg] # Unmapped
  <2>1. b = a
    BY <1>3 DEF rename_src_register
  <2>2. \A N : Carries(a, w, a, w, N)
    BY DEF Carries
  <2>3. a.frontend[reg] \in PhysRegs
    BY <1>1, <1>3
  <2>4. Len(a.free) = Len(a.free) - One(a.frontend[reg] = Unmapped)
    BY <1>1, <1>3, LenProperties DEF One
  <2> HIDE DEF b
  <2>5. QED
    BY <2>1, <2>2, <2>3, <2>4 DEF b
<1>4. CASE a.frontend[reg] = Unmapped
  <2>1. a.free # << >>
    BY <1>4
  <2>2. /\ b.frontend = [a.frontend EXCEPT ![reg] = p]
        /\ b.backend = [a.backend EXCEPT ![reg] = p]
        /\ b.free = Tail(a.free)
        /\ b.file = [a.file EXCEPT ![p] = e]
        /\ b = [frontend |-> b.frontend, backend |-> b.backend, free |-> b.free, file |-> b.file]
    BY <1>4 DEF rename_src_register
  <2>3. /\ p \in PhysRegs /\ Tail(a.free) \in Seq(PhysRegs)
        /\ p \notin Members(w) /\ p \notin Committed(a)
        /\ Distinct(Tail(a.free)) /\ p \in Members(a.free)
        /\ Members(Tail(a.free)) = Members(a.free) \ {p}
        /\ \A u \in DOMAIN w : w[u] # p
        /\ \A r \in ArchRegs : a.backend[r] # p
        /\ Len(Tail(a.free)) = Len(a.free) - 1
    BY <2>1, TakeFree
  <2>4. e \in [arch : ArchRegs \cup {0, 255}, producer : P \cup {0}, valid : BOOLEAN, busy : BOOLEAN]
        /\ e.arch = reg
    OBVIOUS
  <2> HIDE DEF p, b, e
  <2>5. b \in Allocator(P)
    <3>1. b.file \in [PhysRegs -> [arch : ArchRegs \cup {0, 255}, producer : P \cup {0},
                                   valid : BOOLEAN, busy : BOOLEAN]]
      BY <1>1, <2>2, <2>3, <2>4
    <3>2. /\ b.frontend \in [ArchRegs -> PhysRegs \cup {Unmapped}]
          /\ b.backend \in [ArchRegs -> PhysRegs \cup {Unmapped}]
      BY <1>1, <2>2, <2>3
    <3>3. /\ b.free \in Seq(PhysRegs)
          /\ b = [frontend |-> b.frontend, backend |-> b.backend, free |-> b.free, file |-> b.file]
      BY <2>2, <2>3
    <3>4. QED
      BY <3>1, <3>2, <3>3 DEF Allocator
  \* Nothing in flight writes a register that has no mapping.
  <2>6. /\ a.backend[reg] = Unmapped
        /\ \A i \in DOMAIN w : a.file[w[i]].arch # reg
    BY <1>1, <1>2, <1>4 DEF FrontendIsLatest, LatestOf
  <2>7. /\ b.backend[reg] = p /\ b.frontend[reg] = p /\ p # Unmapped
        /\ \A r \in ArchRegs : r # reg => /\ b.backend[r] = a.backend[r]
                                          /\ b.frontend[r] = a.frontend[r]
    BY <1>1, <2>2, <2>3
  <2>8. Committed(b) = Committed(a) \cup {p}
    BY <2>6, <2>7 DEF Committed
  <2>9. /\ \A u \in DOMAIN w : b.file[w[u]] = a.file[w[u]]
        /\ \A q \in PhysRegs : q # p => b.file[q] = a.file[q]
        /\ b.file[p].arch = reg
    BY <1>1, <1>2, <2>2, <2>3, <2>4
  <2>10. Partitioned(b, w)
    <3>1. ASSUME NEW r \in ArchRegs, NEW s \in ArchRegs,
                 b.backend[r] = b.backend[s], b.backend[r] # Unmapped
          PROVE  r = s
      BY <1>2, <2>3, <2>7, <3>1 DEF Partitioned
    <3>2. QED
      BY <1>2, <2>2, <2>3, <2>8, <3>1 DEF Partitioned
  <2>11. FrontendIsLatest(b, w)
    <3>1. /\ b.frontend[reg] = b.backend[reg]
          /\ \A i \in DOMAIN w : b.file[w[i]].arch # reg
      BY <2>6, <2>7, <2>9
    <3>2. \A r \in ArchRegs : r # reg => /\ b.frontend[r] = a.frontend[r]
                                        /\ b.backend[r] = a.backend[r]
      BY <2>7
    <3>3. \A i \in DOMAIN w : b.file[w[i]].arch = a.file[w[i]].arch
      BY <2>9
    <3>4. \A r \in ArchRegs : r # reg => LatestOf(b, w, r)
      BY <1>2, <3>2, <3>3, LatestAlike DEF FrontendIsLatest
    <3>5. LatestOf(b, w, reg)
      BY <3>1 DEF LatestOf
    <3>6. QED
      BY <3>4, <3>5 DEF FrontendIsLatest
  <2>12. Accounted(b, w, P)
    BY <1>2, <2>5, <2>9, <2>10, <2>11 DEF Accounted
  <2>13. ASSUME NEW N
         PROVE  Carries(a, w, b, w, N)
    <3> SUFFICES ASSUME NEW n \in N, NEW r \in ArchRegs, NEW q \in PhysRegs,
                        Resolves(a, w, n, r, q)
                 PROVE  Resolves(b, w, n, r, q) /\ b.file[q] = a.file[q]
      BY DEF Carries
    <3>1. r # reg
      BY <1>1, <2>6 DEF Resolves
    <3>2. Resolves(b, w, n, r, q)
      BY <2>7, <2>9, <3>1 DEF Resolves
    <3>3. q # p
      BY <2>3, <3>1 DEF Resolves
    <3>4. QED
      BY <2>9, <3>2, <3>3
  <2>14. Len(b.free) = Len(a.free) - One(a.frontend[reg] = Unmapped)
    BY <1>4, <2>2, <2>3 DEF One
  <2>15. b.frontend[reg] \in PhysRegs
    BY <2>3, <2>7
  <2>16. \A r \in ArchRegs : a.frontend[r] # Unmapped => b.frontend[r] = a.frontend[r]
    BY <1>4, <2>7
  <2>17. QED
    BY <2>9, <2>12, <2>13, <2>14, <2>15, <2>16 DEF b
<1>5. QED
  BY <1>3, <1>4

\* Completion changes no place of a register.
LEMMA CompleteKeeps ==
  ASSUME NEW P, NEW a, NEW w, Accounted(a, w, P), NEW D
  PROVE  LET b == complete_dest_registers(a, D)
         IN  /\ Accounted(b, w, P)
             /\ \A N : Carries(a, w, b, w, N)
             /\ \A p \in PhysRegs : /\ b.file[p].arch = a.file[p].arch
                                    /\ b.file[p].valid = (p \in D \/ a.file[p].valid)
             /\ b.frontend = a.frontend /\ b.backend = a.backend /\ b.free = a.free
<1> DEFINE b == complete_dest_registers(a, D)
<1>1. /\ a.frontend \in [ArchRegs -> PhysRegs \cup {Unmapped}]
      /\ a.backend \in [ArchRegs -> PhysRegs \cup {Unmapped}]
      /\ a.free \in Seq(PhysRegs)
      /\ a.file \in [PhysRegs -> [arch : ArchRegs \cup {0, 255}, producer : P \cup {0},
                                  valid : BOOLEAN, busy : BOOLEAN]]
      /\ Unmapped \notin PhysRegs
  BY AllocatorMembers DEF Accounted
<1>2. /\ w \in [DOMAIN w -> PhysRegs] /\ DOMAIN w \subseteq Nat \X Nat
      /\ \A u \in DOMAIN w : a.file[w[u]].arch \in ArchRegs /\ w[u] \in PhysRegs
      /\ Partitioned(a, w) /\ FrontendIsLatest(a, w)
  BY DEF Accounted
<1>3. /\ b.frontend = a.frontend /\ b.backend = a.backend /\ b.free = a.free
      /\ b.file = [p \in PhysRegs |->
                      [arch |-> a.file[p].arch, producer |-> a.file[p].producer,
                       valid |-> p \in D \/ a.file[p].valid, busy |-> a.file[p].busy]]
      /\ b = [frontend |-> b.frontend, backend |-> b.backend, free |-> b.free, file |-> b.file]
  BY DEF complete_dest_registers
<1> HIDE DEF b
<1>4. \A p \in PhysRegs : /\ b.file[p].arch = a.file[p].arch
                          /\ b.file[p].valid = (p \in D \/ a.file[p].valid)
  BY <1>3
<1>5. b.file \in [PhysRegs -> [arch : ArchRegs \cup {0, 255}, producer : P \cup {0},
                               valid : BOOLEAN, busy : BOOLEAN]]
  <2>1. ASSUME NEW p \in PhysRegs
        PROVE  [arch |-> a.file[p].arch, producer |-> a.file[p].producer,
                valid |-> p \in D \/ a.file[p].valid, busy |-> a.file[p].busy]
               \in [arch : ArchRegs \cup {0, 255}, producer : P \cup {0},
                    valid : BOOLEAN, busy : BOOLEAN]
    <3>1. /\ a.file[p].arch \in ArchRegs \cup {0, 255} /\ a.file[p].producer \in P \cup {0}
          /\ a.file[p].busy \in BOOLEAN
      BY <1>1
    <3>2. (p \in D \/ a.file[p].valid) \in BOOLEAN
      OBVIOUS
    <3>3. QED
      BY <3>1, <3>2
  <2>2. QED
    BY <1>3, <2>1
<1>6. b \in Allocator(P)
  BY <1>1, <1>3, <1>5 DEF Allocator
<1>7. Partitioned(b, w)
  BY <1>2, <1>3 DEF Partitioned, Committed
<1>8. FrontendIsLatest(b, w)
  <2>1. \A i \in DOMAIN w : b.file[w[i]].arch = a.file[w[i]].arch
    BY <1>2, <1>4
  <2>2. QED
    BY <1>2, <1>3, <2>1, LatestAlike DEF FrontendIsLatest
<1>9. Accounted(b, w, P)
  BY <1>2, <1>4, <1>6, <1>7, <1>8 DEF Accounted
<1>10. \A N : Carries(a, w, b, w, N)
  BY <1>2, <1>3, <1>4, ZenonT(40) DEF Carries, Resolves
<1>11. QED
  BY <1>3, <1>4, <1>9, <1>10 DEF b

\* The oldest result becomes the committed value; the register that held the
\* previous one, if there was one, is nowhere else and goes to the free queue.
LEMMA RetireDestKeeps ==
  ASSUME NEW P, NEW a, NEW w, Accounted(a, w, P), NEW v \in DOMAIN w,
         \A u \in DOMAIN w : ~Before(u, v)
  PROVE  LET b == retire_dest_register(a, w[v])
             x == Dropped(w, v)
         IN  /\ Accounted(b, x, P)
             /\ \A N : (\A n \in N : v[1] < n) => Carries(a, w, b, x, N)
             /\ \A u \in DOMAIN w : b.file[w[u]] = a.file[w[u]]
<1> DEFINE p == w[v]
           reg == a.file[p].arch
           old == a.backend[reg]
           b == retire_dest_register(a, p)
           x == Dropped(w, v)
<1>1. /\ a.frontend \in [ArchRegs -> PhysRegs \cup {Unmapped}]
      /\ a.backend \in [ArchRegs -> PhysRegs \cup {Unmapped}]
      /\ a.free \in Seq(PhysRegs)
      /\ a.file \in [PhysRegs -> [arch : ArchRegs \cup {0, 255}, producer : P \cup {0},
                                  valid : BOOLEAN, busy : BOOLEAN]]
      /\ Unmapped \notin PhysRegs
  BY AllocatorMembers DEF Accounted
<1>2. /\ w \in [DOMAIN w -> PhysRegs] /\ DOMAIN w \subseteq Nat \X Nat
      /\ \A u \in DOMAIN w : a.file[w[u]].arch \in ArchRegs /\ w[u] \in PhysRegs
      /\ Partitioned(a, w) /\ FrontendIsLatest(a, w)
  BY DEF Accounted
<1>3. /\ b.frontend = a.frontend
      /\ b.backend = [a.backend EXCEPT ![reg] = p]
      /\ b.free = IF old = Unmapped THEN a.free ELSE Append(a.free, old)
      /\ b.file = IF old = Unmapped THEN a.file ELSE [a.file EXCEPT ![old] = FreeRegister]
      /\ b = [frontend |-> b.frontend, backend |-> b.backend, free |-> b.free, file |-> b.file]
  BY DEF retire_dest_register
<1>4. /\ reg \in ArchRegs /\ old \in PhysRegs \cup {Unmapped} /\ p \in PhysRegs
      /\ reg = a.file[p].arch /\ old = a.backend[reg] /\ p = w[v]
  BY <1>1, <1>2
<1> HIDE DEF p, reg, old, b, x
<1>5. /\ x \in [DOMAIN x -> PhysRegs]
      /\ DOMAIN x = DOMAIN w \ {v}
      /\ \A u \in DOMAIN w : u # v => x[u] = w[u] /\ w[u] # p
      /\ Members(x) = Members(w) \ {p}
      /\ p \in Members(w)
      /\ Distinct(x)
  <2>1. w \in [DOMAIN w -> PhysRegs] /\ Distinct(w)
    BY <1>2 DEF Partitioned
  <2>2. /\ Dropped(w, v) \in [DOMAIN w \ {v} -> PhysRegs]
        /\ DOMAIN Dropped(w, v) = DOMAIN w \ {v}
        /\ \A u \in DOMAIN w : u # v => Dropped(w, v)[u] = w[u] /\ w[u] # w[v]
        /\ Members(Dropped(w, v)) = Members(w) \ {w[v]}
        /\ w[v] \in Members(w) /\ w[v] \in PhysRegs
        /\ Distinct(Dropped(w, v))
    BY <2>1, DroppedResult
  <2>3. QED
    BY <2>2, <1>4 DEF x
<1>6. old # Unmapped => /\ old \in Committed(a) /\ old \notin Members(a.free)
                        /\ old \notin Members(w) /\ old \in PhysRegs
  BY <1>1, <1>2, <1>4 DEF Committed, Partitioned
<1>7. \A u \in DOMAIN w : w[u] # old
  BY <1>1, <1>2, <1>6 DEF Members
<1>8. /\ b.free \in Seq(PhysRegs) /\ Distinct(b.free)
      /\ Members(b.free) = Members(a.free) \cup ({old} \ {Unmapped})
  <2>1. CASE old = Unmapped
    BY <1>1, <1>2, <1>3, <2>1 DEF Partitioned
  <2>2. CASE old # Unmapped
    <3>1. Distinct(a.free)
      BY <1>2 DEF Partitioned
    <3>2. /\ Append(a.free, old) \in Seq(PhysRegs)
          /\ Distinct(Append(a.free, old))
          /\ Members(Append(a.free, old)) = Members(a.free) \cup {old}
      BY <1>1, <1>6, <2>2, <3>1, AppendMembers
    <3>3. QED
      BY <1>3, <2>2, <3>2
  <2>3. QED
    BY <2>1, <2>2
<1>9. /\ b.backend[reg] = p /\ p # Unmapped
      /\ \A r \in ArchRegs : r # reg =>
            /\ b.backend[r] = a.backend[r]
            /\ a.backend[r] # Unmapped => a.backend[r] # old
      /\ \A r \in ArchRegs : a.backend[r] # p
  <2>1. \A r \in ArchRegs : r # reg =>
            /\ b.backend[r] = a.backend[r]
            /\ a.backend[r] # Unmapped => a.backend[r] # old
    BY <1>1, <1>2, <1>3, <1>4 DEF Partitioned
  <2>2. b.backend[reg] = p /\ p # Unmapped
    BY <1>1, <1>3, <1>4
  <2>3. p \notin Committed(a)
    BY <1>2, <1>5 DEF Partitioned
  <2>4. QED
    BY <2>1, <2>2, <2>3 DEF Committed
<1>10. Committed(b) = (Committed(a) \ {old}) \cup {p}
  <2>1. ASSUME NEW y \in Committed(b)
        PROVE  y \in (Committed(a) \ {old}) \cup {p}
    BY <1>9, <2>1 DEF Committed
  <2>2. ASSUME NEW y \in Committed(a), y # old
        PROVE  y \in Committed(b)
    <3>1. PICK r \in ArchRegs : y = a.backend[r] /\ y # Unmapped
      BY DEF Committed
    <3>2. r # reg
      BY <1>4, <2>2, <3>1
    <3>3. QED
      BY <1>9, <3>1, <3>2 DEF Committed
  <2>3. p \in Committed(b)
    BY <1>4, <1>9 DEF Committed
  <2>4. QED
    BY <2>1, <2>2, <2>3
<1>11. /\ \A u \in DOMAIN w : b.file[w[u]] = a.file[w[u]]
       /\ \A q \in PhysRegs : q # old => b.file[q] = a.file[q]
  <2>1. \A q \in PhysRegs : q # old => b.file[q] = a.file[q]
    BY <1>1, <1>3
  <2>2. QED
    BY <1>2, <1>7, <2>1
<1>12. b \in Allocator(P)
  <2>1. FreeRegister \in [arch : ArchRegs \cup {0, 255}, producer : P \cup {0},
                          valid : BOOLEAN, busy : BOOLEAN]
    BY DEF FreeRegister
  <2>2. b.file \in [PhysRegs -> [arch : ArchRegs \cup {0, 255}, producer : P \cup {0},
                                 valid : BOOLEAN, busy : BOOLEAN]]
    <3>1. [a.file EXCEPT ![old] = FreeRegister]
          \in [PhysRegs -> [arch : ArchRegs \cup {0, 255}, producer : P \cup {0},
                            valid : BOOLEAN, busy : BOOLEAN]]
      BY <1>1, <2>1
    <3>2. QED
      BY <1>1, <1>3, <3>1
  <2>3. b.backend \in [ArchRegs -> PhysRegs \cup {Unmapped}]
    BY <1>1, <1>3, <1>4
  <2>4. QED
    BY <1>1, <1>3, <1>8, <2>2, <2>3 DEF Allocator
<1>13. Partitioned(b, x)
  <2>1. ASSUME NEW r \in ArchRegs, NEW s \in ArchRegs,
               b.backend[r] = b.backend[s], b.backend[r] # Unmapped
        PROVE  r = s
    BY <1>2, <1>9, <2>1 DEF Partitioned
  <2>2. /\ Members(b.free) \cap Members(x) = {}
        /\ Members(b.free) \cap Committed(b) = {}
        /\ Members(x) \cap Committed(b) = {}
        /\ Members(b.free) \cup Members(x) \cup Committed(b) = PhysRegs
    <3> DEFINE F == Members(a.free)
               W == Members(w)
               C == Committed(a)
    <3>1. /\ Members(b.free) = F \cup ({old} \ {Unmapped})
          /\ Members(x) = W \ {p}
          /\ Committed(b) = (C \ {old}) \cup {p}
          /\ p \in W /\ p \in PhysRegs /\ p # Unmapped
          /\ old = Unmapped \/ old \in C
      BY <1>4, <1>5, <1>6, <1>8, <1>9, <1>10
    <3>2. /\ F \cap W = {} /\ F \cap C = {} /\ W \cap C = {}
          /\ F \cup W \cup C = PhysRegs /\ Unmapped \notin C
      BY <1>2 DEF Partitioned, Committed
    <3> HIDE DEF F, W, C
    <3>3. QED
      BY <3>1, <3>2
  <2>3. QED
    BY <1>5, <1>8, <2>1, <2>2 DEF Partitioned
\* Of the other results, the readers' latest is the same; a reader of the one
\* that retires finds it in the table.
<1>14. ASSUME NEW N, \A n \in N : v[1] < n
       PROVE  Carries(a, w, b, x, N)
  <2> SUFFICES ASSUME NEW n \in N, NEW r \in ArchRegs, NEW q \in PhysRegs,
                      Resolves(a, w, n, r, q)
               PROVE  Resolves(b, x, n, r, q) /\ b.file[q] = a.file[q]
    BY DEF Carries
  <2>1. v[1] < n
    BY <1>14
  <2>2. CASE /\ q = a.backend[r]
             /\ \A u \in DOMAIN w : u[1] < n => a.file[w[u]].arch # r
    <3>1. r # reg
      BY <1>4, <2>1, <2>2
    <3>2. q = b.backend[r] /\ q # old
      BY <1>1, <1>9, <2>2, <3>1
    <3>3. \A u \in DOMAIN x : u[1] < n => b.file[x[u]].arch # r
      BY <1>5, <1>11, <2>2
    <3>4. QED
      BY <1>11, <3>2, <3>3 DEF Resolves
  <2>3. CASE \E u \in DOMAIN w :
                /\ u[1] < n /\ q = w[u] /\ a.file[w[u]].arch = r
                /\ \A t \in DOMAIN w : (t[1] < n /\ a.file[w[t]].arch = r) => ~Before(u, t)
    <3>1. PICK u \in DOMAIN w :
                /\ u[1] < n /\ q = w[u] /\ a.file[w[u]].arch = r
                /\ \A t \in DOMAIN w : (t[1] < n /\ a.file[w[t]].arch = r) => ~Before(u, t)
      BY <2>3
    <3>2. b.file[q] = a.file[q]
      BY <1>11, <3>1
    <3>3. CASE u = v
      <4>1. q = p /\ r = reg
        BY <1>4, <3>1, <3>3
      <4>2. ASSUME NEW t \in DOMAIN x, t[1] < n, b.file[x[t]].arch = r
            PROVE  FALSE
        <5>1. t \in DOMAIN w /\ t # v /\ a.file[w[t]].arch = r
          BY <1>5, <1>11, <4>2
        <5>2. ~Before(v, t) /\ ~Before(t, v)
          BY <3>1, <3>3, <4>2, <5>1
        <5>3. QED
          BY <1>2, <5>1, <5>2, ResultOrder
      <4>3. QED
        BY <1>9, <3>2, <4>1, <4>2 DEF Resolves
    <3>4. CASE u # v
      <4>1. /\ u \in DOMAIN x /\ x[u] = w[u] /\ b.file[x[u]].arch = r
        BY <1>5, <1>11, <3>1, <3>4
      <4>2. \A t \in DOMAIN x : (t[1] < n /\ b.file[x[t]].arch = r) => ~Before(u, t)
        BY <1>5, <1>11, <3>1
      <4>3. QED
        BY <3>1, <3>2, <4>1, <4>2 DEF Resolves
    <3>5. QED
      BY <3>3, <3>4
  <2>4. QED
    BY <2>2, <2>3 DEF Resolves
<1>15. FrontendIsLatest(b, x)
  <2> SUFFICES ASSUME NEW r \in ArchRegs
               PROVE  LatestOf(b, x, r)
    BY DEF FrontendIsLatest, LatestOf
  <2>1. CASE /\ a.frontend[r] = a.backend[r]
             /\ \A i \in DOMAIN w : a.file[w[i]].arch # r
    <3>1. r # reg
      BY <1>4, <2>1
    <3>2. b.frontend[r] = b.backend[r]
      BY <1>3, <1>9, <2>1, <3>1
    <3>3. \A i \in DOMAIN x : b.file[x[i]].arch # r
      BY <1>5, <1>11, <2>1
    <3>4. QED
      BY <3>2, <3>3 DEF LatestOf
  <2>2. CASE \E i \in DOMAIN w :
                /\ a.frontend[r] = w[i]
                /\ a.file[w[i]].arch = r
                /\ \A j \in DOMAIN w : a.file[w[j]].arch = r => ~Before(i, j)
    <3>1. PICK i \in DOMAIN w :
                /\ a.frontend[r] = w[i]
                /\ a.file[w[i]].arch = r
                /\ \A j \in DOMAIN w : a.file[w[j]].arch = r => ~Before(i, j)
      BY <2>2
    \* The youngest was the one that retires: nothing is left, and it commits.
    <3>2. CASE i = v
      <4>1. r = reg /\ b.frontend[r] = b.backend[r]
        BY <1>3, <1>4, <1>9, <3>1, <3>2
      <4>2. ASSUME NEW j \in DOMAIN x, b.file[x[j]].arch = r
            PROVE  FALSE
        <5>1. j \in DOMAIN w /\ j # v /\ a.file[w[j]].arch = r
          BY <1>5, <1>11, <4>2
        <5>2. ~Before(v, j) /\ ~Before(j, v)
          BY <3>1, <3>2, <5>1
        <5>3. QED
          BY <1>2, <5>1, <5>2, ResultOrder
      <4>3. QED
        BY <4>1, <4>2 DEF LatestOf
    <3>3. CASE i # v
      <4>1. i \in DOMAIN x /\ x[i] = w[i] /\ b.file[x[i]].arch = r
        BY <1>5, <1>11, <3>1, <3>3
      <4>2. \A j \in DOMAIN x : b.file[x[j]].arch = r => ~Before(i, j)
        BY <1>5, <1>11, <3>1
      <4>3. QED
        BY <1>3, <3>1, <4>1, <4>2 DEF LatestOf
    <3>4. QED
      BY <3>2, <3>3
  <2>3. QED
    BY <1>2, <2>1, <2>2 DEF FrontendIsLatest, LatestOf
<1>16. Accounted(b, x, P)
  <2>1. \A u \in DOMAIN x : b.file[x[u]].arch \in ArchRegs
    BY <1>2, <1>5, <1>11
  <2>2. QED
    BY <1>2, <1>5, <1>12, <1>13, <1>15, <2>1 DEF Accounted
<1>17. QED
  BY <1>11, <1>14, <1>16 DEF b, x, p

-----------------------------------------------------------------------------
(* The allocator under any pipeline that keeps the protocol (RenameWindow). *)

WindowIInv == WindowTypeOK /\ Accounted(regs, window, InstrIds)

\* A new allocator accounts for its registers.
LEMMA FreshKeeps == \A P : Accounted(FreshAllocator, << >>, P)
<1> SUFFICES ASSUME NEW P PROVE Accounted(FreshAllocator, << >>, P)
  OBVIOUS
<1> DEFINE a == FreshAllocator
           w == << >>
<1>1. RegisterFileSize \in Nat
  BY RegisterAssumption, SMT DEF RatSize
<1>2. PhysRegs = 0 .. RegisterFileSize - 1
  BY DEF PhysRegs
<1>3. /\ a.free = [i \in 1 .. RegisterFileSize |-> i - 1]
      /\ a.frontend = [r \in ArchRegs |-> Unmapped]
      /\ a.backend = [r \in ArchRegs |-> Unmapped]
      /\ a.file = [p \in PhysRegs |-> [arch |-> 0, producer |-> 0, valid |-> FALSE, busy |-> FALSE]]
      /\ a = [frontend |-> a.frontend, backend |-> a.backend, free |-> a.free, file |-> a.file]
  BY DEF FreshAllocator
<1>4. DOMAIN w = {} /\ w \in [DOMAIN w -> PhysRegs]
  OBVIOUS
<1> HIDE DEF a, w
<1>5. a.free \in Seq(PhysRegs) /\ DOMAIN a.free = 1 .. RegisterFileSize
  <2>1. \A i \in 1 .. RegisterFileSize : i - 1 \in PhysRegs
    BY <1>1, <1>2
  <2>2. a.free \in [1 .. RegisterFileSize -> PhysRegs]
    BY <1>3, <2>1
  <2>3. QED
    BY <1>1, <1>3, <2>2, SeqDef
<1>6. a \in Allocator(P)
  <2>1. a.file \in [PhysRegs -> [arch : ArchRegs \cup {0, 255}, producer : P \cup {0},
                                 valid : BOOLEAN, busy : BOOLEAN]]
    BY <1>3
  <2>2. /\ a.frontend \in [ArchRegs -> PhysRegs \cup {Unmapped}]
        /\ a.backend \in [ArchRegs -> PhysRegs \cup {Unmapped}]
    BY <1>3
  <2>3. QED
    BY <1>3, <1>5, <2>1, <2>2 DEF Allocator
<1>7. Members(a.free) = PhysRegs
  <2>1. ASSUME NEW p \in PhysRegs
        PROVE  p \in Members(a.free)
    <3>1. p + 1 \in 1 .. RegisterFileSize /\ a.free[p + 1] = p
      BY <1>1, <1>2, <1>3
    <3>2. QED
      BY <1>5, <3>1 DEF Members
  <2>2. ASSUME NEW p \in Members(a.free)
        PROVE  p \in PhysRegs
    <3>1. PICK i \in DOMAIN a.free : p = a.free[i]
      BY <2>2 DEF Members
    <3>2. QED
      BY <1>1, <1>2, <1>3, <1>5, <3>1
  <2>3. QED
    BY <2>1, <2>2
<1>8. Distinct(a.free)
  BY <1>1, <1>3, <1>5 DEF Distinct
<1>9. Committed(a) = {} /\ Members(w) = {} /\ Distinct(w)
  BY <1>3, <1>4 DEF Committed, Members, Distinct
<1>10. Partitioned(a, w)
  BY <1>3, <1>7, <1>8, <1>9 DEF Partitioned
<1>11. FrontendIsLatest(a, w)
  BY <1>3, <1>4 DEF FrontendIsLatest, LatestOf
<1>12. QED
  BY <1>4, <1>6, <1>10, <1>11 DEF Accounted, a, w

LEMMA WindowInitInv == WindowInit => WindowIInv
<1> SUFFICES ASSUME WindowInit PROVE WindowIInv
  OBVIOUS
<1>1. Accounted(regs, window, InstrIds)
  BY FreshKeeps DEF WindowInit
<1>2. DOMAIN window = {}
  BY DEF WindowInit
<1>3. QED
  BY <1>1, <1>2 DEF WindowIInv, WindowTypeOK, Accounted

LEMMA WindowStepInv == WindowIInv /\ [WindowNext]_windowVars => WindowIInv'
<1> SUFFICES ASSUME WindowIInv, [WindowNext]_windowVars PROVE WindowIInv'
  OBVIOUS
<1>1. /\ Accounted(regs, window, InstrIds)
      /\ window \in [DOMAIN window -> PhysRegs]
      /\ DOMAIN window \subseteq InstrIds \X Operands
      /\ regs.free \in Seq(PhysRegs)
  BY AllocatorMembers DEF WindowIInv, WindowTypeOK, Accounted
<1>2. /\ Accounted(regs', window', InstrIds) => regs' \in Allocator(InstrIds)
      /\ Accounted(regs', window', InstrIds) => window' \in [DOMAIN window' -> PhysRegs]
  BY DEF Accounted
<1>3. ASSUME NEW reg \in ArchRegs, NEW w \in InstrIds \X Operands, RenameDest(reg, w)
      PROVE  WindowIInv'
  <2>1. regs.free # << >>
    BY <1>1, <1>3, EmptySeq, LenProperties DEF RenameDest, count_free_registers
  <2>2. w[1] \in InstrIds /\ w \in Nat \X Nat
    BY ResultAssumption
  <2>3. \A u \in DOMAIN window : Before(u, w)
    BY <1>3 DEF RenameDest
  <2>4. Accounted(rename_dest_register(regs, reg, w[1]), With(window, w, Head(regs.free)), InstrIds)
    BY <1>1, <2>1, <2>2, <2>3, RenameDestKeeps
  <2>5. Accounted(regs', window', InstrIds)
    BY <1>3, <2>4 DEF RenameDest
  <2>6. DOMAIN window' \subseteq InstrIds \X Operands
    BY <1>1, <1>3 DEF RenameDest, With
  <2>7. QED
    BY <1>2, <2>5, <2>6 DEF WindowIInv, WindowTypeOK
<1>4. ASSUME NEW reg \in ArchRegs, RenameSource(reg)
      PROVE  WindowIInv'
  <2>1. regs.frontend[reg] # Unmapped \/ regs.free # << >>
    BY <1>1, <1>4, EmptySeq, LenProperties DEF RenameSource, isAllocated, count_free_registers
  <2>2. Accounted(rename_src_register(regs, reg), window, InstrIds)
    BY <1>1, <2>1, RenameSourceKeeps
  <2>3. QED
    BY <1>1, <1>2, <1>4, <2>2 DEF RenameSource, WindowIInv, WindowTypeOK
<1>5. ASSUME NEW w \in DOMAIN window, CompleteDest(w)
      PROVE  WindowIInv'
  <2>1. Accounted(complete_dest_registers(regs, {window[w]}), window, InstrIds)
    BY <1>1, CompleteKeeps
  <2>2. QED
    BY <1>1, <1>2, <1>5, <2>1 DEF CompleteDest, WindowIInv, WindowTypeOK
<1>6. ASSUME NEW w \in DOMAIN window, RetireDest(w)
      PROVE  WindowIInv'
  <2>1. Accounted(retire_dest_register(regs, window[w]), Dropped(window, w), InstrIds)
    BY <1>1, <1>6, RetireDestKeeps DEF RetireDest
  <2>2. DOMAIN window' \subseteq InstrIds \X Operands
    BY <1>1, <1>6 DEF RetireDest, Dropped
  <2>3. QED
    BY <1>2, <1>6, <2>1, <2>2 DEF RetireDest, WindowIInv, WindowTypeOK
<1>7. CASE UNCHANGED windowVars
  BY <1>1, <1>2, <1>7 DEF windowVars, WindowIInv, WindowTypeOK
<1>8. QED
  BY <1>3, <1>4, <1>5, <1>6, <1>7 DEF WindowNext

LEMMA WindowInvariant == WindowSpec => []WindowIInv
BY WindowInitInv, WindowStepInv, PTL DEF WindowSpec

\* The allocator's tables and queue keep their types (register_allocator.h).
THEOREM WindowTypeCorrect == WindowSpec => []WindowTypeOK
<1>1. WindowIInv => WindowTypeOK
  BY DEF WindowIInv
<1>2. QED
  BY <1>1, WindowInvariant, PTL

\* For any numbers of registers and any interleaving of renaming, completion and
\* retirement, every physical register is in exactly one place
\* (retire_dest_register frees what it replaces, and nothing else).
THEOREM NoRegisterIsLost == WindowSpec => []RegistersPartitioned
<1>1. WindowIInv => RegistersPartitioned
  BY DEF WindowIInv, Accounted, RegistersPartitioned
<1>2. QED
  BY <1>1, WindowInvariant, PTL

\* What rename_src_register reads from the frontend table is the youngest result
\* in flight, or the committed value.
THEOREM FrontendIsRight == WindowSpec => []LatestMapping
<1>1. WindowIInv => LatestMapping
  BY DEF WindowIInv, Accounted, LatestMapping
<1>2. QED
  BY <1>1, WindowInvariant, PTL

-----------------------------------------------------------------------------
(* The inductive invariant of Backend. *)

\* An instruction in the ROB, a slot of the load queue, a store, and the blocks
\* that the L1D answers with.
Entry == [id : Nat, ready : Int, scheduled : BOOLEAN, executed : BOOLEAN, completed : BOOLEAN,
          memops : Nat, srcs : Seq(Int), dsts : Seq(Int)]

Slot == LoadEntry \cup {NoEntry}

Store(size) == [id : Nat, addr : Addresses, ready : Int, issued : BOOLEAN,
                waiters : SUBSET (1 .. size)]

Blocks == {BlockOf(addr) : addr \in Addresses}

\* What the variables are.
TypeInv ==
    /\ cfg \in Configs /\ program \in Programs
    /\ arrived \in 0 .. Len(program) /\ num_retired \in Nat
    /\ ROB \in Seq(Entry)
    /\ LQ \in [1 .. cfg.LQ_SIZE -> Slot]
    /\ SQ \in Seq(Store(cfg.LQ_SIZE))
    /\ L1D \in ChannelOf(Addresses, Blocks) /\ owed \in Seq(Blocks)

\* The queues that the code asserts to be within their sizes.
SizeInv ==
    /\ Len(ROB) <= cfg.ROB_SIZE /\ Len(SQ) <= cfg.SQ_SIZE
    /\ Len(L1D.RQ) <= cfg.RQ_SIZE /\ Len(L1D.WQ) <= cfg.WQ_SIZE

\* The memory operations of an instruction: num_mem_ops.
Ops(prog, id) == Len(prog[id].loads) + Len(prog[id].stores)

\* What of an instruction's memory operations is still in the queues.
LoadsFor(lq, id) == {s \in DOMAIN lq : lq[s] # NoEntry /\ lq[s].id = id}

StoresFor(sq, id) == {j \in DOMAIN sq : sq[j].id = id /\ ~sq[j].issued}

StoresOrdered(sq) ==
    \A i, j \in DOMAIN sq : i < j => /\ sq[i].id <= sq[j].id
                                     /\ sq[j].issued => sq[i].issued

\* Loads wait for stores that know of them.
LoadsWait(lq, sq) ==
    \A s \in DOMAIN lq : lq[s] # NoEntry =>
       /\ \A i \in DOMAIN sq :
             (sq[i].addr = lq[s].addr /\ sq[i].id < lq[s].id /\ ~sq[i].issued)
                => lq[s].producer \in sq[i].id .. lq[s].id - 1
       /\ lq[s].producer # Never =>
             /\ ~lq[s].issued
             /\ \E i \in DOMAIN sq : /\ sq[i].id = lq[s].producer /\ ~sq[i].issued
                                     /\ sq[i].addr = lq[s].addr /\ s \in sq[i].waiters

\* A store that has not issued knows of loads that wait for it, and for no other.
StoresKnow(lq, sq) ==
    \A i \in DOMAIN sq : ~sq[i].issued =>
       \A s \in sq[i].waiters :
          /\ s \in DOMAIN lq /\ lq[s] # NoEntry /\ lq[s].producer = sq[i].id
          /\ \A j \in DOMAIN sq : j # i /\ ~sq[j].issued => s \notin sq[j].waiters

\* The ROB and the queues.  base instructions have retired; each of the others has
\* its finished operations and those still in the queues.  Stores that are in the
\* queue but have issued are no longer owed, and may outlive their instruction.
MemInv(prog, base, rob, lq, sq) ==
    /\ base + Len(rob) <= Len(prog)
    /\ \A i \in DOMAIN rob : rob[i].id = base + i
    /\ \A i \in DOMAIN rob :
          /\ rob[i].memops + Cardinality(LoadsFor(lq, base + i)) + Cardinality(StoresFor(sq, base + i))
             = Ops(prog, base + i)
          /\ rob[i].completed => rob[i].memops = Ops(prog, base + i)
    /\ \A s \in DOMAIN lq : lq[s] # NoEntry => lq[s].id \in base + 1 .. base + Len(rob)
    /\ \A j \in DOMAIN sq : sq[j].id \in 1 .. base + Len(rob) /\ (sq[j].id <= base => sq[j].issued)
    /\ StoresOrdered(sq) /\ LoadsWait(lq, sq) /\ StoresKnow(lq, sq)

\* The results in flight: (instruction, destination) to physical register.
ResultsOf(rob, base) == [w \in Results(rob) |-> rob[w[1] - base].dsts[w[2]]]

\* Instructions are scheduled in order, for they become ready in order.
Ordered(rob, latency) ==
    \A i \in DOMAIN rob :
       /\ rob[i].executed => rob[i].scheduled
       /\ rob[i].completed => rob[i].executed
       /\ ~rob[i].scheduled => /\ rob[i].ready \in 0 .. latency
                               /\ \A j \in DOMAIN rob : i < j => /\ ~rob[j].scheduled
                                                                 /\ rob[i].ready <= rob[j].ready

\* The registers of an instruction: of the program, until they are renamed.
Renamed(prog, a, w, instr) ==
    /\ Len(instr.srcs) = Len(prog[instr.id].srcs) /\ Len(instr.dsts) = Len(prog[instr.id].dsts)
    /\ \A k \in DOMAIN instr.dsts : /\ instr.dsts[k] \in PhysRegs
                                    /\ a.file[instr.dsts[k]].arch = prog[instr.id].dsts[k]
    /\ \A k \in DOMAIN instr.srcs :
          /\ instr.srcs[k] \in PhysRegs
          /\ Resolves(a, w, instr.id, prog[instr.id].srcs[k], instr.srcs[k])
          /\ instr.executed => a.file[instr.srcs[k]].valid

\* The registers: accounted for, and those of the ROB as the scheduler left them.
RegInv(prog, base, a, rob, latency) ==
    /\ Accounted(a, ResultsOf(rob, base), Nat)
    /\ Ordered(rob, latency)
    /\ \A i \in DOMAIN rob :
          IF rob[i].scheduled THEN Renamed(prog, a, ResultsOf(rob, base), rob[i])
          ELSE rob[i].srcs = prog[base + i].srcs /\ rob[i].dsts = prog[base + i].dsts

\* The inductive invariant.
BackendInv ==
    /\ TypeInv /\ SizeInv
    /\ num_retired + Len(ROB) <= arrived
    /\ MemInv(program, num_retired, ROB, LQ, SQ)
    /\ RegInv(program, num_retired, ra, ROB, cfg.SCHEDULING_LATENCY)

-----------------------------------------------------------------------------
(* The folds of the code's loops.  A lemma cannot be stated for every         *)
(* operation at once, so each has its own.                                    *)

\* The largest of some of the first k numbers, k among them.
LEMMA MaxAtTop ==
  ASSUME NEW k \in Nat, NEW s \in SUBSET (1 .. k), k \in s
  PROVE  Max(s) = k
<1>1. Top(s) \in s /\ \A y \in s : Top(s) >= y
  BY TopOf
<1>2. Top(s) \in 1 .. k /\ Top(s) >= k
  BY <1>1
<1> DEFINE t == Top(s)
<1>3. t = k
  <2> HIDE DEF t
  <2>1. t \in 1 .. k /\ t >= k
    BY <1>2 DEF t
  <2>2. QED
    BY <2>1
<1>4. QED
  BY <1>3 DEF Max, Top

\* The values a fold of RetireDest passes through.
RetireDestPath(b, q) ==
    \E g : /\ g[0] = b /\ g[Len(q)] = FoldLeft(retire_dest_register, b, q)
           /\ \A k \in 1 .. Len(q) : g[k] = retire_dest_register(g[k - 1], q[k])

LEMMA RetireDestFold ==
  ASSUME NEW E, NEW q \in Seq(E), NEW b
  PROVE  RetireDestPath(b, q)
<1> DEFINE Fits(h, n) ==
              h = [s \in SUBSET (1 .. n) |->
                     IF s = {} THEN b ELSE retire_dest_register(h[s \ {Max(s)}], q[Max(s)])]
           S == {n \in 0 .. Len(q) : \E h : Fits(h, n)}
<1>1. Len(q) \in Nat /\ DOMAIN q = 1 .. Len(q)
  BY LenProperties
<1>2. 0 \in S
  <2> DEFINE h == [s \in SUBSET (1 .. 0) |-> b]
  <2>1. \A s \in SUBSET (1 .. 0) : s = {}
    OBVIOUS
  <2>2. Fits(h, 0)
    BY <2>1
  <2> HIDE DEF h, Fits
  <2>3. QED
    BY <1>1, <2>2
<1>3. ASSUME NEW k \in 1 .. Len(q), k - 1 \in S
      PROVE  k \in S
  <2>1. PICK h : Fits(h, k - 1)
    BY <1>3
  <2> DEFINE g == [s \in SUBSET (1 .. k) |->
                     IF k \in s THEN retire_dest_register(h[s \ {k}], q[k]) ELSE h[s]]
             G == [s \in SUBSET (1 .. k) |->
                     IF s = {} THEN b ELSE retire_dest_register(g[s \ {Max(s)}], q[Max(s)])]
  <2>2. ASSUME NEW s \in SUBSET (1 .. k)
        PROVE  g[s] = IF s = {} THEN b ELSE retire_dest_register(g[s \ {Max(s)}], q[Max(s)])
    <3>1. CASE k \in s
      <4>1. Max(s) = k
        BY <1>1, <3>1, MaxAtTop
      <4>2. g[s \ {k}] = h[s \ {k}] /\ g[s] = retire_dest_register(h[s \ {k}], q[k])
        BY <3>1
      <4> HIDE DEF g
      <4>3. QED
        BY <3>1, <4>1, <4>2
    <3>2. CASE k \notin s
      <4>1. s \in SUBSET (1 .. k - 1)
        <5>1. \A y \in s : y \in 1 .. k - 1
          BY <1>1, <3>2
        <5>2. QED
          BY <5>1
      <4>2. g[s] = h[s] /\ g[s \ {Max(s)}] = h[s \ {Max(s)}]
        <5>1. s \ {Max(s)} \in SUBSET (1 .. k) /\ k \notin s \ {Max(s)}
          BY <3>2
        <5>2. QED
          BY <3>2, <5>1
      <4> HIDE DEF g
      <4>3. h[s] = IF s = {} THEN b ELSE retire_dest_register(h[s \ {Max(s)}], q[Max(s)])
        BY <2>1, <4>1
      <4>4. QED
        BY <4>2, <4>3
    <3>3. QED
      BY <3>1, <3>2
  <2>3. g = G
    <3>1. \A s \in SUBSET (1 .. k) : g[s] = G[s]
      BY <2>2
    <3>2. QED
      BY <3>1
  <2> HIDE DEF g
  <2>4. Fits(g, k)
    BY <2>3
  <2> HIDE DEF Fits
  <2>5. QED
    BY <1>1, <2>4
<1>4. \E h : Fits(h, Len(q))
  <2> HIDE DEF S
  <2>1. \A k \in 0 .. Len(q) : k \in S
    BY <1>1, <1>2, <1>3, UpTo
  <2>2. Len(q) \in S
    BY <1>1, <2>1
  <2> USE DEF S
  <2>3. QED
    BY <2>2
<1>5. PICK it : /\ it = [s \in SUBSET DOMAIN q |->
                            IF s = {} THEN b ELSE retire_dest_register(it[s \ {Max(s)}], q[Max(s)])]
                /\ FoldLeft(retire_dest_register, b, q) = it[DOMAIN q]
  BY <1>1, <1>4, Zenon DEF FoldLeft, MapThenFoldSet
<1> DEFINE g == [k \in 0 .. Len(q) |-> it[1 .. k]]
<1>6. g[0] = b /\ g[Len(q)] = it[DOMAIN q]
  <2>1. 1 .. 0 = {} /\ {} \in SUBSET DOMAIN q
    OBVIOUS
  <2>2. it[1 .. 0] = b
    BY <1>5, <2>1
  <2>3. QED
    BY <1>1, <2>2
<1>7. ASSUME NEW k \in 1 .. Len(q)
      PROVE  g[k] = retire_dest_register(g[k - 1], q[k])
  <2>1. /\ Max(1 .. k) = k /\ (1 .. k) \ {k} = 1 .. k - 1 /\ 1 .. k # {}
        /\ 1 .. k \in SUBSET DOMAIN q
    BY <1>1, MaxAtTop
  <2>2. it[1 .. k] = retire_dest_register(it[(1 .. k) \ {Max(1 .. k)}], q[Max(1 .. k)])
    BY <1>5, <2>1
  <2>3. g[k] = it[1 .. k] /\ g[k - 1] = it[1 .. k - 1]
    BY <1>1
  <2>4. QED
    BY <2>1, <2>2, <2>3
<1> HIDE DEF g
<1>8. QED
  BY <1>5, <1>6, <1>7 DEF RetireDestPath

\* The values a fold of RetireInstr passes through.
RetireInstrPath(b, q) ==
    \E g : /\ g[0] = b /\ g[Len(q)] = FoldLeft(RetireOne, b, q)
           /\ \A k \in 1 .. Len(q) : g[k] = RetireOne(g[k - 1], q[k])

LEMMA RetireInstrFold ==
  ASSUME NEW E, NEW q \in Seq(E), NEW b
  PROVE  RetireInstrPath(b, q)
<1> DEFINE Fits(h, n) ==
              h = [s \in SUBSET (1 .. n) |->
                     IF s = {} THEN b ELSE RetireOne(h[s \ {Max(s)}], q[Max(s)])]
           S == {n \in 0 .. Len(q) : \E h : Fits(h, n)}
<1>1. Len(q) \in Nat /\ DOMAIN q = 1 .. Len(q)
  BY LenProperties
<1>2. 0 \in S
  <2> DEFINE h == [s \in SUBSET (1 .. 0) |-> b]
  <2>1. \A s \in SUBSET (1 .. 0) : s = {}
    OBVIOUS
  <2>2. Fits(h, 0)
    BY <2>1
  <2> HIDE DEF h, Fits
  <2>3. QED
    BY <1>1, <2>2
<1>3. ASSUME NEW k \in 1 .. Len(q), k - 1 \in S
      PROVE  k \in S
  <2>1. PICK h : Fits(h, k - 1)
    BY <1>3
  <2> DEFINE g == [s \in SUBSET (1 .. k) |->
                     IF k \in s THEN RetireOne(h[s \ {k}], q[k]) ELSE h[s]]
             G == [s \in SUBSET (1 .. k) |->
                     IF s = {} THEN b ELSE RetireOne(g[s \ {Max(s)}], q[Max(s)])]
  <2>2. ASSUME NEW s \in SUBSET (1 .. k)
        PROVE  g[s] = IF s = {} THEN b ELSE RetireOne(g[s \ {Max(s)}], q[Max(s)])
    <3>1. CASE k \in s
      <4>1. Max(s) = k
        BY <1>1, <3>1, MaxAtTop
      <4>2. g[s \ {k}] = h[s \ {k}] /\ g[s] = RetireOne(h[s \ {k}], q[k])
        BY <3>1
      <4> HIDE DEF g
      <4>3. QED
        BY <3>1, <4>1, <4>2
    <3>2. CASE k \notin s
      <4>1. s \in SUBSET (1 .. k - 1)
        <5>1. \A y \in s : y \in 1 .. k - 1
          BY <1>1, <3>2
        <5>2. QED
          BY <5>1
      <4>2. g[s] = h[s] /\ g[s \ {Max(s)}] = h[s \ {Max(s)}]
        <5>1. s \ {Max(s)} \in SUBSET (1 .. k) /\ k \notin s \ {Max(s)}
          BY <3>2
        <5>2. QED
          BY <3>2, <5>1
      <4> HIDE DEF g
      <4>3. h[s] = IF s = {} THEN b ELSE RetireOne(h[s \ {Max(s)}], q[Max(s)])
        BY <2>1, <4>1
      <4>4. QED
        BY <4>2, <4>3
    <3>3. QED
      BY <3>1, <3>2
  <2>3. g = G
    <3>1. \A s \in SUBSET (1 .. k) : g[s] = G[s]
      BY <2>2
    <3>2. QED
      BY <3>1
  <2> HIDE DEF g
  <2>4. Fits(g, k)
    BY <2>3
  <2> HIDE DEF Fits
  <2>5. QED
    BY <1>1, <2>4
<1>4. \E h : Fits(h, Len(q))
  <2> HIDE DEF S
  <2>1. \A k \in 0 .. Len(q) : k \in S
    BY <1>1, <1>2, <1>3, UpTo
  <2>2. Len(q) \in S
    BY <1>1, <2>1
  <2> USE DEF S
  <2>3. QED
    BY <2>2
<1>5. PICK it : /\ it = [s \in SUBSET DOMAIN q |->
                            IF s = {} THEN b ELSE RetireOne(it[s \ {Max(s)}], q[Max(s)])]
                /\ FoldLeft(RetireOne, b, q) = it[DOMAIN q]
  BY <1>1, <1>4, Zenon DEF FoldLeft, MapThenFoldSet
<1> DEFINE g == [k \in 0 .. Len(q) |-> it[1 .. k]]
<1>6. g[0] = b /\ g[Len(q)] = it[DOMAIN q]
  <2>1. 1 .. 0 = {} /\ {} \in SUBSET DOMAIN q
    OBVIOUS
  <2>2. it[1 .. 0] = b
    BY <1>5, <2>1
  <2>3. QED
    BY <1>1, <2>2
<1>7. ASSUME NEW k \in 1 .. Len(q)
      PROVE  g[k] = RetireOne(g[k - 1], q[k])
  <2>1. /\ Max(1 .. k) = k /\ (1 .. k) \ {k} = 1 .. k - 1 /\ 1 .. k # {}
        /\ 1 .. k \in SUBSET DOMAIN q
    BY <1>1, MaxAtTop
  <2>2. it[1 .. k] = RetireOne(it[(1 .. k) \ {Max(1 .. k)}], q[Max(1 .. k)])
    BY <1>5, <2>1
  <2>3. g[k] = it[1 .. k] /\ g[k - 1] = it[1 .. k - 1]
    BY <1>1
  <2>4. QED
    BY <2>1, <2>2, <2>3
<1> HIDE DEF g
<1>8. QED
  BY <1>5, <1>6, <1>7 DEF RetireInstrPath

\* The values a fold of RenameSrc passes through.
RenameSrcPath(b, q) ==
    \E g : /\ g[0] = b /\ g[Len(q)] = FoldLeft(rename_src_register, b, q)
           /\ \A k \in 1 .. Len(q) : g[k] = rename_src_register(g[k - 1], q[k])

LEMMA RenameSrcFold ==
  ASSUME NEW E, NEW q \in Seq(E), NEW b
  PROVE  RenameSrcPath(b, q)
<1> DEFINE Fits(h, n) ==
              h = [s \in SUBSET (1 .. n) |->
                     IF s = {} THEN b ELSE rename_src_register(h[s \ {Max(s)}], q[Max(s)])]
           S == {n \in 0 .. Len(q) : \E h : Fits(h, n)}
<1>1. Len(q) \in Nat /\ DOMAIN q = 1 .. Len(q)
  BY LenProperties
<1>2. 0 \in S
  <2> DEFINE h == [s \in SUBSET (1 .. 0) |-> b]
  <2>1. \A s \in SUBSET (1 .. 0) : s = {}
    OBVIOUS
  <2>2. Fits(h, 0)
    BY <2>1
  <2> HIDE DEF h, Fits
  <2>3. QED
    BY <1>1, <2>2
<1>3. ASSUME NEW k \in 1 .. Len(q), k - 1 \in S
      PROVE  k \in S
  <2>1. PICK h : Fits(h, k - 1)
    BY <1>3
  <2> DEFINE g == [s \in SUBSET (1 .. k) |->
                     IF k \in s THEN rename_src_register(h[s \ {k}], q[k]) ELSE h[s]]
             G == [s \in SUBSET (1 .. k) |->
                     IF s = {} THEN b ELSE rename_src_register(g[s \ {Max(s)}], q[Max(s)])]
  <2>2. ASSUME NEW s \in SUBSET (1 .. k)
        PROVE  g[s] = IF s = {} THEN b ELSE rename_src_register(g[s \ {Max(s)}], q[Max(s)])
    <3>1. CASE k \in s
      <4>1. Max(s) = k
        BY <1>1, <3>1, MaxAtTop
      <4>2. g[s \ {k}] = h[s \ {k}] /\ g[s] = rename_src_register(h[s \ {k}], q[k])
        BY <3>1
      <4> HIDE DEF g
      <4>3. QED
        BY <3>1, <4>1, <4>2
    <3>2. CASE k \notin s
      <4>1. s \in SUBSET (1 .. k - 1)
        <5>1. \A y \in s : y \in 1 .. k - 1
          BY <1>1, <3>2
        <5>2. QED
          BY <5>1
      <4>2. g[s] = h[s] /\ g[s \ {Max(s)}] = h[s \ {Max(s)}]
        <5>1. s \ {Max(s)} \in SUBSET (1 .. k) /\ k \notin s \ {Max(s)}
          BY <3>2
        <5>2. QED
          BY <3>2, <5>1
      <4> HIDE DEF g
      <4>3. h[s] = IF s = {} THEN b ELSE rename_src_register(h[s \ {Max(s)}], q[Max(s)])
        BY <2>1, <4>1
      <4>4. QED
        BY <4>2, <4>3
    <3>3. QED
      BY <3>1, <3>2
  <2>3. g = G
    <3>1. \A s \in SUBSET (1 .. k) : g[s] = G[s]
      BY <2>2
    <3>2. QED
      BY <3>1
  <2> HIDE DEF g
  <2>4. Fits(g, k)
    BY <2>3
  <2> HIDE DEF Fits
  <2>5. QED
    BY <1>1, <2>4
<1>4. \E h : Fits(h, Len(q))
  <2> HIDE DEF S
  <2>1. \A k \in 0 .. Len(q) : k \in S
    BY <1>1, <1>2, <1>3, UpTo
  <2>2. Len(q) \in S
    BY <1>1, <2>1
  <2> USE DEF S
  <2>3. QED
    BY <2>2
<1>5. PICK it : /\ it = [s \in SUBSET DOMAIN q |->
                            IF s = {} THEN b ELSE rename_src_register(it[s \ {Max(s)}], q[Max(s)])]
                /\ FoldLeft(rename_src_register, b, q) = it[DOMAIN q]
  BY <1>1, <1>4, Zenon DEF FoldLeft, MapThenFoldSet
<1> DEFINE g == [k \in 0 .. Len(q) |-> it[1 .. k]]
<1>6. g[0] = b /\ g[Len(q)] = it[DOMAIN q]
  <2>1. 1 .. 0 = {} /\ {} \in SUBSET DOMAIN q
    OBVIOUS
  <2>2. it[1 .. 0] = b
    BY <1>5, <2>1
  <2>3. QED
    BY <1>1, <2>2
<1>7. ASSUME NEW k \in 1 .. Len(q)
      PROVE  g[k] = rename_src_register(g[k - 1], q[k])
  <2>1. /\ Max(1 .. k) = k /\ (1 .. k) \ {k} = 1 .. k - 1 /\ 1 .. k # {}
        /\ 1 .. k \in SUBSET DOMAIN q
    BY <1>1, MaxAtTop
  <2>2. it[1 .. k] = rename_src_register(it[(1 .. k) \ {Max(1 .. k)}], q[Max(1 .. k)])
    BY <1>5, <2>1
  <2>3. g[k] = it[1 .. k] /\ g[k - 1] = it[1 .. k - 1]
    BY <1>1
  <2>4. QED
    BY <2>1, <2>2, <2>3
<1> HIDE DEF g
<1>8. QED
  BY <1>5, <1>6, <1>7 DEF RenameSrcPath

\* The values a fold of RenameDst passes through.
RenameDstPath(b, q, id) ==
    \E g : /\ g[0] = b /\ g[Len(q)] = FoldLeft(LAMBDA x, reg : rename_dest_register(x, reg, id), b, q)
           /\ \A k \in 1 .. Len(q) : g[k] = rename_dest_register(g[k - 1], q[k], id)

LEMMA RenameDstFold ==
  ASSUME NEW E, NEW q \in Seq(E), NEW b, NEW id
  PROVE  RenameDstPath(b, q, id)
<1> DEFINE Fits(h, n) ==
              h = [s \in SUBSET (1 .. n) |->
                     IF s = {} THEN b ELSE rename_dest_register(h[s \ {Max(s)}], q[Max(s)], id)]
           S == {n \in 0 .. Len(q) : \E h : Fits(h, n)}
<1>1. Len(q) \in Nat /\ DOMAIN q = 1 .. Len(q)
  BY LenProperties
<1>2. 0 \in S
  <2> DEFINE h == [s \in SUBSET (1 .. 0) |-> b]
  <2>1. \A s \in SUBSET (1 .. 0) : s = {}
    OBVIOUS
  <2>2. Fits(h, 0)
    BY <2>1
  <2> HIDE DEF h, Fits
  <2>3. QED
    BY <1>1, <2>2
<1>3. ASSUME NEW k \in 1 .. Len(q), k - 1 \in S
      PROVE  k \in S
  <2>1. PICK h : Fits(h, k - 1)
    BY <1>3
  <2> DEFINE g == [s \in SUBSET (1 .. k) |->
                     IF k \in s THEN rename_dest_register(h[s \ {k}], q[k], id) ELSE h[s]]
             G == [s \in SUBSET (1 .. k) |->
                     IF s = {} THEN b ELSE rename_dest_register(g[s \ {Max(s)}], q[Max(s)], id)]
  <2>2. ASSUME NEW s \in SUBSET (1 .. k)
        PROVE  g[s] = IF s = {} THEN b ELSE rename_dest_register(g[s \ {Max(s)}], q[Max(s)], id)
    <3>1. CASE k \in s
      <4>1. Max(s) = k
        BY <1>1, <3>1, MaxAtTop
      <4>2. g[s \ {k}] = h[s \ {k}] /\ g[s] = rename_dest_register(h[s \ {k}], q[k], id)
        BY <3>1
      <4> HIDE DEF g
      <4>3. QED
        BY <3>1, <4>1, <4>2
    <3>2. CASE k \notin s
      <4>1. s \in SUBSET (1 .. k - 1)
        <5>1. \A y \in s : y \in 1 .. k - 1
          BY <1>1, <3>2
        <5>2. QED
          BY <5>1
      <4>2. g[s] = h[s] /\ g[s \ {Max(s)}] = h[s \ {Max(s)}]
        <5>1. s \ {Max(s)} \in SUBSET (1 .. k) /\ k \notin s \ {Max(s)}
          BY <3>2
        <5>2. QED
          BY <3>2, <5>1
      <4> HIDE DEF g
      <4>3. h[s] = IF s = {} THEN b ELSE rename_dest_register(h[s \ {Max(s)}], q[Max(s)], id)
        BY <2>1, <4>1
      <4>4. QED
        BY <4>2, <4>3
    <3>3. QED
      BY <3>1, <3>2
  <2>3. g = G
    <3>1. \A s \in SUBSET (1 .. k) : g[s] = G[s]
      BY <2>2
    <3>2. QED
      BY <3>1
  <2> HIDE DEF g
  <2>4. Fits(g, k)
    BY <2>3
  <2> HIDE DEF Fits
  <2>5. QED
    BY <1>1, <2>4
<1>4. \E h : Fits(h, Len(q))
  <2> HIDE DEF S
  <2>1. \A k \in 0 .. Len(q) : k \in S
    BY <1>1, <1>2, <1>3, UpTo
  <2>2. Len(q) \in S
    BY <1>1, <2>1
  <2> USE DEF S
  <2>3. QED
    BY <2>2
<1>5. PICK it : /\ it = [s \in SUBSET DOMAIN q |->
                            IF s = {} THEN b ELSE rename_dest_register(it[s \ {Max(s)}], q[Max(s)], id)]
                /\ FoldLeft(LAMBDA x, reg : rename_dest_register(x, reg, id), b, q) = it[DOMAIN q]
  BY <1>1, <1>4, Zenon DEF FoldLeft, MapThenFoldSet
<1> DEFINE g == [k \in 0 .. Len(q) |-> it[1 .. k]]
<1>6. g[0] = b /\ g[Len(q)] = it[DOMAIN q]
  <2>1. 1 .. 0 = {} /\ {} \in SUBSET DOMAIN q
    OBVIOUS
  <2>2. it[1 .. 0] = b
    BY <1>5, <2>1
  <2>3. QED
    BY <1>1, <2>2
<1>7. ASSUME NEW k \in 1 .. Len(q)
      PROVE  g[k] = rename_dest_register(g[k - 1], q[k], id)
  <2>1. /\ Max(1 .. k) = k /\ (1 .. k) \ {k} = 1 .. k - 1 /\ 1 .. k # {}
        /\ 1 .. k \in SUBSET DOMAIN q
    BY <1>1, MaxAtTop
  <2>2. it[1 .. k] = rename_dest_register(it[(1 .. k) \ {Max(1 .. k)}], q[Max(1 .. k)], id)
    BY <1>5, <2>1
  <2>3. g[k] = it[1 .. k] /\ g[k - 1] = it[1 .. k - 1]
    BY <1>1
  <2>4. QED
    BY <2>1, <2>2, <2>3
<1> HIDE DEF g
<1>8. QED
  BY <1>5, <1>6, <1>7 DEF RenameDstPath

\* The values a fold of Schedule passes through.
SchedulePath(b, q) ==
    \E g : /\ g[0] = b /\ g[Len(q)] = FoldLeft(ScheduleOne, b, q)
           /\ \A k \in 1 .. Len(q) : g[k] = ScheduleOne(g[k - 1], q[k])

LEMMA ScheduleFold ==
  ASSUME NEW E, NEW q \in Seq(E), NEW b
  PROVE  SchedulePath(b, q)
<1> DEFINE Fits(h, n) ==
              h = [s \in SUBSET (1 .. n) |->
                     IF s = {} THEN b ELSE ScheduleOne(h[s \ {Max(s)}], q[Max(s)])]
           S == {n \in 0 .. Len(q) : \E h : Fits(h, n)}
<1>1. Len(q) \in Nat /\ DOMAIN q = 1 .. Len(q)
  BY LenProperties
<1>2. 0 \in S
  <2> DEFINE h == [s \in SUBSET (1 .. 0) |-> b]
  <2>1. \A s \in SUBSET (1 .. 0) : s = {}
    OBVIOUS
  <2>2. Fits(h, 0)
    BY <2>1
  <2> HIDE DEF h, Fits
  <2>3. QED
    BY <1>1, <2>2
<1>3. ASSUME NEW k \in 1 .. Len(q), k - 1 \in S
      PROVE  k \in S
  <2>1. PICK h : Fits(h, k - 1)
    BY <1>3
  <2> DEFINE g == [s \in SUBSET (1 .. k) |->
                     IF k \in s THEN ScheduleOne(h[s \ {k}], q[k]) ELSE h[s]]
             G == [s \in SUBSET (1 .. k) |->
                     IF s = {} THEN b ELSE ScheduleOne(g[s \ {Max(s)}], q[Max(s)])]
  <2>2. ASSUME NEW s \in SUBSET (1 .. k)
        PROVE  g[s] = IF s = {} THEN b ELSE ScheduleOne(g[s \ {Max(s)}], q[Max(s)])
    <3>1. CASE k \in s
      <4>1. Max(s) = k
        BY <1>1, <3>1, MaxAtTop
      <4>2. g[s \ {k}] = h[s \ {k}] /\ g[s] = ScheduleOne(h[s \ {k}], q[k])
        BY <3>1
      <4> HIDE DEF g
      <4>3. QED
        BY <3>1, <4>1, <4>2
    <3>2. CASE k \notin s
      <4>1. s \in SUBSET (1 .. k - 1)
        <5>1. \A y \in s : y \in 1 .. k - 1
          BY <1>1, <3>2
        <5>2. QED
          BY <5>1
      <4>2. g[s] = h[s] /\ g[s \ {Max(s)}] = h[s \ {Max(s)}]
        <5>1. s \ {Max(s)} \in SUBSET (1 .. k) /\ k \notin s \ {Max(s)}
          BY <3>2
        <5>2. QED
          BY <3>2, <5>1
      <4> HIDE DEF g
      <4>3. h[s] = IF s = {} THEN b ELSE ScheduleOne(h[s \ {Max(s)}], q[Max(s)])
        BY <2>1, <4>1
      <4>4. QED
        BY <4>2, <4>3
    <3>3. QED
      BY <3>1, <3>2
  <2>3. g = G
    <3>1. \A s \in SUBSET (1 .. k) : g[s] = G[s]
      BY <2>2
    <3>2. QED
      BY <3>1
  <2> HIDE DEF g
  <2>4. Fits(g, k)
    BY <2>3
  <2> HIDE DEF Fits
  <2>5. QED
    BY <1>1, <2>4
<1>4. \E h : Fits(h, Len(q))
  <2> HIDE DEF S
  <2>1. \A k \in 0 .. Len(q) : k \in S
    BY <1>1, <1>2, <1>3, UpTo
  <2>2. Len(q) \in S
    BY <1>1, <2>1
  <2> USE DEF S
  <2>3. QED
    BY <2>2
<1>5. PICK it : /\ it = [s \in SUBSET DOMAIN q |->
                            IF s = {} THEN b ELSE ScheduleOne(it[s \ {Max(s)}], q[Max(s)])]
                /\ FoldLeft(ScheduleOne, b, q) = it[DOMAIN q]
  BY <1>1, <1>4, Zenon DEF FoldLeft, MapThenFoldSet
<1> DEFINE g == [k \in 0 .. Len(q) |-> it[1 .. k]]
<1>6. g[0] = b /\ g[Len(q)] = it[DOMAIN q]
  <2>1. 1 .. 0 = {} /\ {} \in SUBSET DOMAIN q
    OBVIOUS
  <2>2. it[1 .. 0] = b
    BY <1>5, <2>1
  <2>3. QED
    BY <1>1, <2>2
<1>7. ASSUME NEW k \in 1 .. Len(q)
      PROVE  g[k] = ScheduleOne(g[k - 1], q[k])
  <2>1. /\ Max(1 .. k) = k /\ (1 .. k) \ {k} = 1 .. k - 1 /\ 1 .. k # {}
        /\ 1 .. k \in SUBSET DOMAIN q
    BY <1>1, MaxAtTop
  <2>2. it[1 .. k] = ScheduleOne(it[(1 .. k) \ {Max(1 .. k)}], q[Max(1 .. k)])
    BY <1>5, <2>1
  <2>3. g[k] = it[1 .. k] /\ g[k - 1] = it[1 .. k - 1]
    BY <1>1
  <2>4. QED
    BY <2>1, <2>2, <2>3
<1> HIDE DEF g
<1>8. QED
  BY <1>5, <1>6, <1>7 DEF SchedulePath

\* The values a fold of AddLoad passes through.
AddLoadPath(b, q) ==
    \E g : /\ g[0] = b /\ g[Len(q)] = FoldLeft(AddLoad, b, q)
           /\ \A k \in 1 .. Len(q) : g[k] = AddLoad(g[k - 1], q[k])

LEMMA AddLoadFold ==
  ASSUME NEW E, NEW q \in Seq(E), NEW b
  PROVE  AddLoadPath(b, q)
<1> DEFINE Fits(h, n) ==
              h = [s \in SUBSET (1 .. n) |->
                     IF s = {} THEN b ELSE AddLoad(h[s \ {Max(s)}], q[Max(s)])]
           S == {n \in 0 .. Len(q) : \E h : Fits(h, n)}
<1>1. Len(q) \in Nat /\ DOMAIN q = 1 .. Len(q)
  BY LenProperties
<1>2. 0 \in S
  <2> DEFINE h == [s \in SUBSET (1 .. 0) |-> b]
  <2>1. \A s \in SUBSET (1 .. 0) : s = {}
    OBVIOUS
  <2>2. Fits(h, 0)
    BY <2>1
  <2> HIDE DEF h, Fits
  <2>3. QED
    BY <1>1, <2>2
<1>3. ASSUME NEW k \in 1 .. Len(q), k - 1 \in S
      PROVE  k \in S
  <2>1. PICK h : Fits(h, k - 1)
    BY <1>3
  <2> DEFINE g == [s \in SUBSET (1 .. k) |->
                     IF k \in s THEN AddLoad(h[s \ {k}], q[k]) ELSE h[s]]
             G == [s \in SUBSET (1 .. k) |->
                     IF s = {} THEN b ELSE AddLoad(g[s \ {Max(s)}], q[Max(s)])]
  <2>2. ASSUME NEW s \in SUBSET (1 .. k)
        PROVE  g[s] = IF s = {} THEN b ELSE AddLoad(g[s \ {Max(s)}], q[Max(s)])
    <3>1. CASE k \in s
      <4>1. Max(s) = k
        BY <1>1, <3>1, MaxAtTop
      <4>2. g[s \ {k}] = h[s \ {k}] /\ g[s] = AddLoad(h[s \ {k}], q[k])
        BY <3>1
      <4> HIDE DEF g
      <4>3. QED
        BY <3>1, <4>1, <4>2
    <3>2. CASE k \notin s
      <4>1. s \in SUBSET (1 .. k - 1)
        <5>1. \A y \in s : y \in 1 .. k - 1
          BY <1>1, <3>2
        <5>2. QED
          BY <5>1
      <4>2. g[s] = h[s] /\ g[s \ {Max(s)}] = h[s \ {Max(s)}]
        <5>1. s \ {Max(s)} \in SUBSET (1 .. k) /\ k \notin s \ {Max(s)}
          BY <3>2
        <5>2. QED
          BY <3>2, <5>1
      <4> HIDE DEF g
      <4>3. h[s] = IF s = {} THEN b ELSE AddLoad(h[s \ {Max(s)}], q[Max(s)])
        BY <2>1, <4>1
      <4>4. QED
        BY <4>2, <4>3
    <3>3. QED
      BY <3>1, <3>2
  <2>3. g = G
    <3>1. \A s \in SUBSET (1 .. k) : g[s] = G[s]
      BY <2>2
    <3>2. QED
      BY <3>1
  <2> HIDE DEF g
  <2>4. Fits(g, k)
    BY <2>3
  <2> HIDE DEF Fits
  <2>5. QED
    BY <1>1, <2>4
<1>4. \E h : Fits(h, Len(q))
  <2> HIDE DEF S
  <2>1. \A k \in 0 .. Len(q) : k \in S
    BY <1>1, <1>2, <1>3, UpTo
  <2>2. Len(q) \in S
    BY <1>1, <2>1
  <2> USE DEF S
  <2>3. QED
    BY <2>2
<1>5. PICK it : /\ it = [s \in SUBSET DOMAIN q |->
                            IF s = {} THEN b ELSE AddLoad(it[s \ {Max(s)}], q[Max(s)])]
                /\ FoldLeft(AddLoad, b, q) = it[DOMAIN q]
  BY <1>1, <1>4, Zenon DEF FoldLeft, MapThenFoldSet
<1> DEFINE g == [k \in 0 .. Len(q) |-> it[1 .. k]]
<1>6. g[0] = b /\ g[Len(q)] = it[DOMAIN q]
  <2>1. 1 .. 0 = {} /\ {} \in SUBSET DOMAIN q
    OBVIOUS
  <2>2. it[1 .. 0] = b
    BY <1>5, <2>1
  <2>3. QED
    BY <1>1, <2>2
<1>7. ASSUME NEW k \in 1 .. Len(q)
      PROVE  g[k] = AddLoad(g[k - 1], q[k])
  <2>1. /\ Max(1 .. k) = k /\ (1 .. k) \ {k} = 1 .. k - 1 /\ 1 .. k # {}
        /\ 1 .. k \in SUBSET DOMAIN q
    BY <1>1, MaxAtTop
  <2>2. it[1 .. k] = AddLoad(it[(1 .. k) \ {Max(1 .. k)}], q[Max(1 .. k)])
    BY <1>5, <2>1
  <2>3. g[k] = it[1 .. k] /\ g[k - 1] = it[1 .. k - 1]
    BY <1>1
  <2>4. QED
    BY <2>1, <2>2, <2>3
<1> HIDE DEF g
<1>8. QED
  BY <1>5, <1>6, <1>7 DEF AddLoadPath

\* The values a fold of Dispatch passes through.
DispatchPath(b, q) ==
    \E g : /\ g[0] = b /\ g[Len(q)] = FoldLeft(DispatchOne, b, q)
           /\ \A k \in 1 .. Len(q) : g[k] = DispatchOne(g[k - 1], q[k])

LEMMA DispatchFold ==
  ASSUME NEW E, NEW q \in Seq(E), NEW b
  PROVE  DispatchPath(b, q)
<1> DEFINE Fits(h, n) ==
              h = [s \in SUBSET (1 .. n) |->
                     IF s = {} THEN b ELSE DispatchOne(h[s \ {Max(s)}], q[Max(s)])]
           S == {n \in 0 .. Len(q) : \E h : Fits(h, n)}
<1>1. Len(q) \in Nat /\ DOMAIN q = 1 .. Len(q)
  BY LenProperties
<1>2. 0 \in S
  <2> DEFINE h == [s \in SUBSET (1 .. 0) |-> b]
  <2>1. \A s \in SUBSET (1 .. 0) : s = {}
    OBVIOUS
  <2>2. Fits(h, 0)
    BY <2>1
  <2> HIDE DEF h, Fits
  <2>3. QED
    BY <1>1, <2>2
<1>3. ASSUME NEW k \in 1 .. Len(q), k - 1 \in S
      PROVE  k \in S
  <2>1. PICK h : Fits(h, k - 1)
    BY <1>3
  <2> DEFINE g == [s \in SUBSET (1 .. k) |->
                     IF k \in s THEN DispatchOne(h[s \ {k}], q[k]) ELSE h[s]]
             G == [s \in SUBSET (1 .. k) |->
                     IF s = {} THEN b ELSE DispatchOne(g[s \ {Max(s)}], q[Max(s)])]
  <2>2. ASSUME NEW s \in SUBSET (1 .. k)
        PROVE  g[s] = IF s = {} THEN b ELSE DispatchOne(g[s \ {Max(s)}], q[Max(s)])
    <3>1. CASE k \in s
      <4>1. Max(s) = k
        BY <1>1, <3>1, MaxAtTop
      <4>2. g[s \ {k}] = h[s \ {k}] /\ g[s] = DispatchOne(h[s \ {k}], q[k])
        BY <3>1
      <4> HIDE DEF g
      <4>3. QED
        BY <3>1, <4>1, <4>2
    <3>2. CASE k \notin s
      <4>1. s \in SUBSET (1 .. k - 1)
        <5>1. \A y \in s : y \in 1 .. k - 1
          BY <1>1, <3>2
        <5>2. QED
          BY <5>1
      <4>2. g[s] = h[s] /\ g[s \ {Max(s)}] = h[s \ {Max(s)}]
        <5>1. s \ {Max(s)} \in SUBSET (1 .. k) /\ k \notin s \ {Max(s)}
          BY <3>2
        <5>2. QED
          BY <3>2, <5>1
      <4> HIDE DEF g
      <4>3. h[s] = IF s = {} THEN b ELSE DispatchOne(h[s \ {Max(s)}], q[Max(s)])
        BY <2>1, <4>1
      <4>4. QED
        BY <4>2, <4>3
    <3>3. QED
      BY <3>1, <3>2
  <2>3. g = G
    <3>1. \A s \in SUBSET (1 .. k) : g[s] = G[s]
      BY <2>2
    <3>2. QED
      BY <3>1
  <2> HIDE DEF g
  <2>4. Fits(g, k)
    BY <2>3
  <2> HIDE DEF Fits
  <2>5. QED
    BY <1>1, <2>4
<1>4. \E h : Fits(h, Len(q))
  <2> HIDE DEF S
  <2>1. \A k \in 0 .. Len(q) : k \in S
    BY <1>1, <1>2, <1>3, UpTo
  <2>2. Len(q) \in S
    BY <1>1, <2>1
  <2> USE DEF S
  <2>3. QED
    BY <2>2
<1>5. PICK it : /\ it = [s \in SUBSET DOMAIN q |->
                            IF s = {} THEN b ELSE DispatchOne(it[s \ {Max(s)}], q[Max(s)])]
                /\ FoldLeft(DispatchOne, b, q) = it[DOMAIN q]
  BY <1>1, <1>4, Zenon DEF FoldLeft, MapThenFoldSet
<1> DEFINE g == [k \in 0 .. Len(q) |-> it[1 .. k]]
<1>6. g[0] = b /\ g[Len(q)] = it[DOMAIN q]
  <2>1. 1 .. 0 = {} /\ {} \in SUBSET DOMAIN q
    OBVIOUS
  <2>2. it[1 .. 0] = b
    BY <1>5, <2>1
  <2>3. QED
    BY <1>1, <2>2
<1>7. ASSUME NEW k \in 1 .. Len(q)
      PROVE  g[k] = DispatchOne(g[k - 1], q[k])
  <2>1. /\ Max(1 .. k) = k /\ (1 .. k) \ {k} = 1 .. k - 1 /\ 1 .. k # {}
        /\ 1 .. k \in SUBSET DOMAIN q
    BY <1>1, MaxAtTop
  <2>2. it[1 .. k] = DispatchOne(it[(1 .. k) \ {Max(1 .. k)}], q[Max(1 .. k)])
    BY <1>5, <2>1
  <2>3. g[k] = it[1 .. k] /\ g[k - 1] = it[1 .. k - 1]
    BY <1>1
  <2>4. QED
    BY <2>1, <2>2, <2>3
<1> HIDE DEF g
<1>8. QED
  BY <1>5, <1>6, <1>7 DEF DispatchPath

-----------------------------------------------------------------------------
(* The memory operations of the instructions in flight. *)

\* What the invariant says of the loads and stores does not depend on times, nor
\* on which of the loads that wait for none have been issued.
LEMMA MemAlike ==
  ASSUME NEW prog, NEW base, NEW rob, NEW lq, NEW sq, NEW rob2, NEW lq2, NEW sq2,
         MemInv(prog, base, rob, lq, sq),
         DOMAIN rob2 = DOMAIN rob, Len(rob2) = Len(rob),
         \A i \in DOMAIN rob :
            /\ rob2[i].id = rob[i].id /\ rob2[i].memops = rob[i].memops
            /\ rob2[i].completed => rob[i].completed \/ rob[i].memops = Ops(prog, rob[i].id),
         DOMAIN lq2 = DOMAIN lq,
         \A s \in DOMAIN lq :
            /\ lq2[s] = NoEntry <=> lq[s] = NoEntry
            /\ lq2[s] # NoEntry => /\ lq2[s].id = lq[s].id /\ lq2[s].addr = lq[s].addr
                                   /\ lq2[s].producer = lq[s].producer
                                   /\ lq2[s].issued => lq[s].issued \/ lq[s].producer = Never,
         DOMAIN sq2 = DOMAIN sq,
         \A j \in DOMAIN sq :
            /\ sq2[j].id = sq[j].id /\ sq2[j].addr = sq[j].addr
            /\ sq2[j].issued = sq[j].issued /\ sq2[j].waiters = sq[j].waiters
  PROVE  MemInv(prog, base, rob2, lq2, sq2)
<1>1. /\ base + Len(rob) <= Len(prog)
      /\ \A i \in DOMAIN rob : rob[i].id = base + i
      /\ \A i \in DOMAIN rob :
            /\ rob[i].memops + Cardinality(LoadsFor(lq, base + i)) + Cardinality(StoresFor(sq, base + i))
               = Ops(prog, base + i)
            /\ rob[i].completed => rob[i].memops = Ops(prog, base + i)
      /\ \A s \in DOMAIN lq : lq[s] # NoEntry => lq[s].id \in base + 1 .. base + Len(rob)
      /\ \A j \in DOMAIN sq : sq[j].id \in 1 .. base + Len(rob) /\ (sq[j].id <= base => sq[j].issued)
      /\ StoresOrdered(sq) /\ LoadsWait(lq, sq) /\ StoresKnow(lq, sq)
  BY DEF MemInv
<1>2. \A id : LoadsFor(lq2, id) = LoadsFor(lq, id) /\ StoresFor(sq2, id) = StoresFor(sq, id)
  BY DEF LoadsFor, StoresFor
<1>3. \A i \in DOMAIN rob2 :
         /\ rob2[i].id = base + i
         /\ rob2[i].memops + Cardinality(LoadsFor(lq2, base + i)) + Cardinality(StoresFor(sq2, base + i))
            = Ops(prog, base + i)
         /\ rob2[i].completed => rob2[i].memops = Ops(prog, base + i)
  BY <1>1, <1>2
<1>4. StoresOrdered(sq2)
  BY <1>1 DEF StoresOrdered
<1>5. LoadsWait(lq2, sq2)
  <2> SUFFICES ASSUME NEW s \in DOMAIN lq, lq2[s] # NoEntry
               PROVE  /\ \A i \in DOMAIN sq2 :
                            (sq2[i].addr = lq2[s].addr /\ sq2[i].id < lq2[s].id /\ ~sq2[i].issued)
                               => lq2[s].producer \in sq2[i].id .. lq2[s].id - 1
                      /\ lq2[s].producer # Never =>
                            /\ ~lq2[s].issued
                            /\ \E i \in DOMAIN sq2 :
                                  /\ sq2[i].id = lq2[s].producer /\ ~sq2[i].issued
                                  /\ sq2[i].addr = lq2[s].addr /\ s \in sq2[i].waiters
    BY DEF LoadsWait
  <2>1. /\ \A i \in DOMAIN sq :
              (sq[i].addr = lq[s].addr /\ sq[i].id < lq[s].id /\ ~sq[i].issued)
                 => lq[s].producer \in sq[i].id .. lq[s].id - 1
        /\ lq[s].producer # Never =>
              /\ ~lq[s].issued
              /\ \E i \in DOMAIN sq : /\ sq[i].id = lq[s].producer /\ ~sq[i].issued
                                      /\ sq[i].addr = lq[s].addr /\ s \in sq[i].waiters
    BY <1>1 DEF LoadsWait
  <2>2. /\ lq2[s].id = lq[s].id /\ lq2[s].addr = lq[s].addr /\ lq2[s].producer = lq[s].producer
        /\ lq2[s].issued => lq[s].issued \/ lq[s].producer = Never
    OBVIOUS
  <2>3. QED
    BY <2>1, <2>2
<1>6. StoresKnow(lq2, sq2)
  <2> SUFFICES ASSUME NEW i \in DOMAIN sq, ~sq2[i].issued, NEW s \in sq2[i].waiters
               PROVE  /\ s \in DOMAIN lq2 /\ lq2[s] # NoEntry /\ lq2[s].producer = sq2[i].id
                      /\ \A j \in DOMAIN sq2 : j # i /\ ~sq2[j].issued => s \notin sq2[j].waiters
    BY DEF StoresKnow
  <2>1. ~sq[i].issued /\ s \in sq[i].waiters
    OBVIOUS
  <2>2. /\ s \in DOMAIN lq /\ lq[s] # NoEntry /\ lq[s].producer = sq[i].id
        /\ \A j \in DOMAIN sq : j # i /\ ~sq[j].issued => s \notin sq[j].waiters
    BY <1>1, <2>1 DEF StoresKnow
  <2>3. QED
    BY <2>1, <2>2
<1>7. /\ \A s \in DOMAIN lq2 : lq2[s] # NoEntry => lq2[s].id \in base + 1 .. base + Len(rob2)
      /\ \A j \in DOMAIN sq2 : /\ sq2[j].id \in 1 .. base + Len(rob2)
                               /\ sq2[j].id <= base => sq2[j].issued
  BY <1>1
<1>8. QED
  BY <1>1, <1>3, <1>4, <1>5, <1>6, <1>7 DEF MemInv

\* What is in the queues is finite.
LEMMA QueuesFinite ==
  ASSUME NEW N \in Nat, NEW lq \in [1 .. N -> Slot], NEW T, NEW sq \in Seq(T), NEW id
  PROVE  /\ IsFiniteSet(LoadsFor(lq, id)) /\ IsFiniteSet(StoresFor(sq, id))
         /\ Cardinality(LoadsFor(lq, id)) \in Nat /\ Cardinality(StoresFor(sq, id)) \in Nat
         /\ Cardinality(LoadsFor(lq, id)) = 0 => LoadsFor(lq, id) = {}
         /\ Cardinality(StoresFor(sq, id)) = 0 => StoresFor(sq, id) = {}
<1>1. IsFiniteSet(1 .. N) /\ IsFiniteSet(1 .. Len(sq)) /\ DOMAIN sq = 1 .. Len(sq)
  BY FirstNumbers, LenProperties
<1>2. LoadsFor(lq, id) \subseteq 1 .. N /\ StoresFor(sq, id) \subseteq 1 .. Len(sq)
  BY <1>1 DEF LoadsFor, StoresFor
<1>3. IsFiniteSet(LoadsFor(lq, id)) /\ IsFiniteSet(StoresFor(sq, id))
  BY <1>1, <1>2, FS_Subset
<1>4. QED
  BY <1>3, FS_CardinalityType, FS_EmptySet

\* Instructions that are complete have nothing left in the queues: they may leave.
LEMMA MemRetire ==
  ASSUME NEW prog, NEW base \in Nat, NEW rob \in Seq(Entry), NEW N \in Nat,
         NEW lq \in [1 .. N -> Slot], NEW sq \in Seq(Store(N)),
         MemInv(prog, base, rob, lq, sq),
         NEW n \in 0 .. Len(rob), \A i \in 1 .. n : rob[i].completed
  PROVE  MemInv(prog, base + n, SubSeq(rob, n + 1, Len(rob)), lq, sq)
<1> DEFINE rob2 == SubSeq(rob, n + 1, Len(rob))
<1>1. /\ base + Len(rob) <= Len(prog)
      /\ \A i \in DOMAIN rob : rob[i].id = base + i
      /\ \A i \in DOMAIN rob :
            /\ rob[i].memops + Cardinality(LoadsFor(lq, base + i)) + Cardinality(StoresFor(sq, base + i))
               = Ops(prog, base + i)
            /\ rob[i].completed => rob[i].memops = Ops(prog, base + i)
      /\ \A s \in DOMAIN lq : lq[s] # NoEntry => lq[s].id \in base + 1 .. base + Len(rob)
      /\ \A j \in DOMAIN sq : sq[j].id \in 1 .. base + Len(rob) /\ (sq[j].id <= base => sq[j].issued)
      /\ StoresOrdered(sq) /\ LoadsWait(lq, sq) /\ StoresKnow(lq, sq)
  BY DEF MemInv
<1>2. /\ Len(rob) \in Nat /\ DOMAIN rob = 1 .. Len(rob)
      /\ \A i \in DOMAIN rob : rob[i] \in Entry
  BY LenProperties, ElementOfSeq
<1>3. /\ rob2 \in Seq(Entry) /\ Len(rob2) = Len(rob) - n
      /\ DOMAIN rob2 = 1 .. Len(rob) - n
      /\ \A i \in 1 .. Len(rob) - n : rob2[i] = rob[n + i]
  <2>1. /\ rob2 \in Seq(Entry) /\ Len(rob2) = Len(rob) - n
        /\ \A i \in 1 .. Len(rob) - n : rob2[i] = rob[n + i]
    BY CountSplit
  <2>2. QED
    BY <2>1, LenProperties
<1> HIDE DEF rob2
<1>4. \A i \in 1 .. n : LoadsFor(lq, base + i) = {} /\ StoresFor(sq, base + i) = {}
  <2> SUFFICES ASSUME NEW i \in 1 .. n
               PROVE  LoadsFor(lq, base + i) = {} /\ StoresFor(sq, base + i) = {}
    OBVIOUS
  <2>1. i \in DOMAIN rob /\ rob[i].completed /\ rob[i].memops \in Nat
    <3>1. i \in DOMAIN rob
      BY <1>2
    <3>2. rob[i] \in Entry
      BY <1>2, <3>1
    <3>3. rob[i].memops \in Nat
      BY <3>2 DEF Entry
    <3>4. QED
      BY <3>1, <3>3
  <2>2. /\ rob[i].memops + Cardinality(LoadsFor(lq, base + i)) + Cardinality(StoresFor(sq, base + i))
           = rob[i].memops
    BY <1>1, <2>1
  <2>3. /\ Cardinality(LoadsFor(lq, base + i)) \in Nat
        /\ Cardinality(StoresFor(sq, base + i)) \in Nat
        /\ Cardinality(LoadsFor(lq, base + i)) = 0 => LoadsFor(lq, base + i) = {}
        /\ Cardinality(StoresFor(sq, base + i)) = 0 => StoresFor(sq, base + i) = {}
    BY QueuesFinite
  <2>4. QED
    BY <2>1, <2>2, <2>3
<1>5. \A s \in DOMAIN lq : lq[s] # NoEntry => lq[s].id \in base + n + 1 .. base + n + Len(rob2)
  <2> SUFFICES ASSUME NEW s \in DOMAIN lq, lq[s] # NoEntry
               PROVE  lq[s].id \in base + n + 1 .. base + n + Len(rob2)
    OBVIOUS
  <2>1. lq[s].id \in base + 1 .. base + Len(rob)
    BY <1>1
  <2>2. ~(lq[s].id \in base + 1 .. base + n)
    <3> SUFFICES ASSUME lq[s].id \in base + 1 .. base + n PROVE FALSE
      OBVIOUS
    <3>1. lq[s].id - base \in 1 .. n /\ base + (lq[s].id - base) = lq[s].id
      OBVIOUS
    <3>2. s \in LoadsFor(lq, base + (lq[s].id - base))
      BY <3>1 DEF LoadsFor
    <3>3. QED
      BY <1>4, <3>1, <3>2
  <2>3. QED
    BY <1>2, <1>3, <2>1, <2>2
<1>6. \A j \in DOMAIN sq : /\ sq[j].id \in 1 .. base + n + Len(rob2)
                           /\ sq[j].id <= base + n => sq[j].issued
  <2> SUFFICES ASSUME NEW j \in DOMAIN sq
               PROVE  /\ sq[j].id \in 1 .. base + n + Len(rob2)
                      /\ sq[j].id <= base + n => sq[j].issued
    OBVIOUS
  <2>1. sq[j].id \in 1 .. base + Len(rob) /\ (sq[j].id <= base => sq[j].issued)
    BY <1>1
  <2>2. ASSUME sq[j].id \in base + 1 .. base + n
        PROVE  sq[j].issued
    <3>1. sq[j].id - base \in 1 .. n /\ base + (sq[j].id - base) = sq[j].id
      BY <2>2
    <3>2. ~sq[j].issued => j \in StoresFor(sq, base + (sq[j].id - base))
      BY <3>1 DEF StoresFor
    <3>3. QED
      BY <1>4, <3>1, <3>2
  <2>3. QED
    BY <1>2, <1>3, <2>1, <2>2
<1>7. \A i \in DOMAIN rob2 :
         /\ rob2[i].id = base + n + i
         /\ rob2[i].memops + Cardinality(LoadsFor(lq, base + n + i))
              + Cardinality(StoresFor(sq, base + n + i)) = Ops(prog, base + n + i)
         /\ rob2[i].completed => rob2[i].memops = Ops(prog, base + n + i)
  <2> SUFFICES ASSUME NEW i \in 1 .. Len(rob) - n
               PROVE  /\ rob2[i].id = base + n + i
                      /\ rob2[i].memops + Cardinality(LoadsFor(lq, base + n + i))
                           + Cardinality(StoresFor(sq, base + n + i)) = Ops(prog, base + n + i)
                      /\ rob2[i].completed => rob2[i].memops = Ops(prog, base + n + i)
    BY <1>3
  <2>1. n + i \in DOMAIN rob /\ rob2[i] = rob[n + i] /\ base + (n + i) = base + n + i
    BY <1>2, <1>3
  <2>2. /\ rob[n + i].id = base + (n + i)
        /\ rob[n + i].memops + Cardinality(LoadsFor(lq, base + (n + i)))
             + Cardinality(StoresFor(sq, base + (n + i))) = Ops(prog, base + (n + i))
        /\ rob[n + i].completed => rob[n + i].memops = Ops(prog, base + (n + i))
    BY <1>1, <2>1
  <2>3. QED
    BY <2>1, <2>2
<1>8. base + n + Len(rob2) <= Len(prog)
  BY <1>1, <1>2, <1>3
<1>9. QED
  BY <1>1, <1>5, <1>6, <1>7, <1>8 DEF MemInv, rob2

\* What is left of a finite set.
LEMMA LessOf ==
  ASSUME NEW S, IsFiniteSet(S), NEW T, T \subseteq S
  PROVE  /\ IsFiniteSet(S \ T) /\ IsFiniteSet(T)
         /\ Cardinality(S) \in Nat /\ Cardinality(T) \in Nat
         /\ Cardinality(T) <= Cardinality(S)
         /\ Cardinality(S \ T) = Cardinality(S) - Cardinality(T)
<1>1. IsFiniteSet(S \ T) /\ Cardinality(S \ T) = Cardinality(S) - Cardinality(S \cap T)
  BY FS_Difference, Zenon
<1>2. S \cap T = T
  OBVIOUS
<1>3. T \in SUBSET S
  OBVIOUS
<1>4. IsFiniteSet(T) /\ Cardinality(T) <= Cardinality(S)
  BY <1>3, FS_Subset
<1>5. Cardinality(S) \in Nat /\ Cardinality(T) \in Nat
  BY <1>4, FS_CardinalityType
<1>6. QED
  BY <1>1, <1>2, <1>4, <1>5

\* Loads L and stores J finish, and nothing else happens.
Finishing(rob, N, lq, sq, L, J, rob2, lq2, sq2) ==
    /\ L \in SUBSET {s \in 1 .. N : lq[s] # NoEntry}
    /\ J \in SUBSET {j \in 1 .. Len(sq) : ~sq[j].issued}
    /\ \A j \in J : sq[j].waiters \subseteq L
    /\ \A s \in L : lq[s].producer = Never \/ \E j \in J : s \in sq[j].waiters
    /\ DOMAIN rob2 = DOMAIN rob /\ Len(rob2) = Len(rob)
    /\ \A i \in DOMAIN rob :
          /\ rob2[i].id = rob[i].id /\ rob2[i].completed = rob[i].completed
          /\ rob2[i].memops = rob[i].memops + Cardinality({s \in L : lq[s].id = rob[i].id})
                                + Cardinality({j \in J : sq[j].id = rob[i].id})
    /\ DOMAIN lq2 = 1 .. N /\ \A s \in 1 .. N : lq2[s] = IF s \in L THEN NoEntry ELSE lq[s]
    /\ DOMAIN sq2 = DOMAIN sq /\ StoresOrdered(sq2)
    /\ \A j \in DOMAIN sq : /\ sq2[j].id = sq[j].id /\ sq2[j].addr = sq[j].addr
                            /\ sq2[j].waiters = sq[j].waiters
                            /\ sq2[j].issued <=> (sq[j].issued \/ j \in J)

\* Loads L and stores J finish: the loads free their slots, the stores issue, and
\* release the loads that wait for them.
LEMMA MemFinish ==
  ASSUME NEW prog, NEW base \in Nat, NEW rob \in Seq(Entry), NEW N \in Nat,
         NEW lq \in [1 .. N -> Slot], NEW sq \in Seq(Store(N)),
         MemInv(prog, base, rob, lq, sq), Len(prog) < Never, Never \in Nat, Len(prog) \in Nat,
         NEW L, NEW J, NEW rob2, NEW lq2, NEW sq2, Finishing(rob, N, lq, sq, L, J, rob2, lq2, sq2)
  PROVE  MemInv(prog, base, rob2, lq2, sq2)
<1> SUFFICES ASSUME
         L \in SUBSET {s \in 1 .. N : lq[s] # NoEntry},
         J \in SUBSET {j \in 1 .. Len(sq) : ~sq[j].issued},
         \A j \in J : sq[j].waiters \subseteq L,
         \A s \in L : lq[s].producer = Never \/ \E j \in J : s \in sq[j].waiters,
         DOMAIN rob2 = DOMAIN rob, Len(rob2) = Len(rob),
         \A i \in DOMAIN rob :
            /\ rob2[i].id = rob[i].id /\ rob2[i].completed = rob[i].completed
            /\ rob2[i].memops = rob[i].memops + Cardinality({s \in L : lq[s].id = rob[i].id})
                                  + Cardinality({j \in J : sq[j].id = rob[i].id}),
         DOMAIN lq2 = 1 .. N,
         \A s \in 1 .. N : lq2[s] = IF s \in L THEN NoEntry ELSE lq[s],
         DOMAIN sq2 = DOMAIN sq, StoresOrdered(sq2),
         \A j \in DOMAIN sq : /\ sq2[j].id = sq[j].id /\ sq2[j].addr = sq[j].addr
                              /\ sq2[j].waiters = sq[j].waiters
                              /\ sq2[j].issued <=> (sq[j].issued \/ j \in J)
    PROVE MemInv(prog, base, rob2, lq2, sq2)
  BY DEF Finishing
<1>1. /\ base + Len(rob) <= Len(prog)
      /\ \A i \in DOMAIN rob : rob[i].id = base + i
      /\ \A i \in DOMAIN rob :
            /\ rob[i].memops + Cardinality(LoadsFor(lq, base + i)) + Cardinality(StoresFor(sq, base + i))
               = Ops(prog, base + i)
            /\ rob[i].completed => rob[i].memops = Ops(prog, base + i)
      /\ \A s \in DOMAIN lq : lq[s] # NoEntry => lq[s].id \in base + 1 .. base + Len(rob)
      /\ \A j \in DOMAIN sq : sq[j].id \in 1 .. base + Len(rob) /\ (sq[j].id <= base => sq[j].issued)
      /\ StoresOrdered(sq) /\ LoadsWait(lq, sq) /\ StoresKnow(lq, sq)
  BY DEF MemInv
<1>2. /\ Len(rob) \in Nat /\ DOMAIN rob = 1 .. Len(rob) /\ DOMAIN lq = 1 .. N
      /\ DOMAIN sq = 1 .. Len(sq)
      /\ \A i \in DOMAIN rob : rob[i] \in Entry
  BY LenProperties, ElementOfSeq
<1>3. \A i \in DOMAIN rob : rob[i].memops \in Nat
  BY <1>2 DEF Entry
<1>4. \A i \in DOMAIN rob2 :
         /\ rob2[i].id = base + i
         /\ rob2[i].memops + Cardinality(LoadsFor(lq2, base + i)) + Cardinality(StoresFor(sq2, base + i))
            = Ops(prog, base + i)
         /\ rob2[i].completed => rob2[i].memops = Ops(prog, base + i)
  <2> SUFFICES ASSUME NEW i \in DOMAIN rob
               PROVE  /\ rob2[i].id = base + i
                      /\ rob2[i].memops + Cardinality(LoadsFor(lq2, base + i))
                           + Cardinality(StoresFor(sq2, base + i)) = Ops(prog, base + i)
                      /\ rob2[i].completed => rob2[i].memops = Ops(prog, base + i)
    OBVIOUS
  <2> DEFINE id == base + i
             A == LoadsFor(lq, id)
             B == StoresFor(sq, id)
             C == {s \in L : lq[s].id = id}
             D == {j \in J : sq[j].id = id}
  <2>1. rob[i].id = id /\ rob2[i].id = id
    BY <1>1
  <2>2. rob2[i].memops = rob[i].memops + Cardinality(C) + Cardinality(D)
    <3>1. {s \in L : lq[s].id = rob[i].id} = C /\ {j \in J : sq[j].id = rob[i].id} = D
      BY <2>1
    <3>2. rob2[i].memops = rob[i].memops + Cardinality({s \in L : lq[s].id = rob[i].id})
                             + Cardinality({j \in J : sq[j].id = rob[i].id})
      OBVIOUS
    <3>3. QED
      BY <3>1, <3>2
  <2>3. LoadsFor(lq2, id) = A \ C /\ C \subseteq A
    <3>1. ASSUME NEW s
          PROVE  s \in LoadsFor(lq2, id) <=> s \in A \ C
      BY <1>2 DEF LoadsFor
    <3>2. ASSUME NEW s \in C
          PROVE  s \in A
      BY <1>2 DEF LoadsFor
    <3>3. QED
      BY <3>1, <3>2
  <2>4. StoresFor(sq2, id) = B \ D /\ D \subseteq B
    <3>1. ASSUME NEW j
          PROVE  j \in StoresFor(sq2, id) <=> j \in B \ D
      BY <1>2 DEF StoresFor
    <3>2. ASSUME NEW j \in D
          PROVE  j \in B
      BY <1>2 DEF StoresFor
    <3>3. QED
      BY <3>1, <3>2
  <2>5. IsFiniteSet(A) /\ IsFiniteSet(B) /\ Cardinality(A) \in Nat /\ Cardinality(B) \in Nat
    BY QueuesFinite
  <2>6. rob[i].memops \in Nat
    BY <1>3
  <2>7. /\ rob[i].memops + Cardinality(A) + Cardinality(B) = Ops(prog, id)
        /\ rob[i].completed => rob[i].memops = Ops(prog, id)
    BY <1>1
  <2> HIDE DEF id, A, B, C, D
  <2>8. C \subseteq A /\ D \subseteq B
    BY <2>3, <2>4
  <2>9. /\ rob2[i].memops + Cardinality(A \ C) + Cardinality(B \ D) = Ops(prog, id)
        /\ rob[i].completed => rob2[i].memops = Ops(prog, id)
    <3> DEFINE m == rob[i].memops
               m2 == rob2[i].memops
               ops == Ops(prog, id)
    <3>1. m \in Nat /\ m2 = m + Cardinality(C) + Cardinality(D)
      BY <2>2, <2>6
    <3>2. m + Cardinality(A) + Cardinality(B) = ops /\ (rob[i].completed => m = ops)
      BY <2>7 DEF A, B
    <3>3. IsFiniteSet(A) /\ IsFiniteSet(B)
      BY <2>5
    <3> HIDE DEF m, m2, ops
    <3>4. /\ m2 + Cardinality(A \ C) + Cardinality(B \ D) = ops
          /\ m = ops => m2 = ops
      <4>1. IsFiniteSet(A) /\ IsFiniteSet(B) /\ C \subseteq A /\ D \subseteq B
        BY <2>8, <3>3
      <4>2. m \in Nat /\ m2 = m + Cardinality(C) + Cardinality(D)
        BY <3>1
      <4>3. m + Cardinality(A) + Cardinality(B) = ops
        BY <3>2
      <4>4. /\ Cardinality(A) \in Nat /\ Cardinality(C) \in Nat
            /\ Cardinality(C) <= Cardinality(A)
            /\ Cardinality(A \ C) = Cardinality(A) - Cardinality(C)
        BY ONLY <4>1, LessOf
      <4>5. /\ Cardinality(B) \in Nat /\ Cardinality(D) \in Nat
            /\ Cardinality(D) <= Cardinality(B)
            /\ Cardinality(B \ D) = Cardinality(B) - Cardinality(D)
        BY ONLY <4>1, LessOf
      <4>6. QED
        BY ONLY <4>2, <4>3, <4>4, <4>5, SMTT(30)
    <3>5. QED
      BY <3>2, <3>4 DEF m2, ops
  <2>10. QED
    BY <2>1, <2>3, <2>4, <2>9 DEF id
<1>5. LoadsWait(lq2, sq2)
  <2> SUFFICES ASSUME NEW s \in 1 .. N, lq2[s] # NoEntry
               PROVE  /\ \A i \in DOMAIN sq2 :
                            (sq2[i].addr = lq2[s].addr /\ sq2[i].id < lq2[s].id /\ ~sq2[i].issued)
                               => lq2[s].producer \in sq2[i].id .. lq2[s].id - 1
                      /\ lq2[s].producer # Never =>
                            /\ ~lq2[s].issued
                            /\ \E i \in DOMAIN sq2 :
                                  /\ sq2[i].id = lq2[s].producer /\ ~sq2[i].issued
                                  /\ sq2[i].addr = lq2[s].addr /\ s \in sq2[i].waiters
    BY DEF LoadsWait
  <2>1. s \notin L /\ lq2[s] = lq[s]
    OBVIOUS
  <2>2. /\ \A i \in DOMAIN sq :
              (sq[i].addr = lq[s].addr /\ sq[i].id < lq[s].id /\ ~sq[i].issued)
                 => lq[s].producer \in sq[i].id .. lq[s].id - 1
        /\ lq[s].producer # Never =>
              /\ ~lq[s].issued
              /\ \E i \in DOMAIN sq : /\ sq[i].id = lq[s].producer /\ ~sq[i].issued
                                      /\ sq[i].addr = lq[s].addr /\ s \in sq[i].waiters
    BY <1>1, <1>2, <2>1 DEF LoadsWait
  <2>3. \A i \in DOMAIN sq2 :
           (sq2[i].addr = lq2[s].addr /\ sq2[i].id < lq2[s].id /\ ~sq2[i].issued)
              => lq2[s].producer \in sq2[i].id .. lq2[s].id - 1
    BY <2>1, <2>2
  <2>4. ASSUME lq2[s].producer # Never
        PROVE  /\ ~lq2[s].issued
               /\ \E i \in DOMAIN sq2 :
                     /\ sq2[i].id = lq2[s].producer /\ ~sq2[i].issued
                     /\ sq2[i].addr = lq2[s].addr /\ s \in sq2[i].waiters
    <3>1. PICK i \in DOMAIN sq : /\ sq[i].id = lq[s].producer /\ ~sq[i].issued
                                 /\ sq[i].addr = lq[s].addr /\ s \in sq[i].waiters
      BY <2>1, <2>2, <2>4
    <3>2. i \notin J
      BY <2>1, <3>1
    <3>3. QED
      BY <2>1, <2>2, <2>4, <3>1, <3>2
  <2>5. QED
    BY <2>3, <2>4
<1>6. StoresKnow(lq2, sq2)
  <2> SUFFICES ASSUME NEW i \in DOMAIN sq, ~sq2[i].issued, NEW s \in sq2[i].waiters
               PROVE  /\ s \in DOMAIN lq2 /\ lq2[s] # NoEntry /\ lq2[s].producer = sq2[i].id
                      /\ \A j \in DOMAIN sq2 : j # i /\ ~sq2[j].issued => s \notin sq2[j].waiters
    BY DEF StoresKnow
  <2>1. ~sq[i].issued /\ i \notin J /\ s \in sq[i].waiters
    OBVIOUS
  <2>2. /\ s \in DOMAIN lq /\ lq[s] # NoEntry /\ lq[s].producer = sq[i].id
        /\ \A j \in DOMAIN sq : j # i /\ ~sq[j].issued => s \notin sq[j].waiters
    BY <1>1, <2>1 DEF StoresKnow
  <2>3. lq[s].producer # Never
    <3>1. sq[i].id \in 1 .. base + Len(rob)
      BY <1>1
    <3>2. QED
      BY <1>1, <1>2, <2>2, <3>1
  <2>4. s \notin L
    <3>1. \A j \in J : j # i /\ ~sq[j].issued /\ j \in DOMAIN sq
      BY <1>2, <2>1
    <3>2. QED
      BY <2>2, <2>3, <3>1
  <2>5. QED
    BY <1>2, <2>2, <2>4
<1>7. /\ \A s \in DOMAIN lq2 : lq2[s] # NoEntry => lq2[s].id \in base + 1 .. base + Len(rob2)
      /\ \A j \in DOMAIN sq2 : /\ sq2[j].id \in 1 .. base + Len(rob2)
                               /\ sq2[j].id <= base => sq2[j].issued
  BY <1>1, <1>2
<1>8. QED
  BY <1>1, <1>4, <1>5, <1>6, <1>7 DEF MemInv

\* The stores of an instruction that have not issued, as a count.
Unissued(N, id) == {x \in Store(N) : x.id = id /\ ~x.issued}

LEMMA StoresCounted ==
  ASSUME NEW N, NEW sq \in Seq(Store(N)), NEW id
  PROVE  Cardinality(StoresFor(sq, id)) = Count(sq, Unissued(N, id))
<1>1. DOMAIN sq = 1 .. Len(sq) /\ \A j \in DOMAIN sq : sq[j] \in Store(N)
  BY LenProperties, ElementOfSeq
<1>2. ASSUME NEW j
      PROVE  j \in StoresFor(sq, id) <=> j \in Places(sq, Unissued(N, id))
  BY <1>1 DEF StoresFor, Places, Unissued
<1>3. StoresFor(sq, id) = Places(sq, Unissued(N, id))
  BY <1>2
<1>4. QED
  BY <1>3 DEF Count

\* The first w stores, of retired instructions, are written.
LEMMA MemWrite ==
  ASSUME NEW prog, NEW base \in Nat, NEW rob \in Seq(Entry), NEW N \in Nat,
         NEW lq \in [1 .. N -> Slot], NEW sq \in Seq(Store(N)),
         MemInv(prog, base, rob, lq, sq),
         NEW w \in 0 .. Len(sq), \A j \in 1 .. w : sq[j].id <= base
  PROVE  MemInv(prog, base, rob, lq, SubSeq(sq, w + 1, Len(sq)))
<1> DEFINE rest == SubSeq(sq, w + 1, Len(sq))
<1>1. /\ base + Len(rob) <= Len(prog)
      /\ \A i \in DOMAIN rob : rob[i].id = base + i
      /\ \A i \in DOMAIN rob :
            /\ rob[i].memops + Cardinality(LoadsFor(lq, base + i)) + Cardinality(StoresFor(sq, base + i))
               = Ops(prog, base + i)
            /\ rob[i].completed => rob[i].memops = Ops(prog, base + i)
      /\ \A s \in DOMAIN lq : lq[s] # NoEntry => lq[s].id \in base + 1 .. base + Len(rob)
      /\ \A j \in DOMAIN sq : sq[j].id \in 1 .. base + Len(rob) /\ (sq[j].id <= base => sq[j].issued)
      /\ StoresOrdered(sq) /\ LoadsWait(lq, sq) /\ StoresKnow(lq, sq)
  BY DEF MemInv
<1>2. /\ Len(sq) \in Nat /\ DOMAIN sq = 1 .. Len(sq)
      /\ DOMAIN rob = 1 .. Len(rob)
      /\ \A j \in DOMAIN sq : sq[j] \in Store(N)
  BY LenProperties, ElementOfSeq
<1>3. /\ rest \in Seq(Store(N)) /\ Len(rest) = Len(sq) - w
      /\ DOMAIN rest = 1 .. Len(sq) - w
      /\ \A j \in 1 .. Len(sq) - w : rest[j] = sq[w + j]
  <2>1. /\ rest \in Seq(Store(N)) /\ Len(rest) = Len(sq) - w
        /\ \A j \in 1 .. Len(sq) - w : rest[j] = sq[w + j]
    BY CountSplit
  <2>2. QED
    BY <2>1, LenProperties
<1>4. \A i \in DOMAIN rob : Cardinality(StoresFor(rest, base + i)) = Cardinality(StoresFor(sq, base + i))
  <2> SUFFICES ASSUME NEW i \in DOMAIN rob
               PROVE  Cardinality(StoresFor(rest, base + i)) = Cardinality(StoresFor(sq, base + i))
    OBVIOUS
  <2> DEFINE D == Unissued(N, base + i)
             first == SubSeq(sq, 1, w)
  <2>1. /\ first \in Seq(Store(N)) /\ Len(first) = w /\ \A j \in 1 .. w : first[j] = sq[j]
        /\ Count(sq, D) = Count(first, D) + Count(rest, D)
    BY CountSplit
  <2>2. \A j \in 1 .. Len(first) : first[j] \notin D
    BY <1>2, <2>1 DEF Unissued
  <2>3. Count(first, D) = 0 /\ Count(rest, D) \in Nat
    <3> HIDE DEF D, first
    <3>1. QED
      BY <1>3, <2>1, <2>2, CountZero, CountType
  <2>4. Cardinality(StoresFor(rest, base + i)) = Count(rest, D)
    BY <1>3, StoresCounted
  <2>5. Cardinality(StoresFor(sq, base + i)) = Count(sq, D)
    BY StoresCounted
  <2> HIDE DEF D, first, rest
  <2>6. QED
    BY <2>1, <2>3, <2>4, <2>5
<1> HIDE DEF rest
<1>5. \A i \in DOMAIN rob :
         /\ rob[i].memops + Cardinality(LoadsFor(lq, base + i)) + Cardinality(StoresFor(rest, base + i))
            = Ops(prog, base + i)
         /\ rob[i].completed => rob[i].memops = Ops(prog, base + i)
  BY <1>1, <1>4
<1>6. \A j \in DOMAIN rest : w + j \in DOMAIN sq /\ rest[j] = sq[w + j]
  BY <1>2, <1>3
<1>7. \A j \in DOMAIN rest : rest[j].id \in 1 .. base + Len(rob) /\ (rest[j].id <= base => rest[j].issued)
  BY <1>1, <1>6
<1>8. StoresOrdered(rest)
  <2> SUFFICES ASSUME NEW i \in DOMAIN rest, NEW j \in DOMAIN rest, i < j
               PROVE  rest[i].id <= rest[j].id /\ (rest[j].issued => rest[i].issued)
    BY DEF StoresOrdered
  <2>1. w + i \in DOMAIN sq /\ w + j \in DOMAIN sq /\ w + i < w + j
    BY <1>3, <1>6
  <2>2. sq[w + i].id <= sq[w + j].id /\ (sq[w + j].issued => sq[w + i].issued)
    BY <1>1, <2>1 DEF StoresOrdered
  <2>3. QED
    BY <1>6, <2>2
\* A store that has not issued is not of a retired instruction.
<1>9. \A i \in DOMAIN sq : ~sq[i].issued => i - w \in DOMAIN rest /\ rest[i - w] = sq[i]
  <2> SUFFICES ASSUME NEW i \in DOMAIN sq, ~sq[i].issued
               PROVE  i - w \in DOMAIN rest /\ rest[i - w] = sq[i]
    OBVIOUS
  <2>1. i \notin 1 .. w
    BY <1>1
  <2>2. i \in 1 .. Len(sq) /\ i - w \in 1 .. Len(sq) - w /\ w + (i - w) = i
    BY <1>2, <2>1
  <2>3. QED
    BY <1>3, <2>2
<1>10. LoadsWait(lq, rest)
  <2> SUFFICES ASSUME NEW s \in DOMAIN lq, lq[s] # NoEntry
               PROVE  /\ \A i \in DOMAIN rest :
                            (rest[i].addr = lq[s].addr /\ rest[i].id < lq[s].id /\ ~rest[i].issued)
                               => lq[s].producer \in rest[i].id .. lq[s].id - 1
                      /\ lq[s].producer # Never =>
                            /\ ~lq[s].issued
                            /\ \E i \in DOMAIN rest :
                                  /\ rest[i].id = lq[s].producer /\ ~rest[i].issued
                                  /\ rest[i].addr = lq[s].addr /\ s \in rest[i].waiters
    BY DEF LoadsWait
  <2>1. /\ \A i \in DOMAIN sq :
              (sq[i].addr = lq[s].addr /\ sq[i].id < lq[s].id /\ ~sq[i].issued)
                 => lq[s].producer \in sq[i].id .. lq[s].id - 1
        /\ lq[s].producer # Never =>
              /\ ~lq[s].issued
              /\ \E i \in DOMAIN sq : /\ sq[i].id = lq[s].producer /\ ~sq[i].issued
                                      /\ sq[i].addr = lq[s].addr /\ s \in sq[i].waiters
    BY <1>1 DEF LoadsWait
  <2>2. \A i \in DOMAIN rest :
           (rest[i].addr = lq[s].addr /\ rest[i].id < lq[s].id /\ ~rest[i].issued)
              => lq[s].producer \in rest[i].id .. lq[s].id - 1
    BY <1>6, <2>1
  <2>3. ASSUME lq[s].producer # Never
        PROVE  /\ ~lq[s].issued
               /\ \E i \in DOMAIN rest : /\ rest[i].id = lq[s].producer /\ ~rest[i].issued
                                         /\ rest[i].addr = lq[s].addr /\ s \in rest[i].waiters
    <3>1. PICK i \in DOMAIN sq : /\ sq[i].id = lq[s].producer /\ ~sq[i].issued
                                 /\ sq[i].addr = lq[s].addr /\ s \in sq[i].waiters
      BY <2>1, <2>3
    <3>2. i - w \in DOMAIN rest /\ rest[i - w] = sq[i]
      BY <1>9, <3>1
    <3>3. QED
      BY <2>1, <2>3, <3>1, <3>2
  <2>4. QED
    BY <2>2, <2>3
<1>11. StoresKnow(lq, rest)
  <2> SUFFICES ASSUME NEW i \in DOMAIN rest, ~rest[i].issued, NEW s \in rest[i].waiters
               PROVE  /\ s \in DOMAIN lq /\ lq[s] # NoEntry /\ lq[s].producer = rest[i].id
                      /\ \A j \in DOMAIN rest : j # i /\ ~rest[j].issued => s \notin rest[j].waiters
    BY DEF StoresKnow
  <2>1. w + i \in DOMAIN sq /\ rest[i] = sq[w + i]
    BY <1>6
  <2>2. /\ s \in DOMAIN lq /\ lq[s] # NoEntry /\ lq[s].producer = sq[w + i].id
        /\ \A j \in DOMAIN sq : j # w + i /\ ~sq[j].issued => s \notin sq[j].waiters
    BY <1>1, <2>1 DEF StoresKnow
  <2>3. ASSUME NEW j \in DOMAIN rest, j # i, ~rest[j].issued
        PROVE  s \notin rest[j].waiters
    <3>1. w + j \in DOMAIN sq /\ rest[j] = sq[w + j] /\ w + j # w + i
      BY <1>3, <1>6, <2>3
    <3>2. QED
      BY <2>2, <2>3, <3>1
  <2>4. QED
    BY <2>1, <2>2, <2>3
<1>12. QED
  BY <1>1, <1>5, <1>7, <1>8, <1>10, <1>11 DEF MemInv, rest

\* The smallest of some slots.
LEMMA MinOf ==
  ASSUME NEW S \in SUBSET Nat, S # {}
  PROVE  Min(S) \in S
<1>1. \E x \in S : \A y \in S : x <= y
  BY SmallestOf
<1>2. QED
  BY <1>1 DEF Min

\* If a store has the address, one of them is the one to forward from.
LEMMA ForwarderOf ==
  ASSUME NEW N, NEW sq \in Seq(Store(N)), NEW addr
  PROVE  /\ \A i \in Forwarder(sq, addr) :
               /\ i \in DOMAIN sq /\ sq[i].addr = addr
               /\ \A j \in DOMAIN sq : sq[j].addr = addr => sq[j].id <= sq[i].id
         /\ Forwarder(sq, addr) = {} => \A j \in DOMAIN sq : sq[j].addr # addr
<1> DEFINE same == {i \in DOMAIN sq : sq[i].addr = addr}
           First(i, j) == sq[j].id < sq[i].id \/ (sq[j].id = sq[i].id /\ i <= j)
           R == {e \in same \X same : First(e[1], e[2])}
<1>1. /\ Len(sq) \in Nat /\ DOMAIN sq = 1 .. Len(sq)
      /\ \A i \in DOMAIN sq : sq[i].id \in Nat
  <2>1. DOMAIN sq = 1 .. Len(sq) /\ Len(sq) \in Nat /\ \A i \in DOMAIN sq : sq[i] \in Store(N)
    BY LenProperties, ElementOfSeq
  <2>2. QED
    BY <2>1 DEF Store
<1>2. Forwarder(sq, addr) = {i \in same : \A j \in same : First(i, j)}
  BY DEF Forwarder
<1>3. \A i \in same, j \in same : First(i, j) => sq[j].id <= sq[i].id
  BY <1>1
<1>4. \A i, j \in same : <<i, j>> \in R <=> First(i, j)
  OBVIOUS
<1>5. ASSUME same # {}
      PROVE  \E i \in same : \A j \in same : First(i, j)
  <2>1. same \in SUBSET (1 .. Len(sq))
    BY <1>1
  <2>2. \A i \in same : \A j \in same : First(i, j) \/ First(j, i)
    BY <1>1
  <2>3. \A i \in same : \A j \in same : \A k \in same : First(i, j) /\ First(j, k) => First(i, k)
    BY <1>1
  <2> HIDE DEF First, R, same
  <2>4. \A i \in same : \A j \in same : <<i, j>> \in R \/ <<j, i>> \in R
    BY <1>4, <2>2
  <2>5. \A i \in same : \A j \in same : \A k \in same :
           <<i, j>> \in R /\ <<j, k>> \in R => <<i, k>> \in R
    BY <1>4, <2>3
  <2>6. \E i \in same : \A j \in same : <<i, j>> \in R
    BY <1>1, <1>5, <2>1, <2>4, <2>5, LeastOf
  <2>7. QED
    BY <1>4, <2>6
<1>6. Forwarder(sq, addr) = {} => same = {}
  <2> HIDE DEF First, same
  <2>1. QED
    BY <1>2, <1>5
<1>7. QED
  BY <1>2, <1>3, <1>6

\* The dispatch of instruction id, when k of its loads have been added.
Adding(prog, base, rob, N, size, id, k, x) ==
    /\ x \in [id : Nat, memops : Nat, lq : [1 .. N -> Slot], sq : Seq(Store(N))]
    /\ x.id = id /\ Len(x.sq) = size
    /\ \A i \in DOMAIN rob :
          rob[i].memops + Cardinality(LoadsFor(x.lq, base + i)) + Cardinality(StoresFor(x.sq, base + i))
          = Ops(prog, base + i)
    /\ x.memops + Cardinality(LoadsFor(x.lq, id)) = k
    /\ \A s \in DOMAIN x.lq : x.lq[s] # NoEntry => x.lq[s].id \in base + 1 .. id
    /\ \A j \in DOMAIN x.sq : x.sq[j].id \in 1 .. id - 1 /\ (x.sq[j].id <= base => x.sq[j].issued)
    /\ StoresOrdered(x.sq) /\ LoadsWait(x.lq, x.sq) /\ StoresKnow(x.lq, x.sq)

\* A load that is put in a free slot.
LEMMA SlotTaken ==
  ASSUME NEW N \in Nat, NEW lq \in [1 .. N -> Slot], NEW slot \in FreeSlots(lq), NEW e \in LoadEntry
  PROVE  LET lq2 == [lq EXCEPT ![slot] = e]
         IN  /\ lq2 \in [1 .. N -> Slot] /\ slot \in 1 .. N /\ lq2[slot] = e /\ e # NoEntry
             /\ \A s \in 1 .. N : s # slot => lq2[s] = lq[s]
             /\ Cardinality(LoadsFor(lq2, e.id)) = Cardinality(LoadsFor(lq, e.id)) + 1
             /\ \A id : id # e.id => LoadsFor(lq2, id) = LoadsFor(lq, id)
             /\ Cardinality(FreeSlots(lq2)) = Cardinality(FreeSlots(lq)) - 1
             /\ Cardinality(FreeSlots(lq)) \in Nat
<1> DEFINE lq2 == [lq EXCEPT ![slot] = e]
<1>1. slot \in 1 .. N /\ lq[slot] = NoEntry /\ e # NoEntry
  BY BackendAssumption DEF FreeSlots
<1>2. /\ lq2 \in [1 .. N -> Slot] /\ lq2[slot] = e
      /\ \A s \in 1 .. N : s # slot => lq2[s] = lq[s]
  BY <1>1 DEF Slot
<1> HIDE DEF lq2
<1>3. LoadsFor(lq2, e.id) = LoadsFor(lq, e.id) \cup {slot} /\ slot \notin LoadsFor(lq, e.id)
  <2>1. ASSUME NEW s
        PROVE  s \in LoadsFor(lq2, e.id) <=> s \in LoadsFor(lq, e.id) \cup {slot}
    BY <1>1, <1>2 DEF LoadsFor
  <2>2. QED
    BY <1>1, <2>1 DEF LoadsFor
<1>4. IsFiniteSet(1 .. N)
  BY FirstNumbers
<1>5. LoadsFor(lq, e.id) \in SUBSET (1 .. N) /\ FreeSlots(lq) \in SUBSET (1 .. N)
  BY DEF LoadsFor, FreeSlots
<1>6. IsFiniteSet(LoadsFor(lq, e.id)) /\ IsFiniteSet(FreeSlots(lq))
  BY <1>4, <1>5, FS_Subset
<1>7. Cardinality(LoadsFor(lq, e.id) \cup {slot}) = Cardinality(LoadsFor(lq, e.id)) + 1
  BY <1>3, <1>6, FS_AddElement
<1>8. \A id : id # e.id => LoadsFor(lq2, id) = LoadsFor(lq, id)
  <2> SUFFICES ASSUME NEW id, id # e.id
               PROVE  LoadsFor(lq2, id) = LoadsFor(lq, id)
    OBVIOUS
  <2>1. ASSUME NEW s
        PROVE  s \in LoadsFor(lq2, id) <=> s \in LoadsFor(lq, id)
    BY <1>1, <1>2 DEF LoadsFor
  <2>2. QED
    BY <2>1
<1>9. FreeSlots(lq2) = FreeSlots(lq) \ {slot}
  <2>1. ASSUME NEW s
        PROVE  s \in FreeSlots(lq2) <=> s \in FreeSlots(lq) \ {slot}
    BY <1>1, <1>2 DEF FreeSlots
  <2>2. QED
    BY <2>1
<1>10. Cardinality(FreeSlots(lq) \ {slot}) = Cardinality(FreeSlots(lq)) - 1
  BY <1>6, FS_RemoveElement
<1>11. Cardinality(FreeSlots(lq)) \in Nat
  BY <1>6, FS_CardinalityType
<1>12. QED
  BY <1>1, <1>2, <1>3, <1>7, <1>8, <1>9, <1>10, <1>11 DEF lq2

\* One more load of the instruction that is dispatched.
LEMMA AddLoadKeeps ==
  ASSUME NEW prog, NEW base \in Nat, NEW rob, NEW N \in Nat, NEW size, NEW id \in Nat, base < id,
         NEW k \in Nat, NEW x, Adding(prog, base, rob, N, size, id, k, x),
         DOMAIN rob = 1 .. id - base - 1,
         NEW addr \in Addresses, FreeSlots(x.lq) # {}
  PROVE  /\ Adding(prog, base, rob, N, size, id, k + 1, AddLoad(x, addr))
         /\ Cardinality(FreeSlots(AddLoad(x, addr).lq)) >= Cardinality(FreeSlots(x.lq)) - 1
<1> DEFINE slot == Min(FreeSlots(x.lq))
           from == Forwarder(x.sq, addr)
           i == CHOOSE i \in from : TRUE
           waited == [x.sq[i] EXCEPT !.waiters = @ \cup {slot}]
           y == AddLoad(x, addr)
<1>1. x \in [id : Nat, memops : Nat, lq : [1 .. N -> Slot], sq : Seq(Store(N))]
  BY DEF Adding
<1>2. /\ x.id = id /\ x.memops \in Nat /\ x.lq \in [1 .. N -> Slot] /\ x.sq \in Seq(Store(N))
      /\ Len(x.sq) = size
  BY <1>1 DEF Adding
<1>3. /\ \A r \in DOMAIN rob :
            rob[r].memops + Cardinality(LoadsFor(x.lq, base + r)) + Cardinality(StoresFor(x.sq, base + r))
            = Ops(prog, base + r)
      /\ x.memops + Cardinality(LoadsFor(x.lq, id)) = k
      /\ \A s \in DOMAIN x.lq : x.lq[s] # NoEntry => x.lq[s].id \in base + 1 .. id
      /\ \A j \in DOMAIN x.sq : x.sq[j].id \in 1 .. id - 1 /\ (x.sq[j].id <= base => x.sq[j].issued)
      /\ StoresOrdered(x.sq) /\ LoadsWait(x.lq, x.sq) /\ StoresKnow(x.lq, x.sq)
  BY DEF Adding
<1>4. /\ DOMAIN x.sq = 1 .. Len(x.sq) /\ DOMAIN x.lq = 1 .. N /\ Len(x.sq) \in Nat
      /\ \A j \in DOMAIN x.sq : x.sq[j] \in Store(N)
  BY <1>2, LenProperties, ElementOfSeq
<1>5. slot \in FreeSlots(x.lq) /\ slot \in 1 .. N /\ x.lq[slot] = NoEntry
  <2>1. FreeSlots(x.lq) \in SUBSET Nat
    BY <1>4 DEF FreeSlots
  <2>2. slot \in FreeSlots(x.lq)
    BY <2>1, MinOf
  <2>3. QED
    BY <1>4, <2>2 DEF FreeSlots
<1>6. /\ \A j \in from : /\ j \in DOMAIN x.sq /\ x.sq[j].addr = addr
                         /\ \A l \in DOMAIN x.sq : x.sq[l].addr = addr => x.sq[l].id <= x.sq[j].id
      /\ from = {} => \A j \in DOMAIN x.sq : x.sq[j].addr # addr
  BY <1>2, ForwarderOf
<1>7. y = IF from = {}
            THEN [x EXCEPT !.lq = [@ EXCEPT ![slot] = NewLoad(x.id, addr, Never)]]
          ELSE IF x.sq[i].issued THEN [x EXCEPT !.memops = @ + 1]
          ELSE [id |-> x.id, memops |-> x.memops,
                lq |-> [x.lq EXCEPT ![slot] = NewLoad(x.id, addr, x.sq[i].id)],
                sq |-> [x.sq EXCEPT ![i] = waited]]
  BY DEF AddLoad
<1> HIDE DEF slot, from, i, waited, y
<1>8. CASE from # {} /\ x.sq[i].issued
  <2>1. y = [x EXCEPT !.memops = @ + 1]
    BY <1>7, <1>8
  <2>2. /\ y \in [id : Nat, memops : Nat, lq : [1 .. N -> Slot], sq : Seq(Store(N))]
        /\ y.id = id /\ y.lq = x.lq /\ y.sq = x.sq /\ y.memops = x.memops + 1
    BY <1>1, <1>2, <2>1, SMTT(30)
  <2>3. Cardinality(LoadsFor(x.lq, id)) \in Nat /\ Cardinality(FreeSlots(x.lq)) \in Nat
    <3>1. Cardinality(LoadsFor(x.lq, id)) \in Nat
      BY <1>2, QueuesFinite
    <3>2. NewLoad(x.id, addr, Never) \in LoadEntry
      BY <1>2, BackendAssumption DEF NewLoad, LoadEntry
    <3>3. Cardinality(FreeSlots(x.lq)) \in Nat
      BY <1>2, <1>5, <3>2, SlotTaken
    <3>4. QED
      BY <3>1, <3>3
  <2>4. y.memops + Cardinality(LoadsFor(y.lq, id)) = k + 1
    <3> DEFINE c == Cardinality(LoadsFor(x.lq, id))
    <3>1. c \in Nat /\ x.memops \in Nat /\ x.memops + c = k
      BY <1>2, <1>3, <2>3
    <3> HIDE DEF c
    <3>2. x.memops + 1 + c = k + 1
      BY <3>1
    <3>3. QED
      BY <2>2, <3>2 DEF c
  <2>5. Adding(prog, base, rob, N, size, id, k + 1, y)
    BY <1>2, <1>3, <2>2, <2>4 DEF Adding
  <2>6. Cardinality(FreeSlots(y.lq)) >= Cardinality(FreeSlots(x.lq)) - 1
    BY <2>2, <2>3
  <2>7. QED
    BY <2>5, <2>6 DEF y
<1>9. ASSUME ~(from # {} /\ x.sq[i].issued)
      PROVE  /\ Adding(prog, base, rob, N, size, id, k + 1, y)
             /\ Cardinality(FreeSlots(y.lq)) >= Cardinality(FreeSlots(x.lq)) - 1
  <2> DEFINE p == IF from = {} THEN Never ELSE x.sq[i].id
             e == NewLoad(id, addr, p)
  <2>1. from # {} => /\ i \in DOMAIN x.sq /\ x.sq[i].addr = addr /\ ~x.sq[i].issued
                     /\ \A l \in DOMAIN x.sq : x.sq[l].addr = addr => x.sq[l].id <= x.sq[i].id
    <3>1. from # {} => i \in from
      BY DEF i
    <3>2. QED
      BY <1>6, <1>9, <3>1
  <2>2. \A j \in DOMAIN x.sq : x.sq[j].id \in Nat
    BY <1>3
  <2>3. p \in Nat /\ e \in LoadEntry
    <3>1. p \in Nat
      BY <2>1, <2>2, BackendAssumption
    <3> HIDE DEF p
    <3>2. e \in LoadEntry
      BY <3>1, BackendAssumption DEF NewLoad, LoadEntry
    <3>3. QED
      BY <3>1, <3>2
  <2>4. e.id = id /\ e.addr = addr /\ ~e.issued /\ e.producer = p
    BY DEF NewLoad
  <2>5. /\ y \in [id : Nat, memops : Nat, lq : {y.lq}, sq : {y.sq}]
        /\ y.id = id /\ y.memops = x.memops
        /\ y.lq = [x.lq EXCEPT ![slot] = e]
        /\ y.sq = IF from = {} THEN x.sq ELSE [x.sq EXCEPT ![i] = waited]
    <3>1. CASE from = {}
      <4>1. y = [x EXCEPT !.lq = [@ EXCEPT ![slot] = e]]
        BY <1>2, <1>7, <3>1
      <4> HIDE DEF e, p
      <4>2. QED
        BY <1>1, <1>2, <3>1, <4>1
    <3>2. CASE from # {}
      <4>1. y = [id |-> x.id, memops |-> x.memops, lq |-> [x.lq EXCEPT ![slot] = e],
                 sq |-> [x.sq EXCEPT ![i] = waited]]
        BY <1>2, <1>7, <1>9, <3>2
      <4> HIDE DEF e, p
      <4>2. QED
        BY <1>2, <3>2, <4>1
    <3>3. QED
      BY <3>1, <3>2
  <2> HIDE DEF e
  <2>6. /\ y.lq \in [1 .. N -> Slot] /\ y.lq[slot] = e /\ e # NoEntry /\ DOMAIN y.lq = 1 .. N
        /\ \A s \in 1 .. N : s # slot => y.lq[s] = x.lq[s]
        /\ Cardinality(LoadsFor(y.lq, id)) = Cardinality(LoadsFor(x.lq, id)) + 1
        /\ \A r : r # id => LoadsFor(y.lq, r) = LoadsFor(x.lq, r)
        /\ Cardinality(FreeSlots(y.lq)) = Cardinality(FreeSlots(x.lq)) - 1
        /\ Cardinality(FreeSlots(x.lq)) \in Nat
    <3>1. slot \in FreeSlots(x.lq)
      BY <1>5
    <3>2. x.lq \in [1 .. N -> Slot] /\ e \in LoadEntry /\ N \in Nat
      BY <1>2, <2>3
    <3>3. LET lq2 == [x.lq EXCEPT ![slot] = e]
          IN  /\ lq2 \in [1 .. N -> Slot] /\ slot \in 1 .. N /\ lq2[slot] = e /\ e # NoEntry
              /\ \A s \in 1 .. N : s # slot => lq2[s] = x.lq[s]
              /\ Cardinality(LoadsFor(lq2, e.id)) = Cardinality(LoadsFor(x.lq, e.id)) + 1
              /\ \A r : r # e.id => LoadsFor(lq2, r) = LoadsFor(x.lq, r)
              /\ Cardinality(FreeSlots(lq2)) = Cardinality(FreeSlots(x.lq)) - 1
              /\ Cardinality(FreeSlots(x.lq)) \in Nat
      BY ONLY <3>1, <3>2, SlotTaken
    <3>4. y.lq = [x.lq EXCEPT ![slot] = e]
      BY <2>5
    <3>5. /\ y.lq \in [1 .. N -> Slot] /\ y.lq[slot] = e /\ e # NoEntry
          /\ \A s \in 1 .. N : s # slot => y.lq[s] = x.lq[s]
          /\ Cardinality(LoadsFor(y.lq, e.id)) = Cardinality(LoadsFor(x.lq, e.id)) + 1
          /\ \A r : r # e.id => LoadsFor(y.lq, r) = LoadsFor(x.lq, r)
          /\ Cardinality(FreeSlots(y.lq)) = Cardinality(FreeSlots(x.lq)) - 1
          /\ Cardinality(FreeSlots(x.lq)) \in Nat
      BY ONLY <3>3, <3>4
    <3>6. QED
      BY <2>4, <3>5
  <2>7. /\ y.sq \in Seq(Store(N)) /\ Len(y.sq) = size /\ DOMAIN y.sq = DOMAIN x.sq
        /\ \A j \in DOMAIN x.sq :
              /\ y.sq[j].id = x.sq[j].id /\ y.sq[j].addr = x.sq[j].addr
              /\ y.sq[j].issued = x.sq[j].issued
              /\ y.sq[j].waiters = IF from # {} /\ j = i THEN x.sq[j].waiters \cup {slot}
                                   ELSE x.sq[j].waiters
    <3>1. CASE from = {}
      BY <1>2, <2>5, <3>1
    <3>2. CASE from # {}
      <4>1. i \in 1 .. Len(x.sq) /\ x.sq[i] \in Store(N)
        BY <1>4, <2>1, <3>2
      <4>2. /\ waited \in Store(N) /\ waited.id = x.sq[i].id /\ waited.addr = x.sq[i].addr
            /\ waited.issued = x.sq[i].issued /\ waited.waiters = x.sq[i].waiters \cup {slot}
        BY <1>5, <4>1 DEF waited, Store
      <4>3. /\ y.sq \in Seq(Store(N)) /\ Len(y.sq) = Len(x.sq)
            /\ \A j \in 1 .. Len(x.sq) : y.sq[j] = IF j = i THEN waited ELSE x.sq[j]
        BY <1>2, <2>5, <3>2, <4>1, <4>2, ExceptSeq, SMTT(30)
      <4>4. DOMAIN y.sq = DOMAIN x.sq
        BY <1>2, <4>3, LenProperties
      <4>5. QED
        BY <1>2, <1>4, <3>2, <4>2, <4>3, <4>4
    <3>3. QED
      BY <3>1, <3>2
  <2>8. \A r : StoresFor(y.sq, r) = StoresFor(x.sq, r)
    BY <2>7 DEF StoresFor
  <2>9. y.memops + Cardinality(LoadsFor(y.lq, id)) = k + 1
    <3> DEFINE c == Cardinality(LoadsFor(x.lq, id))
    <3>1. c \in Nat /\ x.memops \in Nat /\ x.memops + c = k
      BY <1>2, <1>3, QueuesFinite
    <3>2. Cardinality(LoadsFor(y.lq, id)) = c + 1
      BY <2>6
    <3> HIDE DEF c
    <3>3. x.memops + (c + 1) = k + 1
      BY <3>1
    <3>4. QED
      BY <2>5, <3>2, <3>3
  <2>10. \A r \in DOMAIN rob :
            rob[r].memops + Cardinality(LoadsFor(y.lq, base + r)) + Cardinality(StoresFor(y.sq, base + r))
            = Ops(prog, base + r)
    <3>1. \A r \in DOMAIN rob : base + r # id
      OBVIOUS
    <3>2. QED
      BY <1>3, <2>6, <2>8, <3>1
  <2>11. \A s \in DOMAIN y.lq : y.lq[s] # NoEntry => y.lq[s].id \in base + 1 .. id
    <3> SUFFICES ASSUME NEW s \in 1 .. N, y.lq[s] # NoEntry
                 PROVE  y.lq[s].id \in base + 1 .. id
      BY <2>6
    <3>1. CASE s = slot
      BY <2>4, <2>6, <3>1
    <3>2. CASE s # slot
      BY <1>3, <1>4, <2>6, <3>2
    <3>3. QED
      BY <3>1, <3>2
  <2>12. \A j \in DOMAIN y.sq : y.sq[j].id \in 1 .. id - 1 /\ (y.sq[j].id <= base => y.sq[j].issued)
    BY <1>3, <2>7
  <2>13. StoresOrdered(y.sq)
    BY <1>3, <2>7 DEF StoresOrdered
  <2>14. LoadsWait(y.lq, y.sq)
    <3> SUFFICES ASSUME NEW s \in 1 .. N, y.lq[s] # NoEntry
                 PROVE  /\ \A j \in DOMAIN y.sq :
                              (y.sq[j].addr = y.lq[s].addr /\ y.sq[j].id < y.lq[s].id /\ ~y.sq[j].issued)
                                 => y.lq[s].producer \in y.sq[j].id .. y.lq[s].id - 1
                        /\ y.lq[s].producer # Never =>
                              /\ ~y.lq[s].issued
                              /\ \E j \in DOMAIN y.sq :
                                    /\ y.sq[j].id = y.lq[s].producer /\ ~y.sq[j].issued
                                    /\ y.sq[j].addr = y.lq[s].addr /\ s \in y.sq[j].waiters
      BY <2>6 DEF LoadsWait
    <3>1. CASE s = slot
      <4>1. y.lq[s] = e
        BY <2>6, <3>1
      <4>2. CASE from = {}
        <5>1. \A j \in DOMAIN y.sq : y.sq[j].addr # addr
          BY <1>6, <2>7, <4>2
        <5>2. p = Never
          BY <4>2
        <5>3. QED
          BY <2>4, <4>1, <5>1, <5>2
      <4>3. CASE from # {}
        <5>1. p = x.sq[i].id /\ i \in DOMAIN x.sq /\ x.sq[i].id \in 1 .. id - 1
          BY <1>3, <2>1, <4>3
        <5> HIDE DEF p
        <5>2. \A j \in DOMAIN y.sq :
                 (y.sq[j].addr = addr /\ y.sq[j].id < id /\ ~y.sq[j].issued)
                    => p \in y.sq[j].id .. id - 1
          <6> SUFFICES ASSUME NEW j \in DOMAIN x.sq, y.sq[j].addr = addr
                       PROVE  p \in y.sq[j].id .. id - 1
            BY <2>7
          <6>1. x.sq[j].id <= x.sq[i].id /\ x.sq[j].id \in 1 .. id - 1 /\ y.sq[j].id = x.sq[j].id
            BY <1>3, <2>1, <2>7, <4>3
          <6>2. QED
            BY <5>1, <6>1
        <5>3. /\ y.sq[i].id = p /\ ~y.sq[i].issued /\ y.sq[i].addr = addr /\ s \in y.sq[i].waiters
              /\ i \in DOMAIN y.sq
          BY <2>1, <2>7, <3>1, <4>3, <5>1
        <5>4. QED
          BY <2>4, <4>1, <5>2, <5>3
      <4>4. QED
        BY <4>2, <4>3
    <3>2. CASE s # slot
      <4>1. y.lq[s] = x.lq[s] /\ s \in DOMAIN x.lq
        BY <1>4, <2>6, <3>2
      <4>2. /\ \A j \in DOMAIN x.sq :
                  (x.sq[j].addr = x.lq[s].addr /\ x.sq[j].id < x.lq[s].id /\ ~x.sq[j].issued)
                     => x.lq[s].producer \in x.sq[j].id .. x.lq[s].id - 1
            /\ x.lq[s].producer # Never =>
                  /\ ~x.lq[s].issued
                  /\ \E j \in DOMAIN x.sq : /\ x.sq[j].id = x.lq[s].producer /\ ~x.sq[j].issued
                                            /\ x.sq[j].addr = x.lq[s].addr /\ s \in x.sq[j].waiters
        BY <1>3, <4>1 DEF LoadsWait
      <4>3. \A j \in DOMAIN y.sq :
               (y.sq[j].addr = y.lq[s].addr /\ y.sq[j].id < y.lq[s].id /\ ~y.sq[j].issued)
                  => y.lq[s].producer \in y.sq[j].id .. y.lq[s].id - 1
        BY <2>7, <4>1, <4>2
      <4>4. ASSUME y.lq[s].producer # Never
            PROVE  /\ ~y.lq[s].issued
                   /\ \E j \in DOMAIN y.sq :
                         /\ y.sq[j].id = y.lq[s].producer /\ ~y.sq[j].issued
                         /\ y.sq[j].addr = y.lq[s].addr /\ s \in y.sq[j].waiters
        <5>1. PICK j \in DOMAIN x.sq : /\ x.sq[j].id = x.lq[s].producer /\ ~x.sq[j].issued
                                       /\ x.sq[j].addr = x.lq[s].addr /\ s \in x.sq[j].waiters
          BY <4>1, <4>2, <4>4
        <5>2. /\ j \in DOMAIN y.sq /\ y.sq[j].id = y.lq[s].producer /\ ~y.sq[j].issued
              /\ y.sq[j].addr = y.lq[s].addr /\ s \in y.sq[j].waiters
          BY <2>7, <4>1, <5>1
        <5>3. QED
          BY <4>1, <4>2, <4>4, <5>2
      <4>5. QED
        BY <4>3, <4>4
    <3>3. QED
      BY <3>1, <3>2
  <2>15. StoresKnow(y.lq, y.sq)
    <3> SUFFICES ASSUME NEW j \in DOMAIN x.sq, ~y.sq[j].issued, NEW s \in y.sq[j].waiters
                 PROVE  /\ s \in DOMAIN y.lq /\ y.lq[s] # NoEntry /\ y.lq[s].producer = y.sq[j].id
                        /\ \A l \in DOMAIN y.sq : l # j /\ ~y.sq[l].issued => s \notin y.sq[l].waiters
      BY <2>7 DEF StoresKnow
    <3>1. \A l \in DOMAIN x.sq : ~x.sq[l].issued =>
             /\ slot \notin x.sq[l].waiters
             /\ \A t \in x.sq[l].waiters :
                   /\ t \in 1 .. N /\ x.lq[t] # NoEntry /\ x.lq[t].producer = x.sq[l].id
                   /\ \A m \in DOMAIN x.sq : m # l /\ ~x.sq[m].issued => t \notin x.sq[m].waiters
      BY <1>3, <1>4, <1>5 DEF StoresKnow
    <3>2. CASE s = slot
      <4>1. from # {} /\ j = i
        BY <2>7, <3>1, <3>2
      <4>2. y.lq[s].producer = y.sq[j].id /\ y.lq[s] # NoEntry
        BY <2>4, <2>6, <2>7, <3>2, <4>1
      <4>3. \A l \in DOMAIN y.sq : l # j /\ ~y.sq[l].issued => s \notin y.sq[l].waiters
        BY <2>7, <3>1, <3>2, <4>1
      <4>4. QED
        BY <1>5, <2>6, <3>2, <4>2, <4>3
    <3>3. CASE s # slot
      <4>1. s \in x.sq[j].waiters /\ ~x.sq[j].issued
        BY <2>7, <3>3
      <4>2. /\ s \in 1 .. N /\ x.lq[s] # NoEntry /\ x.lq[s].producer = x.sq[j].id
            /\ \A m \in DOMAIN x.sq : m # j /\ ~x.sq[m].issued => s \notin x.sq[m].waiters
        BY <3>1, <4>1
      <4>3. y.lq[s] = x.lq[s] /\ s \in DOMAIN y.lq
        BY <2>6, <3>3, <4>2
      <4>4. \A l \in DOMAIN y.sq : l # j /\ ~y.sq[l].issued => s \notin y.sq[l].waiters
        BY <2>7, <3>3, <4>2
      <4>5. QED
        BY <2>7, <4>2, <4>3, <4>4
    <3>4. QED
      BY <3>2, <3>3
  <2>16. y \in [id : Nat, memops : Nat, lq : [1 .. N -> Slot], sq : Seq(Store(N))]
    BY <2>5, <2>6, <2>7
  <2>17. Adding(prog, base, rob, N, size, id, k + 1, y)
    BY <2>5, <2>7, <2>9, <2>10, <2>11, <2>12, <2>13, <2>14, <2>15, <2>16 DEF Adding
  <2>18. QED
    BY <2>6, <2>17
<1>10. QED
  BY <1>8, <1>9 DEF y

\* There are finitely many free slots.
LEMMA FreeCounted ==
  ASSUME NEW N \in Nat, NEW lq \in [1 .. N -> Slot]
  PROVE  /\ Cardinality(FreeSlots(lq)) \in Nat
         /\ Cardinality(FreeSlots(lq)) >= 1 => FreeSlots(lq) # {}
<1>1. IsFiniteSet(1 .. N) /\ FreeSlots(lq) \in SUBSET (1 .. N)
  BY FirstNumbers DEF FreeSlots
<1>2. Cardinality(FreeSlots(lq)) \in Nat
  BY <1>1, FS_Subset, FS_CardinalityType
<1>3. FreeSlots(lq) = {} => Cardinality(FreeSlots(lq)) = 0
  BY FS_EmptySet
<1>4. QED
  BY <1>2, <1>3

\* All the loads of the instruction that is dispatched.
LEMMA AddLoadsKeep ==
  ASSUME NEW prog, NEW base \in Nat, NEW rob, NEW N \in Nat, NEW size, NEW id \in Nat, base < id,
         DOMAIN rob = 1 .. id - base - 1,
         NEW x, Adding(prog, base, rob, N, size, id, 0, x),
         NEW loads \in Seq(Addresses), Cardinality(FreeSlots(x.lq)) >= Len(loads)
  PROVE  Adding(prog, base, rob, N, size, id, Len(loads), FoldLeft(AddLoad, x, loads))
<1>1. PICK g : /\ g[0] = x /\ g[Len(loads)] = FoldLeft(AddLoad, x, loads)
               /\ \A k \in 1 .. Len(loads) : g[k] = AddLoad(g[k - 1], loads[k])
  <2>1. AddLoadPath(x, loads)
    BY AddLoadFold
  <2>2. QED
    BY <2>1 DEF AddLoadPath
<1>2. Len(loads) \in Nat /\ \A k \in 1 .. Len(loads) : loads[k] \in Addresses
  BY LenProperties, ElementOfSeq
<1> DEFINE Room(y) == Cardinality(FreeSlots(y.lq))
           S == {k \in 0 .. Len(loads) : /\ Adding(prog, base, rob, N, size, id, k, g[k])
                                         /\ Room(g[k]) + k >= Len(loads)}
<1>3. \A k, y : Adding(prog, base, rob, N, size, id, k, y) =>
         Room(y) \in Nat /\ (Room(y) >= 1 => FreeSlots(y.lq) # {})
  <2> SUFFICES ASSUME NEW k, NEW y, Adding(prog, base, rob, N, size, id, k, y)
               PROVE  Room(y) \in Nat /\ (Room(y) >= 1 => FreeSlots(y.lq) # {})
    OBVIOUS
  <2>1. y \in [id : Nat, memops : Nat, lq : [1 .. N -> Slot], sq : Seq(Store(N))]
    BY DEF Adding
  <2>2. y.lq \in [1 .. N -> Slot]
    BY <2>1
  <2>3. QED
    BY <2>2, FreeCounted
<1>4. \A k, y : Adding(prog, base, rob, N, size, id, k, y) /\ k \in Nat /\ FreeSlots(y.lq) # {} =>
         \A addr \in Addresses :
            /\ Adding(prog, base, rob, N, size, id, k + 1, AddLoad(y, addr))
            /\ Room(AddLoad(y, addr)) >= Room(y) - 1
  BY AddLoadKeeps
<1>5. 0 \in S
  BY <1>1, <1>2, <1>3
<1>6. ASSUME NEW k \in 1 .. Len(loads), k - 1 \in S
      PROVE  k \in S
  <2>1. /\ Adding(prog, base, rob, N, size, id, k - 1, g[k - 1])
        /\ Room(g[k - 1]) + (k - 1) >= Len(loads)
    BY <1>6
  <2> HIDE DEF Room
  <2>2. Room(g[k - 1]) \in Nat
    BY <1>3, <2>1
  <2>3. Room(g[k - 1]) >= 1 /\ k - 1 \in Nat /\ k - 1 + 1 = k
    BY <1>2, <2>1, <2>2
  <2>4. FreeSlots(g[k - 1].lq) # {}
    BY <1>3, <2>1, <2>3
  <2>5. g[k] = AddLoad(g[k - 1], loads[k]) /\ loads[k] \in Addresses
    BY <1>1, <1>2
  <2>6. /\ Adding(prog, base, rob, N, size, id, k - 1 + 1, AddLoad(g[k - 1], loads[k]))
        /\ Room(AddLoad(g[k - 1], loads[k])) >= Room(g[k - 1]) - 1
    BY <1>4, <2>1, <2>3, <2>4, <2>5
  <2>7. Adding(prog, base, rob, N, size, id, k, g[k]) /\ Room(g[k]) >= Room(g[k - 1]) - 1
    BY <2>3, <2>5, <2>6
  <2>8. Room(g[k]) \in Nat
    BY <1>3, <2>7
  <2>9. Room(g[k]) + k >= Len(loads)
    <3> DEFINE a == Room(g[k])
               b == Room(g[k - 1])
    <3>1. a \in Nat /\ b \in Nat /\ a >= b - 1 /\ b + (k - 1) >= Len(loads)
      BY <2>1, <2>2, <2>7, <2>8
    <3> HIDE DEF a, b
    <3>2. a + k >= Len(loads)
      BY <1>2, <3>1
    <3>3. QED
      BY <3>2 DEF a
  <2>10. QED
    BY <1>2, <2>7, <2>9
<1> HIDE DEF S
<1>7. \A k \in 0 .. Len(loads) : k \in S
  BY <1>2, <1>5, <1>6, UpTo
<1>8. Len(loads) \in S
  BY <1>2, <1>7
<1> HIDE DEF Room
<1>9. QED
  BY <1>1, <1>8 DEF S

\* What dispatch makes of the stores of an instruction.
NewStore(id, addr) ==
    [id |-> id, addr |-> addr, ready |-> Never, issued |-> FALSE, waiters |-> {}]

\* The entries of two sequences in one.
LEMMA JoinedParts ==
  ASSUME NEW T, NEW s \in Seq(T), NEW t \in Seq(T)
  PROVE  /\ s \o t \in Seq(T) /\ Len(s \o t) = Len(s) + Len(t)
         /\ DOMAIN (s \o t) = 1 .. Len(s) + Len(t)
         /\ \A j \in 1 .. Len(s) : (s \o t)[j] = s[j]
         /\ \A j \in 1 .. Len(t) : (s \o t)[Len(s) + j] = t[j]
         /\ \A j \in Len(s) + 1 .. Len(s) + Len(t) :
               j - Len(s) \in 1 .. Len(t) /\ (s \o t)[j] = t[j - Len(s)]
         /\ DOMAIN s = 1 .. Len(s) /\ Len(s) \in Nat /\ DOMAIN t = 1 .. Len(t) /\ Len(t) \in Nat
<1> DEFINE st == s \o t
           m == Len(s)
           n == Len(t)
<1>1. /\ st \in Seq(T) /\ m \in Nat /\ n \in Nat /\ Len(st) = m + n
      /\ \A i \in 1 .. m + n : st[i] = IF i <= m THEN s[i] ELSE t[i - m]
  BY ConcatProperties, LenProperties
<1>2. DOMAIN s = 1 .. m /\ DOMAIN t = 1 .. n /\ DOMAIN st = 1 .. m + n
  BY <1>1, LenProperties
<1> HIDE DEF st, m, n
<1>3. \A j \in 1 .. m : st[j] = s[j]
  BY <1>1
<1>4. \A j \in 1 .. n : st[m + j] = t[j]
  <2> SUFFICES ASSUME NEW j \in 1 .. n
               PROVE  st[m + j] = t[j]
    OBVIOUS
  <2>1. m + j \in 1 .. m + n /\ ~(m + j <= m) /\ (m + j) - m = j
    BY <1>1
  <2>2. QED
    BY <1>1, <2>1
<1>5. \A j \in m + 1 .. m + n : j - m \in 1 .. n /\ st[j] = t[j - m]
  BY <1>1
<1>6. QED
  BY <1>1, <1>2, <1>3, <1>4, <1>5 DEF st, m, n

\* Stores that dispatch has just made, and stores of other instructions.
AreNew(news, id) ==
    \A j \in DOMAIN news : news[j].id = id /\ ~news[j].issued /\ news[j].waiters = {}

AreOlder(sq, id) == \A j \in DOMAIN sq : sq[j].id # id

\* The stores of each instruction, when those of id join the queue.
LEMMA StoresJoined ==
  ASSUME NEW N, NEW sq \in Seq(Store(N)), NEW news \in Seq(Store(N)), NEW id,
         AreNew(news, id), AreOlder(sq, id)
  PROVE  /\ \A r : r # id => Cardinality(StoresFor(sq \o news, r)) = Cardinality(StoresFor(sq, r))
         /\ Cardinality(StoresFor(sq \o news, id)) = Len(news)
<1>1. /\ DOMAIN sq = 1 .. Len(sq) /\ DOMAIN news = 1 .. Len(news) /\ Len(news) \in Nat
      /\ \A k \in DOMAIN news : news[k] \in Store(N)
      /\ sq \o news \in Seq(Store(N))
  BY JoinedParts, ElementOfSeq
<1>2. \A r : /\ Count(sq, Unissued(N, r)) \in Nat /\ Count(news, Unissued(N, r)) \in Nat
             /\ Cardinality(StoresFor(sq, r)) = Count(sq, Unissued(N, r))
             /\ Cardinality(StoresFor(sq \o news, r))
                = Count(sq, Unissued(N, r)) + Count(news, Unissued(N, r))
  <2> SUFFICES ASSUME NEW r
               PROVE  /\ Count(sq, Unissued(N, r)) \in Nat /\ Count(news, Unissued(N, r)) \in Nat
                      /\ Cardinality(StoresFor(sq, r)) = Count(sq, Unissued(N, r))
                      /\ Cardinality(StoresFor(sq \o news, r))
                         = Count(sq, Unissued(N, r)) + Count(news, Unissued(N, r))
    OBVIOUS
  <2>1. Count(sq, Unissued(N, r)) \in Nat /\ Count(news, Unissued(N, r)) \in Nat
    BY CountType
  <2>2. Cardinality(StoresFor(sq, r)) = Count(sq, Unissued(N, r))
    BY StoresCounted
  <2>3. Cardinality(StoresFor(sq \o news, r)) = Count(sq \o news, Unissued(N, r))
    BY <1>1, StoresCounted
  <2>4. Count(sq \o news, Unissued(N, r)) = Count(sq, Unissued(N, r)) + Count(news, Unissued(N, r))
    BY CountJoined
  <2>5. QED
    BY <2>1, <2>2, <2>3, <2>4
<1>3. \A r : r # id => Count(news, Unissued(N, r)) = 0
  <2> SUFFICES ASSUME NEW r, r # id
               PROVE  Count(news, Unissued(N, r)) = 0
    OBVIOUS
  <2>1. \A k \in 1 .. Len(news) : news[k] \notin Unissued(N, r)
    BY <1>1 DEF Unissued, AreNew
  <2>2. QED
    BY <2>1, CountZero
<1>4. Count(news, Unissued(N, id)) = Len(news)
  <2>1. \A k \in 1 .. Len(news) : news[k] \in Unissued(N, id)
    BY <1>1 DEF Unissued, AreNew
  <2>2. QED
    BY <2>1, CountAll
<1>5. Count(sq, Unissued(N, id)) = 0
  <2>1. \A k \in 1 .. Len(sq) : sq[k] \notin Unissued(N, id)
    BY <1>1 DEF Unissued, AreOlder
  <2>2. QED
    BY <2>1, CountZero
<1>6. \A r : r # id => Cardinality(StoresFor(sq \o news, r)) = Cardinality(StoresFor(sq, r))
  <2> SUFFICES ASSUME NEW r, r # id
               PROVE  Cardinality(StoresFor(sq \o news, r)) = Cardinality(StoresFor(sq, r))
    OBVIOUS
  <2>1. /\ Count(sq, Unissued(N, r)) \in Nat
        /\ Cardinality(StoresFor(sq, r)) = Count(sq, Unissued(N, r))
        /\ Cardinality(StoresFor(sq \o news, r))
           = Count(sq, Unissued(N, r)) + Count(news, Unissued(N, r))
        /\ Count(news, Unissued(N, r)) = 0
    BY <1>2, <1>3
  <2>2. QED
    BY <2>1
<1>7. Cardinality(StoresFor(sq \o news, id)) = Len(news)
  <2>1. Cardinality(StoresFor(sq \o news, id))
        = Count(sq, Unissued(N, id)) + Count(news, Unissued(N, id))
    BY <1>2
  <2>2. QED
    BY <1>1, <1>4, <1>5, <2>1
<1>8. QED
  BY <1>6, <1>7

\* An instruction enters the ROB: its loads are done or in the load queue.
LEMMA MemAppend ==
  ASSUME NEW prog, NEW base \in Nat, NEW rob \in Seq(Entry), NEW N \in Nat, NEW lq0, NEW sq0,
         MemInv(prog, base, rob, lq0, sq0), Len(prog) \in Nat,
         NEW id, id = base + Len(rob) + 1, id <= Len(prog), NEW size, NEW k \in Nat,
         NEW m, Adding(prog, base, rob, N, size, id, k, m),
         NEW news \in Seq(Store(N)),
         AreNew(news, id),
         k + Len(news) = Ops(prog, id),
         NEW e \in Entry, e.id = id, e.memops = m.memops, ~e.completed
  PROVE  MemInv(prog, base, Append(rob, e), m.lq, m.sq \o news)
<1> DEFINE c == m.memops
           lq == m.lq
           sq == m.sq
           sq2 == sq \o news
           rob2 == Append(rob, e)
<1>1. \A i \in DOMAIN rob : rob[i].id = base + i /\ (rob[i].completed => rob[i].memops = Ops(prog, base + i))
  BY DEF MemInv
<1>2. /\ Len(rob) \in Nat /\ DOMAIN rob = 1 .. Len(rob)
  BY LenProperties
<1>3. id \in Nat /\ base < id /\ DOMAIN rob = 1 .. id - base - 1 /\ id - 1 = base + Len(rob)
  BY <1>2
<1>4. m \in [id : Nat, memops : Nat, lq : [1 .. N -> Slot], sq : Seq(Store(N))]
  BY DEF Adding
<1>5. c \in Nat /\ lq \in [1 .. N -> Slot] /\ sq \in Seq(Store(N))
  BY <1>4
<1>6. /\ \A i \in DOMAIN rob :
            rob[i].memops + Cardinality(LoadsFor(lq, base + i)) + Cardinality(StoresFor(sq, base + i))
            = Ops(prog, base + i)
      /\ c + Cardinality(LoadsFor(lq, id)) = k
      /\ \A s \in DOMAIN lq : lq[s] # NoEntry => lq[s].id \in base + 1 .. id
      /\ \A j \in DOMAIN sq : sq[j].id \in 1 .. id - 1 /\ (sq[j].id <= base => sq[j].issued)
      /\ StoresOrdered(sq) /\ LoadsWait(lq, sq) /\ StoresKnow(lq, sq)
      /\ e.memops = c
  BY DEF Adding
<1> HIDE DEF c, lq, sq
<1>7. Len(sq) \in Nat /\ DOMAIN lq = 1 .. N
  BY <1>5, LenProperties
<1>8. /\ sq2 \in Seq(Store(N)) /\ Len(sq2) = Len(sq) + Len(news)
      /\ DOMAIN sq2 = 1 .. Len(sq) + Len(news)
      /\ \A j \in 1 .. Len(sq) : sq2[j] = sq[j]
      /\ \A j \in Len(sq) + 1 .. Len(sq) + Len(news) :
            j - Len(sq) \in DOMAIN news /\ sq2[j] = news[j - Len(sq)]
      /\ DOMAIN sq = 1 .. Len(sq) /\ Len(news) \in Nat
  BY ONLY <1>5, news \in Seq(Store(N)), JoinedParts
<1>9. DOMAIN sq \subseteq DOMAIN sq2
  BY <1>7, <1>8
\* An entry of the store queue is an old one or a new one.
<1>10. \A j \in DOMAIN sq2 : \/ j \in DOMAIN sq /\ sq2[j] = sq[j]
                             \/ /\ j > Len(sq) /\ sq2[j].id = id /\ ~sq2[j].issued
                                /\ sq2[j].waiters = {}
  BY <1>7, <1>8, SMTT(30) DEF AreNew
<1>11. /\ \A i \in DOMAIN rob : Cardinality(StoresFor(sq2, base + i)) = Cardinality(StoresFor(sq, base + i))
       /\ Cardinality(StoresFor(sq2, id)) = Len(news)
  <2>1. AreOlder(sq, id)
    BY <1>3, <1>6 DEF AreOlder
  <2>2. /\ \A r : r # id => Cardinality(StoresFor(sq2, r)) = Cardinality(StoresFor(sq, r))
        /\ Cardinality(StoresFor(sq2, id)) = Len(news)
    BY <1>5, <2>1, StoresJoined
  <2>3. \A i \in DOMAIN rob : base + i # id
    BY <1>3
  <2>4. QED
    BY <2>2, <2>3
<1> HIDE DEF sq2
<1>12. /\ Len(rob2) = Len(rob) + 1 /\ DOMAIN rob2 = 1 .. Len(rob) + 1 /\ rob2 \in Seq(Entry)
       /\ \A i \in DOMAIN rob : rob2[i] = rob[i]
       /\ rob2[Len(rob) + 1] = e /\ base + (Len(rob) + 1) = id
  <2>1. /\ rob2 \in Seq(Entry) /\ Len(rob2) = Len(rob) + 1
        /\ \A i \in 1 .. Len(rob) : rob2[i] = rob[i]
        /\ rob2[Len(rob) + 1] = e
    BY AppendProperties
  <2>2. DOMAIN rob2 = 1 .. Len(rob2)
    BY <2>1, LenProperties
  <2>3. base + (Len(rob) + 1) = id
    BY <1>2
  <2> HIDE DEF rob2
  <2>4. QED
    BY <1>2, <2>1, <2>2, <2>3
<1> HIDE DEF rob2
<1>13. \A i \in DOMAIN rob2 :
          /\ rob2[i].id = base + i
          /\ rob2[i].memops + Cardinality(LoadsFor(lq, base + i)) + Cardinality(StoresFor(sq2, base + i))
             = Ops(prog, base + i)
          /\ rob2[i].completed => rob2[i].memops = Ops(prog, base + i)
  <2> SUFFICES ASSUME NEW i \in 1 .. Len(rob) + 1
               PROVE  /\ rob2[i].id = base + i
                      /\ rob2[i].memops + Cardinality(LoadsFor(lq, base + i))
                           + Cardinality(StoresFor(sq2, base + i)) = Ops(prog, base + i)
                      /\ rob2[i].completed => rob2[i].memops = Ops(prog, base + i)
    BY <1>12
  <2>1. CASE i \in DOMAIN rob
    <3>1. rob2[i] = rob[i]
      BY <1>12, <2>1
    <3>2. /\ rob[i].id = base + i
          /\ rob[i].memops + Cardinality(LoadsFor(lq, base + i))
               + Cardinality(StoresFor(sq, base + i)) = Ops(prog, base + i)
          /\ rob[i].completed => rob[i].memops = Ops(prog, base + i)
      BY <1>1, <1>6, <2>1
    <3>3. Cardinality(StoresFor(sq2, base + i)) = Cardinality(StoresFor(sq, base + i))
      BY <1>11, <2>1
    <3>4. QED
      BY <3>1, <3>2, <3>3
  <2>2. CASE i = Len(rob) + 1
    <3>1. rob2[i] = e /\ base + i = id
      BY <1>12, <2>2
    <3>2. c + Cardinality(LoadsFor(lq, id)) + Cardinality(StoresFor(sq2, id)) = Ops(prog, id)
      BY <1>6, <1>11
    <3>3. QED
      BY <1>6, <3>1, <3>2
  <2>3. QED
    BY <1>2, <2>1, <2>2
<1>14. StoresOrdered(sq2)
  <2> SUFFICES ASSUME NEW i \in DOMAIN sq2, NEW j \in DOMAIN sq2, i < j
               PROVE  sq2[i].id <= sq2[j].id /\ (sq2[j].issued => sq2[i].issued)
    BY DEF StoresOrdered
  <2>1. CASE j \in DOMAIN sq
    <3>1. i \in DOMAIN sq
      BY <1>8, <1>9, <2>1
    <3>2. sq2[i] = sq[i] /\ sq2[j] = sq[j]
      BY <1>8, <1>9, <2>1, <3>1
    <3>3. QED
      BY <1>6, <2>1, <3>1, <3>2 DEF StoresOrdered
  <2>2. CASE j \notin DOMAIN sq
    <3>1. sq2[j].id = id /\ ~sq2[j].issued
      BY <1>10, <2>2
    <3>2. sq2[i].id <= id
      <4>1. CASE i \in DOMAIN sq /\ sq2[i] = sq[i]
        BY <1>3, <1>6, <4>1
      <4>2. CASE sq2[i].id = id
        BY <1>3, <4>2
      <4>3. QED
        BY <1>10, <4>1, <4>2
    <3>3. QED
      BY <3>1, <3>2
  <2>3. QED
    BY <2>1, <2>2
<1>15. LoadsWait(lq, sq2)
  <2> SUFFICES ASSUME NEW s \in DOMAIN lq, lq[s] # NoEntry
               PROVE  /\ \A i \in DOMAIN sq2 :
                            (sq2[i].addr = lq[s].addr /\ sq2[i].id < lq[s].id /\ ~sq2[i].issued)
                               => lq[s].producer \in sq2[i].id .. lq[s].id - 1
                      /\ lq[s].producer # Never =>
                            /\ ~lq[s].issued
                            /\ \E i \in DOMAIN sq2 :
                                  /\ sq2[i].id = lq[s].producer /\ ~sq2[i].issued
                                  /\ sq2[i].addr = lq[s].addr /\ s \in sq2[i].waiters
    BY DEF LoadsWait
  <2>1. /\ \A i \in DOMAIN sq :
              (sq[i].addr = lq[s].addr /\ sq[i].id < lq[s].id /\ ~sq[i].issued)
                 => lq[s].producer \in sq[i].id .. lq[s].id - 1
        /\ lq[s].producer # Never =>
              /\ ~lq[s].issued
              /\ \E i \in DOMAIN sq : /\ sq[i].id = lq[s].producer /\ ~sq[i].issued
                                        /\ sq[i].addr = lq[s].addr /\ s \in sq[i].waiters
    BY <1>6 DEF LoadsWait
  <2>2. ASSUME NEW i \in DOMAIN sq2,
               sq2[i].addr = lq[s].addr, sq2[i].id < lq[s].id, ~sq2[i].issued
        PROVE  lq[s].producer \in sq2[i].id .. lq[s].id - 1
    <3>1. lq[s].id \in base + 1 .. id
      BY <1>6
    <3>2. sq2[i].id # id
      BY <1>3, <2>2, <3>1
    <3>3. i \in DOMAIN sq /\ sq2[i] = sq[i]
      BY <1>10, <3>2
    <3>4. QED
      BY <2>1, <2>2, <3>3
  <2>3. ASSUME lq[s].producer # Never
        PROVE  /\ ~lq[s].issued
               /\ \E i \in DOMAIN sq2 :
                     /\ sq2[i].id = lq[s].producer /\ ~sq2[i].issued
                     /\ sq2[i].addr = lq[s].addr /\ s \in sq2[i].waiters
    <3>1. PICK i \in DOMAIN sq : /\ sq[i].id = lq[s].producer /\ ~sq[i].issued
                                   /\ sq[i].addr = lq[s].addr /\ s \in sq[i].waiters
      BY <2>1, <2>3
    <3>2. i \in DOMAIN sq2 /\ sq2[i] = sq[i]
      <4>1. i \in 1 .. Len(sq) /\ i \in 1 .. Len(sq) + Len(news)
        BY <1>2, <1>7, <1>9
      <4>2. QED
        BY <1>8, <4>1
    <3>3. QED
      BY <2>1, <2>3, <3>1, <3>2
  <2>4. QED
    BY <2>2, <2>3
<1>16. StoresKnow(lq, sq2)
  <2> SUFFICES ASSUME NEW i \in DOMAIN sq2, ~sq2[i].issued, NEW s \in sq2[i].waiters
               PROVE  /\ s \in DOMAIN lq /\ lq[s] # NoEntry /\ lq[s].producer = sq2[i].id
                      /\ \A j \in DOMAIN sq2 : j # i /\ ~sq2[j].issued => s \notin sq2[j].waiters
    BY DEF StoresKnow
  <2>1. i \in DOMAIN sq /\ sq2[i] = sq[i]
    BY <1>10
  <2>2. /\ s \in DOMAIN lq /\ lq[s] # NoEntry /\ lq[s].producer = sq[i].id
        /\ \A j \in DOMAIN sq : j # i /\ ~sq[j].issued => s \notin sq[j].waiters
    BY <1>6, <2>1 DEF StoresKnow
  <2>3. \A j \in DOMAIN sq2 : j # i /\ ~sq2[j].issued => s \notin sq2[j].waiters
    BY <1>10, <2>2
  <2>4. QED
    BY <2>1, <2>2, <2>3
<1>17. \A s \in DOMAIN lq : lq[s] # NoEntry => lq[s].id \in base + 1 .. base + Len(rob2)
  BY <1>2, <1>3, <1>6, <1>12
<1>18. \A j \in DOMAIN sq2 : /\ sq2[j].id \in 1 .. base + Len(rob2)
                             /\ sq2[j].id <= base => sq2[j].issued
  <2> SUFFICES ASSUME NEW j \in DOMAIN sq2
               PROVE  /\ sq2[j].id \in 1 .. base + Len(rob2)
                      /\ sq2[j].id <= base => sq2[j].issued
    OBVIOUS
  <2>1. CASE j \in DOMAIN sq /\ sq2[j] = sq[j]
    BY <1>3, <1>6, <1>12, <2>1
  <2>2. CASE sq2[j].id = id
    BY <1>3, <1>12, <2>2
  <2>3. QED
    BY <1>10, <2>1, <2>2
<1>19. base + Len(rob2) <= Len(prog)
  BY <1>12
<1>20. MemInv(prog, base, rob2, lq, sq2)
  BY <1>13, <1>14, <1>15, <1>16, <1>17, <1>18, <1>19 DEF MemInv
<1>21. QED
  BY <1>20 DEF rob2, sq2, lq, sq

\* Instruction id is next, and there is room for its loads.
Entering(prog, base, rob, lq, id, loads, stores) ==
    /\ id = base + Len(rob) + 1 /\ id <= Len(prog)
    /\ loads \in Seq(Addresses) /\ stores \in Seq(Addresses)
    /\ loads = prog[id].loads /\ stores = prog[id].stores
    /\ Cardinality(FreeSlots(lq)) >= Len(loads)

WithLoads(id, lq, sq, loads) ==
    FoldLeft(AddLoad, [id |-> id, memops |-> 0, lq |-> lq, sq |-> sq], loads)

\* add_to_load_queue, once for each load of an instruction that enters.
LEMMA LoadsAdded ==
  ASSUME NEW prog, NEW base \in Nat, NEW rob \in Seq(Entry), NEW N \in Nat,
         NEW lq \in [1 .. N -> Slot], NEW sq \in Seq(Store(N)),
         MemInv(prog, base, rob, lq, sq),
         NEW id, NEW loads, NEW stores, Entering(prog, base, rob, lq, id, loads, stores)
  PROVE  Adding(prog, base, rob, N, Len(sq), id, Len(loads), WithLoads(id, lq, sq, loads))
<1> DEFINE x == [id |-> id, memops |-> 0, lq |-> lq, sq |-> sq]
<1>1. /\ id = base + Len(rob) + 1 /\ id <= Len(prog) /\ loads \in Seq(Addresses)
      /\ Cardinality(FreeSlots(lq)) >= Len(loads)
  BY DEF Entering
<1>2. /\ base + Len(rob) <= Len(prog)
      /\ \A i \in DOMAIN rob : rob[i].id = base + i
      /\ \A i \in DOMAIN rob :
            /\ rob[i].memops + Cardinality(LoadsFor(lq, base + i)) + Cardinality(StoresFor(sq, base + i))
               = Ops(prog, base + i)
            /\ rob[i].completed => rob[i].memops = Ops(prog, base + i)
      /\ \A s \in DOMAIN lq : lq[s] # NoEntry => lq[s].id \in base + 1 .. base + Len(rob)
      /\ \A j \in DOMAIN sq : sq[j].id \in 1 .. base + Len(rob) /\ (sq[j].id <= base => sq[j].issued)
      /\ StoresOrdered(sq) /\ LoadsWait(lq, sq) /\ StoresKnow(lq, sq)
  BY DEF MemInv
<1>3. /\ Len(rob) \in Nat /\ DOMAIN rob = 1 .. Len(rob) /\ DOMAIN lq = 1 .. N
      /\ Len(sq) \in Nat
  BY LenProperties
<1>4. id \in Nat /\ base < id /\ DOMAIN rob = 1 .. id - base - 1 /\ id - 1 = base + Len(rob)
  BY <1>1, <1>3
<1>5. Adding(prog, base, rob, N, Len(sq), id, Len(loads), WithLoads(id, lq, sq, loads))
  <2>1. /\ x \in [id : Nat, memops : Nat, lq : [1 .. N -> Slot], sq : Seq(Store(N))]
        /\ x.id = id /\ x.memops = 0 /\ x.lq = lq /\ x.sq = sq
    BY <1>4
  <2>2. LoadsFor(lq, id) = {}
    BY <1>2, <1>3, <1>4 DEF LoadsFor
  <2>3. Cardinality(LoadsFor(lq, id)) = 0
    BY <2>2, FS_EmptySet
  <2> HIDE DEF x
  <2>4. Adding(prog, base, rob, N, Len(sq), id, 0, x)
    <3>1. \A s \in DOMAIN lq : lq[s] # NoEntry => lq[s].id \in base + 1 .. id
      BY <1>2, <1>3, <1>4
    <3>2. \A j \in DOMAIN sq : sq[j].id \in 1 .. id - 1 /\ (sq[j].id <= base => sq[j].issued)
      BY <1>2, <1>4
    <3>3. x.memops + Cardinality(LoadsFor(x.lq, id)) = 0
      BY <2>1, <2>3
    <3>4. QED
      BY <1>2, <2>1, <3>1, <3>2, <3>3 DEF Adding
  <2>5. QED
    BY <1>1, <1>4, <2>1, <2>4, AddLoadsKeep DEF x, WithLoads
<1>6. QED
  BY <1>5

\* An instruction enters the ROB with its loads and stores.
NewStores(id, stores) == [k \in DOMAIN stores |-> NewStore(id, stores[k])]

\* The memory invariant of a ROB and its queues, with n stores.
Queued(prog, base, N, n, rob, lq, sq) ==
    /\ MemInv(prog, base, rob, lq, sq)
    /\ lq \in [1 .. N -> Slot] /\ sq \in Seq(Store(N)) /\ Len(sq) = n

\* The memory invariant when an instruction enters the three queues
\* (do_memory_scheduling).
LEMMA MemDispatch ==
  ASSUME NEW prog, NEW base \in Nat, NEW rob \in Seq(Entry), NEW N \in Nat,
         NEW lq \in [1 .. N -> Slot], NEW sq \in Seq(Store(N)),
         MemInv(prog, base, rob, lq, sq), Len(prog) \in Nat,
         NEW id, NEW loads, NEW stores, Entering(prog, base, rob, lq, id, loads, stores),
         NEW m, Adding(prog, base, rob, N, Len(sq), id, Len(loads), m),
         NEW e \in Entry, e.id = id, e.memops = m.memops, ~e.completed
  PROVE  Queued(prog, base, N, Len(sq) + Len(stores),
                Append(rob, e), m.lq, m.sq \o NewStores(id, stores))
<1> DEFINE news == [k \in DOMAIN stores |-> NewStore(id, stores[k])]
<1>1. /\ id = base + Len(rob) + 1 /\ id <= Len(prog)
      /\ loads \in Seq(Addresses) /\ stores \in Seq(Addresses)
      /\ loads = prog[id].loads /\ stores = prog[id].stores
  BY DEF Entering
<1>2. Len(rob) \in Nat
  BY LenProperties
<1>3. id \in Nat
  BY <1>1, <1>2
<1>4. Adding(prog, base, rob, N, Len(sq), id, Len(loads), m)
  OBVIOUS
<1>5. m \in [id : Nat, memops : Nat, lq : [1 .. N -> Slot], sq : Seq(Store(N))]
  BY <1>4 DEF Adding
<1>6. /\ news \in Seq(Store(N)) /\ Len(news) = Len(stores) /\ Len(stores) \in Nat
      /\ DOMAIN news = 1 .. Len(stores)
      /\ \A k \in 1 .. Len(stores) :
            news[k].id = id /\ ~news[k].issued /\ news[k].waiters = {}
  <2>1. /\ DOMAIN stores = 1 .. Len(stores) /\ Len(stores) \in Nat
        /\ \A k \in 1 .. Len(stores) : stores[k] \in Addresses
    BY <1>1, LenProperties, ElementOfSeq
  <2>2. \A k \in 1 .. Len(stores) :
           /\ NewStore(id, stores[k]) \in Store(N) /\ NewStore(id, stores[k]).id = id
           /\ ~NewStore(id, stores[k]).issued /\ NewStore(id, stores[k]).waiters = {}
    BY <1>3, <2>1, BackendAssumption DEF NewStore, Store
  <2>3. news \in [1 .. Len(stores) -> Store(N)]
    BY <2>1, <2>2
  <2>4. news \in Seq(Store(N)) /\ Len(news) = Len(stores)
    <3>1. QED
      BY <2>1, <2>3, FunctionIsSequence
  <2>5. QED
    BY <2>1, <2>2, <2>3, <2>4
<1> HIDE DEF news
<1>7. MemInv(prog, base, Append(rob, e), m.lq, m.sq \o news)
  <2>1. AreNew(news, id)
    BY <1>6 DEF AreNew
  <2>2. Len(loads) \in Nat /\ Len(loads) + Len(news) = Ops(prog, id)
    BY <1>1, <1>6, LenProperties DEF Ops
  <2>3. /\ rob \in Seq(Entry) /\ N \in Nat /\ MemInv(prog, base, rob, lq, sq) /\ Len(prog) \in Nat
        /\ id = base + Len(rob) + 1 /\ id <= Len(prog) /\ base \in Nat
        /\ news \in Seq(Store(N)) /\ e \in Entry /\ e.id = id /\ e.memops = m.memops /\ ~e.completed
    BY <1>1, <1>6
  <2>4. QED
    BY ONLY <1>4, <2>1, <2>2, <2>3, MemAppend
<1>8. m.lq \in [1 .. N -> Slot] /\ m.sq \in Seq(Store(N)) /\ Len(m.sq) = Len(sq)
  BY <1>4, <1>5 DEF Adding
<1>9. m.sq \o news \in Seq(Store(N)) /\ Len(m.sq \o news) = Len(m.sq) + Len(news)
  <2> DEFINE ms == m.sq
  <2>1. ms \in Seq(Store(N)) /\ news \in Seq(Store(N))
    BY <1>6, <1>8
  <2> HIDE DEF ms
  <2>2. ms \o news \in Seq(Store(N)) /\ Len(ms \o news) = Len(ms) + Len(news)
    BY ONLY <2>1, JoinedParts
  <2>3. QED
    BY <2>2 DEF ms
<1>10. QED
  BY <1>6, <1>7, <1>8, <1>9 DEF news, NewStores, Queued

-----------------------------------------------------------------------------
(* The registers of the instructions in flight. *)

\* The ROB holds the instructions of the program that come after base.
Follows(prog, base, rob) ==
    /\ prog \in Seq(Instruction) /\ base \in Nat /\ rob \in Seq(Entry)
    /\ base + Len(rob) <= Len(prog)
    /\ \A i \in DOMAIN rob : rob[i].id = base + i

\* An entry of the ROB and its instruction.
LEMMA InProgram ==
  ASSUME NEW prog, NEW base, NEW rob, NEW i, Follows(prog, base, rob), i \in DOMAIN rob
  PROVE  /\ rob[i] \in Entry /\ rob[i].id = base + i /\ base + i \in Nat
         /\ base + i \in 1 .. Len(prog) /\ i \in 1 .. Len(rob) /\ Len(rob) \in Nat
         /\ prog[base + i] \in Instruction
         /\ prog[base + i].srcs \in Seq(ArchRegs) /\ prog[base + i].dsts \in Seq(ArchRegs)
         /\ prog[base + i].loads \in Seq(Addresses) /\ prog[base + i].stores \in Seq(Addresses)
         /\ rob[i].srcs \in Seq(Int) /\ rob[i].dsts \in Seq(Int) /\ rob[i].memops \in Nat
         /\ rob[i].ready \in Int
<1>1. /\ prog \in Seq(Instruction) /\ base \in Nat /\ rob \in Seq(Entry)
      /\ base + Len(rob) <= Len(prog) /\ rob[i].id = base + i
  BY DEF Follows
<1>2. /\ Len(rob) \in Nat /\ DOMAIN rob = 1 .. Len(rob) /\ Len(prog) \in Nat
  BY <1>1, LenProperties
<1>3. base + i \in Nat /\ base + i \in 1 .. Len(prog) /\ i \in 1 .. Len(rob)
  BY <1>1, <1>2
<1>4. rob[i] \in Entry /\ prog[base + i] \in Instruction
  BY <1>1, <1>2, <1>3, ElementOfSeq
<1>5. /\ prog[base + i].srcs \in Seq(ArchRegs) /\ prog[base + i].dsts \in Seq(ArchRegs)
      /\ prog[base + i].loads \in Seq(Addresses) /\ prog[base + i].stores \in Seq(Addresses)
  BY <1>4 DEF Instruction
<1>6. /\ rob[i].srcs \in Seq(Int) /\ rob[i].dsts \in Seq(Int) /\ rob[i].memops \in Nat
      /\ rob[i].ready \in Int
  BY <1>4 DEF Entry
<1>7. QED
  BY <1>1, <1>2, <1>3, <1>4, <1>5, <1>6

\* A result is an operand of a scheduled instruction.
LEMMA ResultPlace ==
  ASSUME NEW prog, NEW base, NEW rob, Follows(prog, base, rob)
  PROVE  /\ DOMAIN ResultsOf(rob, base) = Results(rob)
         /\ \A v \in Results(rob) :
               /\ v \in Nat \X Nat /\ v[1] - base \in DOMAIN rob /\ v[1] = base + (v[1] - base)
               /\ rob[v[1] - base].scheduled /\ v[2] \in DOMAIN rob[v[1] - base].dsts
               /\ ResultsOf(rob, base)[v] = rob[v[1] - base].dsts[v[2]]
         /\ \A i \in DOMAIN rob : rob[i].scheduled =>
               \A k \in DOMAIN rob[i].dsts : /\ <<base + i, k>> \in Results(rob)
                                             /\ ResultsOf(rob, base)[<<base + i, k>>] = rob[i].dsts[k]
<1>1. \A i \in DOMAIN rob : /\ rob[i].id = base + i /\ base + i \in Nat /\ (base + i) - base = i
                            /\ DOMAIN rob[i].dsts \subseteq Nat
  <2> SUFFICES ASSUME NEW i \in DOMAIN rob
               PROVE  /\ rob[i].id = base + i /\ base + i \in Nat /\ (base + i) - base = i
                      /\ DOMAIN rob[i].dsts \subseteq Nat
    OBVIOUS
  <2>0. rob[i].dsts \in Seq(Int)
    BY InProgram
  <2>00. rob[i].id = base + i
    BY DEF Follows
  <2>1. /\ rob[i].id = base + i /\ base + i \in Nat /\ i \in 1 .. Len(rob) /\ Len(rob) \in Nat
        /\ rob[i].dsts \in Seq(Int)
    BY <2>0, <2>00, InProgram
  <2>2. base \in Nat
    BY DEF Follows
  <2>3. DOMAIN rob[i].dsts = 1 .. Len(rob[i].dsts) /\ Len(rob[i].dsts) \in Nat
    BY <2>1, LenProperties
  <2>4. QED
    BY <2>1, <2>2, <2>3
<1>2. DOMAIN ResultsOf(rob, base) = Results(rob)
  BY DEF ResultsOf
<1>3. \A v \in Results(rob) : ResultsOf(rob, base)[v] = rob[v[1] - base].dsts[v[2]]
  BY DEF ResultsOf
<1>4. ASSUME NEW v \in Results(rob)
      PROVE  /\ v \in Nat \X Nat /\ v[1] - base \in DOMAIN rob /\ v[1] = base + (v[1] - base)
             /\ rob[v[1] - base].scheduled /\ v[2] \in DOMAIN rob[v[1] - base].dsts
  <2>1. PICK i \in DOMAIN rob : rob[i].scheduled /\ v \in {<<rob[i].id, k>> : k \in DOMAIN rob[i].dsts}
    BY DEF Results
  <2>2. PICK k \in DOMAIN rob[i].dsts : v = <<rob[i].id, k>>
    BY <2>1
  <2>3. v[1] = base + i /\ v[2] = k /\ v[1] - base = i /\ k \in Nat /\ base + i \in Nat
    BY <1>1, <2>2
  <2>4. v \in Nat \X Nat
    BY <1>1, <2>2, <2>3
  <2>5. QED
    BY <2>1, <2>2, <2>3, <2>4
<1>5. ASSUME NEW i \in DOMAIN rob, rob[i].scheduled, NEW k \in DOMAIN rob[i].dsts
      PROVE  /\ <<base + i, k>> \in Results(rob)
             /\ ResultsOf(rob, base)[<<base + i, k>>] = rob[i].dsts[k]
  <2>1. <<rob[i].id, k>> \in {<<rob[i].id, kk>> : kk \in DOMAIN rob[i].dsts}
    OBVIOUS
  <2>2. <<rob[i].id, k>> \in Results(rob)
    BY <1>5, <2>1 DEF Results
  <2> DEFINE v == <<base + i, k>>
  <2>3. v \in Results(rob) /\ v[1] - base = i /\ v[2] = k
    BY <1>1, <2>2
  <2>4. ResultsOf(rob, base)[v] = rob[v[1] - base].dsts[v[2]]
    BY <1>3, <2>3
  <2>5. QED
    BY <2>3, <2>4
<1>6. QED
  BY <1>2, <1>3, <1>4, <1>5

\* Two ROBs with the same results.
SameRegisters(rob, rob2) ==
    /\ DOMAIN rob2 = DOMAIN rob
    /\ \A i \in DOMAIN rob : /\ rob2[i].id = rob[i].id /\ rob2[i].scheduled = rob[i].scheduled
                             /\ rob2[i].srcs = rob[i].srcs /\ rob2[i].dsts = rob[i].dsts

LEMMA ResultsAlike ==
  ASSUME NEW prog, NEW base, NEW rob, NEW rob2,
         Follows(prog, base, rob), Follows(prog, base, rob2), SameRegisters(rob, rob2)
  PROVE  ResultsOf(rob2, base) = ResultsOf(rob, base)
<1> DEFINE f == ResultsOf(rob, base)
           f2 == ResultsOf(rob2, base)
<1>1. /\ DOMAIN rob2 = DOMAIN rob
      /\ \A i \in DOMAIN rob : /\ rob2[i].scheduled = rob[i].scheduled
                               /\ rob2[i].dsts = rob[i].dsts /\ rob2[i].id = rob[i].id
  BY DEF SameRegisters
<1>2. Results(rob2) = Results(rob)
  <2>1. {i \in DOMAIN rob2 : rob2[i].scheduled} = {i \in DOMAIN rob : rob[i].scheduled}
    BY <1>1
  <2>2. \A i \in {i \in DOMAIN rob : rob[i].scheduled} :
           {<<rob2[i].id, k>> : k \in DOMAIN rob2[i].dsts} = {<<rob[i].id, k>> : k \in DOMAIN rob[i].dsts}
    BY <1>1
  <2>3. QED
    BY <2>1, <2>2 DEF Results
<1>3. \A v \in Results(rob) : rob2[v[1] - base].dsts[v[2]] = rob[v[1] - base].dsts[v[2]]
  <2> SUFFICES ASSUME NEW v \in Results(rob)
               PROVE  rob2[v[1] - base].dsts[v[2]] = rob[v[1] - base].dsts[v[2]]
    OBVIOUS
  <2>1. v[1] - base \in DOMAIN rob
    BY ResultPlace
  <2>2. QED
    BY <1>1, <2>1
<1>4. QED
  BY <1>2, <1>3 DEF ResultsOf

\* Instructions that read what they read before, and execute on values.
LEMMA RegChange ==
  ASSUME NEW prog, NEW base, NEW a, NEW b, NEW rob, NEW rob2, NEW latency,
         RegInv(prog, base, a, rob, latency),
         Follows(prog, base, rob), Follows(prog, base, rob2), SameRegisters(rob, rob2),
         Ordered(rob2, latency),
         Accounted(b, ResultsOf(rob, base), Nat),
         Carries(a, ResultsOf(rob, base), b, ResultsOf(rob, base), Nat),
         \A p \in PhysRegs : b.file[p].arch = a.file[p].arch,
         \A i \in DOMAIN rob : rob2[i].executed =>
            rob[i].executed \/ \A k \in DOMAIN rob[i].srcs : b.file[rob[i].srcs[k]].valid
  PROVE  RegInv(prog, base, b, rob2, latency)
<1> DEFINE w == ResultsOf(rob, base)
<1>1. ResultsOf(rob2, base) = w
  BY ResultsAlike
<1>2. /\ DOMAIN rob2 = DOMAIN rob
      /\ \A i \in DOMAIN rob : /\ rob2[i].id = rob[i].id /\ rob2[i].scheduled = rob[i].scheduled
                               /\ rob2[i].srcs = rob[i].srcs /\ rob2[i].dsts = rob[i].dsts
  BY DEF SameRegisters
<1>3. \A i \in DOMAIN rob :
         IF rob[i].scheduled THEN Renamed(prog, a, w, rob[i])
         ELSE rob[i].srcs = prog[base + i].srcs /\ rob[i].dsts = prog[base + i].dsts
  BY DEF RegInv
<1> HIDE DEF w
<1>4. ASSUME NEW i \in DOMAIN rob, rob[i].scheduled
      PROVE  Renamed(prog, b, w, rob2[i])
  <2> DEFINE id == base + i
             sr == rob[i].srcs
             ds == rob[i].dsts
  <2>0. rob[i].id = base + i
    BY DEF Follows
  <2>1. /\ rob[i].id = id /\ id \in Nat /\ prog[id].srcs \in Seq(ArchRegs)
    BY <2>0, InProgram
  <2>2. rob2[i].id = id /\ rob2[i].srcs = sr /\ rob2[i].dsts = ds
    BY <1>2, <2>1
  <2>3. /\ Len(sr) = Len(prog[id].srcs) /\ Len(ds) = Len(prog[id].dsts)
        /\ \A k \in DOMAIN ds : ds[k] \in PhysRegs /\ a.file[ds[k]].arch = prog[id].dsts[k]
        /\ \A k \in DOMAIN sr : /\ sr[k] \in PhysRegs
                                /\ Resolves(a, w, id, prog[id].srcs[k], sr[k])
                                /\ rob[i].executed => a.file[sr[k]].valid
    BY <1>3, <1>4, <2>1 DEF Renamed
  <2>4. rob2[i].executed => rob[i].executed \/ \A k \in DOMAIN sr : b.file[sr[k]].valid
    OBVIOUS
  <2>5. DOMAIN sr = DOMAIN prog[id].srcs /\ \A k \in DOMAIN sr : prog[id].srcs[k] \in ArchRegs
    <3>1. sr \in Seq(Int)
      BY InProgram
    <3>2. /\ DOMAIN sr = 1 .. Len(sr) /\ DOMAIN prog[id].srcs = 1 .. Len(prog[id].srcs)
          /\ \A k \in DOMAIN prog[id].srcs : prog[id].srcs[k] \in ArchRegs
      BY <2>1, <3>1, LenProperties, ElementOfSeq
    <3>3. QED
      BY <2>3, <3>2
  <2> HIDE DEF id, sr, ds
  <2>6. \A k \in DOMAIN sr : /\ Resolves(b, w, id, prog[id].srcs[k], sr[k])
                             /\ a.file[sr[k]].valid => b.file[sr[k]].valid
    BY <2>1, <2>3, <2>5 DEF Carries, w
  <2>7. \A k \in DOMAIN ds : b.file[ds[k]].arch = prog[id].dsts[k]
    BY <2>3
  <2>8. QED
    BY <2>2, <2>3, <2>4, <2>6, <2>7 DEF Renamed
<1>5. ASSUME NEW i \in DOMAIN rob, ~rob[i].scheduled
      PROVE  rob2[i].srcs = prog[base + i].srcs /\ rob2[i].dsts = prog[base + i].dsts
  BY <1>2, <1>3, <1>5
<1>6. QED
  BY <1>1, <1>2, <1>4, <1>5 DEF RegInv, w

\* An instruction that is not scheduled enters the ROB.
LEMMA RegAppend ==
  ASSUME NEW prog, NEW base, NEW a, NEW rob, NEW latency \in Nat, NEW e \in Entry,
         RegInv(prog, base, a, rob, latency), Follows(prog, base, rob),
         ~e.scheduled, ~e.executed, ~e.completed, e.ready = latency,
         e.srcs = prog[base + Len(rob) + 1].srcs, e.dsts = prog[base + Len(rob) + 1].dsts
  PROVE  RegInv(prog, base, a, Append(rob, e), latency)
<1> DEFINE n == Len(rob)
           r2 == Append(rob, e)
<1>1. rob \in Seq(Entry) /\ base \in Nat
  BY DEF Follows
<1>2. /\ n \in Nat /\ DOMAIN rob = 1 .. n /\ DOMAIN r2 = 1 .. n + 1
      /\ \A i \in 1 .. n : r2[i] = rob[i]
      /\ r2[n + 1] = e
  BY <1>1, LenProperties, AppendProperties
<1> HIDE DEF n, r2
<1>3. \A i \in DOMAIN r2 : (i \in DOMAIN rob /\ r2[i] = rob[i]) \/ (i = n + 1 /\ r2[i] = e)
  <2> SUFFICES ASSUME NEW i \in 1 .. n + 1
               PROVE  (i \in 1 .. n /\ r2[i] = rob[i]) \/ (i = n + 1 /\ r2[i] = e)
    BY <1>2
  <2>1. i \in 1 .. n \/ i = n + 1
    BY <1>2
  <2>2. QED
    BY <1>2, <2>1
<1>4. \A i \in DOMAIN rob : i \in DOMAIN r2 /\ r2[i] = rob[i] /\ i \in Nat /\ i < n + 1
  BY <1>2
<1>5. Results(r2) = Results(rob)
  <2>1. {i \in DOMAIN r2 : r2[i].scheduled} = {i \in DOMAIN rob : rob[i].scheduled}
    BY <1>3, <1>4
  <2>2. \A i \in {i \in DOMAIN rob : rob[i].scheduled} :
           {<<r2[i].id, k>> : k \in DOMAIN r2[i].dsts} = {<<rob[i].id, k>> : k \in DOMAIN rob[i].dsts}
    BY <1>4
  <2>3. QED
    BY <2>1, <2>2 DEF Results
<1>6. ResultsOf(r2, base) = ResultsOf(rob, base)
  <2>1. \A v \in Results(rob) : v[1] - base \in DOMAIN rob
    BY ResultPlace
  <2>2. \A v \in Results(rob) : r2[v[1] - base].dsts[v[2]] = rob[v[1] - base].dsts[v[2]]
    BY <1>4, <2>1
  <2>3. QED
    BY <1>5, <2>2 DEF ResultsOf
<1>7. Ordered(r2, latency)
  <2>0. Ordered(rob, latency)
    BY DEF RegInv
  <2>1. \A i \in DOMAIN r2 : (r2[i].executed => r2[i].scheduled) /\ (r2[i].completed => r2[i].executed)
    BY <1>3, <2>0 DEF Ordered
  <2>2. ASSUME NEW i \in DOMAIN r2, ~r2[i].scheduled
        PROVE  /\ r2[i].ready \in 0 .. latency
               /\ \A j \in DOMAIN r2 : i < j => ~r2[j].scheduled /\ r2[i].ready <= r2[j].ready
    <3>1. CASE i \in DOMAIN rob
      <4>1. /\ rob[i].ready \in 0 .. latency /\ r2[i] = rob[i]
            /\ \A j \in DOMAIN rob : i < j => ~rob[j].scheduled /\ rob[i].ready <= rob[j].ready
        BY <1>4, <2>0, <2>2, <3>1 DEF Ordered
      <4>2. rob[i].ready <= e.ready
        BY <4>1
      <4>3. QED
        BY <1>3, <4>1, <4>2
    <3>2. CASE i = n + 1
      <4>1. \A j \in DOMAIN r2 : ~(i < j)
        BY <1>2, <3>2
      <4>2. r2[i] = e /\ e.ready \in 0 .. latency
        BY <1>2, <3>2
      <4>3. QED
        BY <4>1, <4>2
    <3>3. QED
      BY <1>3, <3>1, <3>2
  <2>3. QED
    BY <2>1, <2>2 DEF Ordered
<1>8. ASSUME NEW i \in DOMAIN r2
      PROVE  IF r2[i].scheduled THEN Renamed(prog, a, ResultsOf(rob, base), r2[i])
             ELSE r2[i].srcs = prog[base + i].srcs /\ r2[i].dsts = prog[base + i].dsts
  <2>1. CASE i \in DOMAIN rob
    BY <1>4, <2>1 DEF RegInv
  <2>2. CASE i = n + 1
    <3>1. r2[i] = e /\ base + n + 1 = base + (n + 1)
      BY <1>1, <1>2, <2>2
    <3>2. QED
      BY <2>2, <3>1 DEF n
  <2>3. QED
    BY <1>3, <2>1, <2>2
<1>9. Accounted(a, ResultsOf(rob, base), Nat)
  BY DEF RegInv
<1>10. QED
  BY <1>6, <1>7, <1>8, <1>9 DEF RegInv, r2

\* The results that do not come before z.
From(w, z) == [v \in {u \in DOMAIN w : ~Before(u, z)} |-> w[v]]

\* Retirement has come as far as z, and the instructions of N do not notice.
Retiring(a0, w, N, a, z) ==
    /\ Accounted(a, From(w, z), Nat)
    /\ Carries(a0, w, a, From(w, z), N)
    /\ \A u \in DOMAIN w : ~Before(u, z) => a.file[w[u]] = a0.file[w[u]]

LEMMA RetireNext ==
  ASSUME NEW a0, NEW w, DOMAIN w \subseteq Nat \X Nat, NEW N, NEW a, NEW m \in Nat, NEW k \in Nat,
         Retiring(a0, w, N, a, <<m, k>>), <<m, k>> \in DOMAIN w, \A id \in N : m < id
  PROVE  Retiring(a0, w, N, retire_dest_register(a, w[<<m, k>>]), <<m, k + 1>>)
<1> DEFINE v == <<m, k>>
           z == <<m, k + 1>>
           x == From(w, v)
           y == From(w, z)
           b == retire_dest_register(a, w[v])
<1>1. v \in Nat \X Nat /\ v[1] = m /\ v[2] = k /\ z \in Nat \X Nat /\ z[1] = m /\ z[2] = k + 1
  OBVIOUS
<1> HIDE DEF v, z
<1>2. \A u \in DOMAIN w : ~Before(u, z) <=> ~Before(u, v) /\ u # v
  <2> SUFFICES ASSUME NEW u \in Nat \X Nat
               PROVE  ~Before(u, z) <=> ~Before(u, v) /\ u # v
    OBVIOUS
  <2>1. u = <<u[1], u[2]>> /\ u[1] \in Nat /\ u[2] \in Nat /\ v = <<v[1], v[2]>>
    BY <1>1
  <2>2. u = v <=> u[1] = m /\ u[2] = k
    BY <1>1, <2>1
  <2>3. QED
    BY <1>1, <2>1, <2>2 DEF Before
<1>3. /\ DOMAIN x = {u \in DOMAIN w : ~Before(u, v)} /\ \A u \in DOMAIN x : x[u] = w[u]
      /\ DOMAIN y = {u \in DOMAIN w : ~Before(u, z)} /\ \A u \in DOMAIN y : y[u] = w[u]
  BY DEF From
<1>4. v \in DOMAIN w /\ ~Before(v, v)
  BY <1>1 DEF Before, v
<1>5. v \in DOMAIN x /\ x[v] = w[v] /\ \A u \in DOMAIN x : ~Before(u, v)
  BY <1>3, <1>4
<1>6. y = Dropped(x, v)
  <2>1. {u \in DOMAIN w : ~Before(u, z)} = DOMAIN x \ {v}
    BY <1>2, <1>3
  <2>2. \A u \in DOMAIN x \ {v} : w[u] = x[u]
    BY <1>3
  <2>3. QED
    BY <2>1, <2>2 DEF From, Dropped
<1>7. Accounted(a, x, Nat) /\ Carries(a0, w, a, x, N)
  BY DEF Retiring, v
<1>8. \A id \in N : v[1] < id
  BY <1>1
<1> HIDE DEF x, y, b
<1>9. /\ Accounted(b, y, Nat)
      /\ \A M : (\A id \in M : v[1] < id) => Carries(a, x, b, y, M)
      /\ \A u \in DOMAIN x : b.file[x[u]] = a.file[x[u]]
  BY <1>5, <1>6, <1>7, RetireDestKeeps DEF b
<1>10. Carries(a, x, b, y, N)
  BY <1>8, <1>9
<1>11. Carries(a0, w, b, y, N)
  BY <1>7, <1>10, CarriesOn
<1>12. \A u \in DOMAIN w : ~Before(u, z) => b.file[w[u]] = a0.file[w[u]]
  BY <1>2, <1>3, <1>9 DEF Retiring, v
<1>13. QED
  BY <1>9, <1>11, <1>12 DEF Retiring, v, z, x, y, b

\* All the results of an instruction.
LEMMA RetireInstrKeeps ==
  ASSUME NEW prog, NEW base, NEW rob, Follows(prog, base, rob),
         NEW i \in DOMAIN rob, rob[i].scheduled,
         NEW a0, NEW N, NEW a, Retiring(a0, ResultsOf(rob, base), N, a, <<base + i, 1>>),
         \A id \in N : base + i < id
  PROVE  Retiring(a0, ResultsOf(rob, base), N, RetireOne(a, rob[i]), <<base + i + 1, 1>>)
<1> DEFINE w == ResultsOf(rob, base)
           ds == rob[i].dsts
           m == base + i
<1>1. ds \in Seq(Int) /\ i \in 1 .. Len(rob) /\ Len(rob) \in Nat
  BY InProgram
<1>2. base \in Nat /\ \A j \in DOMAIN rob : rob[j].id = base + j
  BY DEF Follows
<1>3. /\ m \in Nat /\ DOMAIN ds = 1 .. Len(ds) /\ Len(ds) \in Nat
  BY <1>1, <1>2, LenProperties
<1>4. \A k \in DOMAIN ds : <<m, k>> \in DOMAIN w /\ w[<<m, k>>] = ds[k]
  BY ResultPlace
<1>5. \A u \in DOMAIN w : u \in Nat \X Nat /\ u[2] \in Nat \ {0} /\ (u[1] = m => u[2] \in DOMAIN ds)
  <2> SUFFICES ASSUME NEW u \in DOMAIN w
               PROVE  u \in Nat \X Nat /\ u[2] \in Nat \ {0} /\ (u[1] = m => u[2] \in DOMAIN ds)
    OBVIOUS
  <2>1. /\ u \in Nat \X Nat /\ u[1] - base \in DOMAIN rob /\ u[1] = base + (u[1] - base)
        /\ u[2] \in DOMAIN rob[u[1] - base].dsts
    BY ResultPlace
  <2> DEFINE j == u[1] - base
  <2>2. rob[j].dsts \in Seq(Int)
    BY <2>1, InProgram
  <2>3. u[2] \in Nat \ {0}
    BY <2>1, <2>2, LenProperties
  <2>4. u[1] = m => j = i
    BY <1>1, <1>2
  <2>5. QED
    BY <2>1, <2>3, <2>4
<1> HIDE DEF w, ds, m
<1>6. RetireDestPath(a, ds)
  BY <1>1, RetireDestFold
<1>7. PICK g : /\ g[0] = a /\ g[Len(ds)] = FoldLeft(retire_dest_register, a, ds)
               /\ \A k \in 1 .. Len(ds) : g[k] = retire_dest_register(g[k - 1], ds[k])
  BY <1>6 DEF RetireDestPath
<1> DEFINE S == {k \in 0 .. Len(ds) : Retiring(a0, w, N, g[k], <<m, k + 1>>)}
<1>8. 0 \in S
  BY <1>3, <1>7 DEF w, m
<1>9. ASSUME NEW k \in 1 .. Len(ds), k - 1 \in S
      PROVE  k \in S
  <2>1. Retiring(a0, w, N, g[k - 1], <<m, k>>)
    <3>1. (k - 1) + 1 = k
      BY <1>3
    <3>2. QED
      BY <1>9, <3>1
  <2>2. <<m, k>> \in DOMAIN w /\ w[<<m, k>>] = ds[k] /\ k \in Nat
    BY <1>3, <1>4
  <2>3. DOMAIN w \subseteq Nat \X Nat
    BY <1>5
  <2>4. \A id \in N : m < id
    BY DEF m
  <2>5. Retiring(a0, w, N, retire_dest_register(g[k - 1], w[<<m, k>>]), <<m, k + 1>>)
    BY <1>3, <2>1, <2>2, <2>3, <2>4, RetireNext
  <2>6. g[k] = retire_dest_register(g[k - 1], w[<<m, k>>])
    BY <1>7, <2>2
  <2>7. k \in 0 .. Len(ds)
    BY <1>3
  <2>8. QED
    BY <2>5, <2>6, <2>7
<1> HIDE DEF S
<1>10. \A k \in 0 .. Len(ds) : k \in S
  BY <1>3, <1>8, <1>9, UpTo
<1>11. Retiring(a0, w, N, RetireOne(a, rob[i]), <<m, Len(ds) + 1>>)
  <2>1. Len(ds) \in S
    BY <1>3, <1>10
  <2>2. RetireOne(a, rob[i]) = g[Len(ds)]
    BY <1>7 DEF RetireOne, ds
  <2>3. QED
    BY <2>1, <2>2 DEF S
<1>12. \A u \in DOMAIN w : Before(u, <<m, Len(ds) + 1>>) <=> Before(u, <<m + 1, 1>>)
  <2> SUFFICES ASSUME NEW u \in DOMAIN w
               PROVE  Before(u, <<m, Len(ds) + 1>>) <=> Before(u, <<m + 1, 1>>)
    OBVIOUS
  <2>1. u[1] \in Nat /\ u[2] \in Nat \ {0} /\ (u[1] = m => u[2] \in 1 .. Len(ds))
    BY <1>3, <1>5
  <2>2. QED
    BY <1>3, <2>1 DEF Before
<1>13. From(w, <<m, Len(ds) + 1>>) = From(w, <<m + 1, 1>>)
  BY <1>12 DEF From
<1>14. QED
  BY <1>11, <1>12, <1>13 DEF Retiring, w, m

\* The first n instructions retire.
LEMMA RetireAllKeep ==
  ASSUME NEW prog, NEW base, NEW rob, Follows(prog, base, rob), NEW a,
         Accounted(a, ResultsOf(rob, base), Nat),
         NEW n \in 0 .. Len(rob), \A i \in 1 .. n : rob[i].scheduled,
         NEW N, \A id \in N : base + n < id /\ id \in Nat
  PROVE  Retiring(a, ResultsOf(rob, base), N, FoldLeft(RetireOne, a, SubSeq(rob, 1, n)),
                  <<base + n + 1, 1>>)
<1> DEFINE w == ResultsOf(rob, base)
           q == SubSeq(rob, 1, n)
<1>1. rob \in Seq(Entry) /\ base \in Nat
  BY DEF Follows
<1>2. Len(rob) \in Nat /\ DOMAIN rob = 1 .. Len(rob) /\ n \in Nat
  BY <1>1, LenProperties
<1>3. q \in Seq(Entry) /\ Len(q) = n /\ \A i \in 1 .. n : q[i] = rob[i]
  BY <1>1, CountSplit
<1>4. \A u \in DOMAIN w : ~Before(u, <<base + 1, 1>>)
  <2> SUFFICES ASSUME NEW u \in DOMAIN w
               PROVE  ~Before(u, <<base + 1, 1>>)
    OBVIOUS
  <2>1. /\ u \in Nat \X Nat /\ u[1] - base \in DOMAIN rob /\ u[1] = base + (u[1] - base)
        /\ u[2] \in DOMAIN rob[u[1] - base].dsts
    BY ResultPlace
  <2>2. rob[u[1] - base].dsts \in Seq(Int)
    BY <2>1, InProgram
  <2>3. u[2] \in Nat \ {0}
    BY <2>1, <2>2, LenProperties
  <2>4. u[1] >= base + 1 /\ u[1] \in Nat
    BY <1>1, <1>2, <2>1
  <2>5. QED
    BY <1>1, <2>3, <2>4 DEF Before
<1>5. w \in [DOMAIN w -> PhysRegs]
  BY DEF Accounted
<1> HIDE DEF w, q
<1>6. From(w, <<base + 1, 1>>) = w
  BY <1>4, <1>5 DEF From
<1>7. Retiring(a, w, N, a, <<base + 1, 1>>)
  <2>1. Carries(a, w, a, w, N)
    BY DEF Carries
  <2>2. Accounted(a, w, Nat)
    BY DEF w
  <2>3. QED
    BY <1>6, <2>1, <2>2 DEF Retiring
<1>8. RetireInstrPath(a, q)
  BY <1>3, RetireInstrFold
<1>9. PICK g : /\ g[0] = a /\ g[n] = FoldLeft(RetireOne, a, q)
               /\ \A k \in 1 .. n : g[k] = RetireOne(g[k - 1], q[k])
  BY <1>3, <1>8 DEF RetireInstrPath
<1> DEFINE S == {k \in 0 .. n : Retiring(a, w, N, g[k], <<base + k + 1, 1>>)}
<1>10. 0 \in S
  <2>1. base + 0 + 1 = base + 1
    BY <1>1
  <2>2. QED
    BY <1>2, <1>7, <1>9, <2>1
<1>11. ASSUME NEW k \in 1 .. n, k - 1 \in S
       PROVE  k \in S
  <2>1. Retiring(a, w, N, g[k - 1], <<base + k, 1>>)
    <3>1. base + (k - 1) + 1 = base + k
      BY <1>1, <1>2
    <3>2. QED
      BY <1>11, <3>1
  <2>2. k \in DOMAIN rob /\ rob[k].scheduled /\ g[k] = RetireOne(g[k - 1], rob[k]) /\ k \in 0 .. n
    BY <1>2, <1>3, <1>9
  <2>3. \A id \in N : base + k < id
    BY <1>1, <1>2
  <2>4. Retiring(a, w, N, RetireOne(g[k - 1], rob[k]), <<base + k + 1, 1>>)
    BY <2>1, <2>2, <2>3, RetireInstrKeeps DEF w
  <2>5. QED
    BY <2>2, <2>4
<1> HIDE DEF S
<1>12. \A k \in 0 .. n : k \in S
  BY <1>2, <1>10, <1>11, UpTo
<1>13. n \in S
  BY <1>2, <1>12
<1>14. QED
  BY <1>9, <1>13 DEF S, w, q

\* The register invariant when the oldest instruction retires.
LEMMA RegRetire ==
  ASSUME NEW prog, NEW base, NEW a, NEW rob, NEW latency,
         RegInv(prog, base, a, rob, latency), Follows(prog, base, rob),
         NEW n \in 0 .. Len(rob), \A i \in 1 .. n : rob[i].completed
  PROVE  RegInv(prog, base + n, FoldLeft(RetireOne, a, SubSeq(rob, 1, n)),
                SubSeq(rob, n + 1, Len(rob)), latency)
<1> DEFINE w == ResultsOf(rob, base)
           b == FoldLeft(RetireOne, a, SubSeq(rob, 1, n))
           r2 == SubSeq(rob, n + 1, Len(rob))
           N == {id \in Nat : base + n < id}
           z == <<base + n + 1, 1>>
           len == Len(rob) - n
           new == base + n
<1>1. rob \in Seq(Entry) /\ base \in Nat /\ \A i \in DOMAIN rob : rob[i].id = base + i
  BY DEF Follows
<1>2. Len(rob) \in Nat /\ DOMAIN rob = 1 .. Len(rob) /\ n \in Nat /\ len \in Nat /\ new \in Nat
  BY <1>1, LenProperties
<1>3. r2 \in Seq(Entry) /\ Len(r2) = len /\ \A i \in 1 .. len : r2[i] = rob[n + i]
  BY <1>1, CountSplit
<1>4. Ordered(rob, latency) /\ Accounted(a, w, Nat)
  BY DEF RegInv
<1>5. \A i \in 1 .. n : rob[i].scheduled
  BY <1>2, <1>4 DEF Ordered
<1>6. Retiring(a, w, N, b, z)
  <2>1. \A id \in N : base + n < id /\ id \in Nat
    OBVIOUS
  <2>2. QED
    BY <1>4, <1>5, <2>1, RetireAllKeep
<1>7. \A i \in DOMAIN r2 : n + i \in DOMAIN rob /\ r2[i] = rob[n + i] /\ i \in 1 .. len
  <2>1. DOMAIN r2 = 1 .. len
    BY <1>3, LenProperties
  <2> SUFFICES ASSUME NEW i \in 1 .. len
               PROVE  n + i \in DOMAIN rob /\ r2[i] = rob[n + i]
    BY <2>1
  <2>2. n + i \in 1 .. Len(rob)
    BY <1>2
  <2>3. QED
    BY <1>2, <1>3, <2>2
<1>8. \A i \in DOMAIN rob : i > n => i - n \in DOMAIN r2 /\ r2[i - n] = rob[i] /\ n + (i - n) = i
  <2> SUFFICES ASSUME NEW i \in 1 .. Len(rob), i > n
               PROVE  i - n \in DOMAIN r2 /\ r2[i - n] = rob[i] /\ n + (i - n) = i
    BY <1>2
  <2>1. i - n \in 1 .. len /\ n + (i - n) = i
    BY <1>2
  <2>2. QED
    BY <1>3, <2>1, SMTT(30)
<1> HIDE DEF r2, len, b
<1>9. \A v \in Results(r2) :
         /\ v \in Results(rob) /\ ~Before(v, z) /\ v[1] - new \in DOMAIN r2
         /\ r2[v[1] - new].dsts[v[2]] = rob[v[1] - base].dsts[v[2]]
  <2> SUFFICES ASSUME NEW v \in Results(r2)
               PROVE  /\ v \in Results(rob) /\ ~Before(v, z) /\ v[1] - new \in DOMAIN r2
                      /\ r2[v[1] - new].dsts[v[2]] = rob[v[1] - base].dsts[v[2]]
    OBVIOUS
  <2>1. PICK i \in DOMAIN r2 : r2[i].scheduled /\ v \in {<<r2[i].id, k>> : k \in DOMAIN r2[i].dsts}
    BY DEF Results
  <2>2. PICK k \in DOMAIN r2[i].dsts : v = <<r2[i].id, k>>
    BY <2>1
  <2> DEFINE j == n + i
  <2>3. j \in DOMAIN rob /\ r2[i] = rob[j] /\ i \in 1 .. len
    BY <1>7
  <2>4. v = <<base + j, k>> /\ k \in DOMAIN rob[j].dsts /\ rob[j].scheduled
    BY <1>1, <2>1, <2>2, <2>3
  <2>5. v \in Results(rob)
    BY <2>3, <2>4, ResultPlace
  <2>6. v[1] - base = j /\ v[1] - new = i /\ v[1] = base + j /\ v[2] = k
    BY <1>1, <1>2, <2>3, <2>4
  <2>7. rob[j].dsts \in Seq(Int)
    BY <2>3, InProgram
  <2>8. k \in Nat \ {0}
    BY <2>4, <2>7, LenProperties
  <2>9. v[1] \in Nat /\ v[1] >= base + n + 1
    BY <1>1, <1>2, <2>3, <2>6
  <2>10. ~Before(v, z)
    BY <1>1, <1>2, <2>6, <2>8, <2>9 DEF Before
  <2>11. QED
    BY <2>3, <2>5, <2>6, <2>10
<1>10. \A v \in Results(rob) : ~Before(v, z) => v \in Results(r2)
  <2> SUFFICES ASSUME NEW v \in Results(rob), ~Before(v, z)
               PROVE  v \in Results(r2)
    OBVIOUS
  <2>1. PICK i \in DOMAIN rob : rob[i].scheduled /\ v \in {<<rob[i].id, k>> : k \in DOMAIN rob[i].dsts}
    BY DEF Results
  <2>2. PICK k \in DOMAIN rob[i].dsts : v = <<rob[i].id, k>>
    BY <2>1
  <2>3. v[1] = base + i
    BY <1>1, <2>2
  <2>4. i > n
    <3>1. ~(v[1] < base + n + 1)
      BY DEF Before
    <3>2. QED
      BY <1>1, <1>2, <2>3, <3>1
  <2>5. i - n \in DOMAIN r2 /\ r2[i - n] = rob[i]
    BY <1>8, <2>4
  <2>6. v \in {<<r2[i - n].id, kk>> : kk \in DOMAIN r2[i - n].dsts}
    BY <2>2, <2>5
  <2>7. QED
    BY <2>1, <2>5, <2>6 DEF Results
<1>11. ResultsOf(r2, new) = From(w, z)
  <2>1. Results(r2) = {u \in DOMAIN w : ~Before(u, z)}
    BY <1>9, <1>10 DEF ResultsOf
  <2>2. \A v \in Results(r2) : r2[v[1] - new].dsts[v[2]] = w[v]
    BY <1>9 DEF ResultsOf
  <2>3. QED
    BY <2>1, <2>2 DEF ResultsOf, From
<1>12. Ordered(r2, latency)
  <2>1. \A i \in DOMAIN r2 : (r2[i].executed => r2[i].scheduled) /\ (r2[i].completed => r2[i].executed)
    BY <1>4, <1>7 DEF Ordered
  <2>2. ASSUME NEW i \in DOMAIN r2, ~r2[i].scheduled
        PROVE  /\ r2[i].ready \in 0 .. latency
               /\ \A j \in DOMAIN r2 : i < j => ~r2[j].scheduled /\ r2[i].ready <= r2[j].ready
    <3>1. n + i \in DOMAIN rob /\ r2[i] = rob[n + i] /\ i \in 1 .. len
      BY <1>7
    <3>2. /\ rob[n + i].ready \in 0 .. latency
          /\ \A j \in DOMAIN rob : n + i < j => ~rob[j].scheduled /\ rob[n + i].ready <= rob[j].ready
      BY <1>4, <2>2, <3>1 DEF Ordered
    <3>3. ASSUME NEW j \in DOMAIN r2, i < j
          PROVE  ~r2[j].scheduled /\ r2[i].ready <= r2[j].ready
      <4>1. n + j \in DOMAIN rob /\ r2[j] = rob[n + j] /\ j \in 1 .. len
        BY <1>7
      <4>2. n + i < n + j
        BY <1>2, <3>1, <3>3, <4>1
      <4>3. QED
        BY <3>1, <3>2, <4>1, <4>2
    <3>4. QED
      BY <3>1, <3>2, <3>3
  <2>3. QED
    BY <2>1, <2>2 DEF Ordered
<1>13. Accounted(b, From(w, z), Nat) /\ Carries(a, w, b, From(w, z), N)
  BY <1>6 DEF Retiring
<1>14. \A u \in DOMAIN w : ~Before(u, z) => b.file[w[u]] = a.file[w[u]]
  BY <1>6 DEF Retiring
<1>15. ASSUME NEW i \in DOMAIN r2
       PROVE  IF r2[i].scheduled THEN Renamed(prog, b, From(w, z), r2[i])
              ELSE r2[i].srcs = prog[new + i].srcs /\ r2[i].dsts = prog[new + i].dsts
  <2> DEFINE j == n + i
             id == base + j
  <2>1. j \in DOMAIN rob /\ r2[i] = rob[j] /\ i \in 1 .. len
    BY <1>7
  <2>2. new + i = id
    BY <1>1, <1>2, <2>1
  <2>3. id \in N /\ rob[j].id = id
    BY <1>1, <1>2, <2>1
  <2>4. IF rob[j].scheduled THEN Renamed(prog, a, w, rob[j])
        ELSE rob[j].srcs = prog[base + j].srcs /\ rob[j].dsts = prog[base + j].dsts
    BY <2>1 DEF RegInv
  <2>5. CASE ~rob[j].scheduled
    BY <2>1, <2>2, <2>4, <2>5
  <2>6. CASE rob[j].scheduled
    <3> DEFINE sr == rob[j].srcs
               ds == rob[j].dsts
    <3>1. /\ Len(sr) = Len(prog[id].srcs) /\ Len(ds) = Len(prog[id].dsts)
          /\ \A k \in DOMAIN ds : ds[k] \in PhysRegs /\ a.file[ds[k]].arch = prog[id].dsts[k]
          /\ \A k \in DOMAIN sr : /\ sr[k] \in PhysRegs
                                  /\ Resolves(a, w, id, prog[id].srcs[k], sr[k])
                                  /\ rob[j].executed => a.file[sr[k]].valid
      BY <2>3, <2>4, <2>6 DEF Renamed
    <3>2. DOMAIN sr = DOMAIN prog[id].srcs /\ \A k \in DOMAIN sr : prog[id].srcs[k] \in ArchRegs
      <4>1. sr \in Seq(Int) /\ prog[id].srcs \in Seq(ArchRegs)
        BY <2>1, InProgram
      <4>2. /\ DOMAIN sr = 1 .. Len(sr) /\ DOMAIN prog[id].srcs = 1 .. Len(prog[id].srcs)
            /\ \A k \in DOMAIN prog[id].srcs : prog[id].srcs[k] \in ArchRegs
        BY <4>1, LenProperties, ElementOfSeq
      <4>3. QED
        BY <3>1, <4>2
    <3>3. \A k \in DOMAIN ds : <<id, k>> \in DOMAIN w /\ w[<<id, k>>] = ds[k] /\ k \in Nat \ {0}
      <4>1. ds \in Seq(Int)
        BY <2>1, InProgram
      <4>2. DOMAIN ds \subseteq Nat \ {0}
        BY <4>1, LenProperties
      <4>3. QED
        BY <2>1, <2>6, <4>2, ResultPlace
    <3> HIDE DEF sr, ds, id, j
    <3>4. \A k \in DOMAIN sr : /\ Resolves(b, From(w, z), id, prog[id].srcs[k], sr[k])
                               /\ a.file[sr[k]].valid => b.file[sr[k]].valid
      <4> HIDE DEF N, w
      <4>1. QED
        BY <1>13, <2>3, <3>1, <3>2 DEF Carries
    <3>5. \A k \in DOMAIN ds : b.file[ds[k]].arch = prog[id].dsts[k]
      <4> SUFFICES ASSUME NEW k \in DOMAIN ds
                   PROVE  b.file[ds[k]].arch = prog[id].dsts[k]
        OBVIOUS
      <4>1. <<id, k>> \in DOMAIN w /\ w[<<id, k>>] = ds[k] /\ k \in Nat \ {0}
        BY <3>3
      <4>2. id \in Nat /\ base + n < id
        BY <2>3
      <4>3. ~Before(<<id, k>>, z)
        BY <1>1, <1>2, <4>1, <4>2 DEF Before
      <4>4. b.file[ds[k]] = a.file[ds[k]]
        BY <1>14, <4>1, <4>3
      <4>5. QED
        BY <3>1, <4>4
    <3>6. QED
      BY <2>1, <2>3, <2>6, <3>1, <3>4, <3>5 DEF Renamed, sr, ds
  <2>7. QED
    BY <2>5, <2>6
<1>16. QED
  BY <1>11, <1>12, <1>13, <1>15 DEF RegInv, r2, b

\* Instructions whose registers stay as they are, and who execute on values.
LEMMA RegSame ==
  ASSUME NEW prog, NEW base, NEW a, NEW rob, NEW rob2, NEW latency,
         RegInv(prog, base, a, rob, latency),
         Follows(prog, base, rob), Follows(prog, base, rob2), SameRegisters(rob, rob2),
         Ordered(rob2, latency),
         \A i \in DOMAIN rob : rob2[i].executed =>
            rob[i].executed \/ \A k \in DOMAIN rob[i].srcs : a.file[rob[i].srcs[k]].valid
  PROVE  RegInv(prog, base, a, rob2, latency)
<1> DEFINE w == ResultsOf(rob, base)
<1>1. Accounted(a, w, Nat)
  BY DEF RegInv
<1>2. Carries(a, w, a, w, Nat)
  BY DEF Carries
<1>3. \A p \in PhysRegs : a.file[p].arch = a.file[p].arch
  OBVIOUS
<1>4. QED
  BY <1>1, <1>2, <1>3, RegChange

\* Values arrive in some registers.
LEMMA RegComplete ==
  ASSUME NEW prog, NEW base, NEW a, NEW rob, NEW rob2, NEW latency, NEW D,
         RegInv(prog, base, a, rob, latency),
         Follows(prog, base, rob), Follows(prog, base, rob2), SameRegisters(rob, rob2),
         Ordered(rob2, latency),
         \A i \in DOMAIN rob : rob2[i].executed => rob[i].executed
  PROVE  RegInv(prog, base, complete_dest_registers(a, D), rob2, latency)
<1> DEFINE w == ResultsOf(rob, base)
           b == complete_dest_registers(a, D)
<1>1. Accounted(a, w, Nat)
  BY DEF RegInv
<1> HIDE DEF w, b
<1>2. /\ Accounted(b, w, Nat)
      /\ \A N : Carries(a, w, b, w, N)
      /\ \A p \in PhysRegs : b.file[p].arch = a.file[p].arch
  BY <1>1, CompleteKeeps DEF b
<1>3. Carries(a, w, b, w, Nat)
  BY <1>2
<1>4. \A i \in DOMAIN rob : rob2[i].executed =>
         rob[i].executed \/ \A k \in DOMAIN rob[i].srcs : b.file[rob[i].srcs[k]].valid
  OBVIOUS
<1>5. QED
  BY <1>2, <1>3, <1>4, RegChange DEF w, b

\* Time passes for the instructions.
LEMMA TickOrdered ==
  ASSUME NEW rob, NEW rob2, NEW latency, latency \in 0 .. Never - 1, Never \in Nat,
         Ordered(rob, latency), SameRegisters(rob, rob2),
         \A i \in DOMAIN rob : /\ rob2[i].ready = Passed(rob[i].ready, 0)
                               /\ rob2[i].executed = rob[i].executed
                               /\ rob2[i].completed = rob[i].completed
  PROVE  Ordered(rob2, latency)
<1>1. DOMAIN rob2 = DOMAIN rob /\ \A i \in DOMAIN rob : rob2[i].scheduled = rob[i].scheduled
  BY DEF SameRegisters
<1>2. \A i \in DOMAIN rob : /\ rob[i].executed => rob[i].scheduled
                            /\ rob[i].completed => rob[i].executed
  BY DEF Ordered
<1>3. \A t \in 0 .. latency : Passed(t, 0) \in 0 .. latency
  BY DEF Passed
<1>4. \A t, u \in 0 .. latency : t <= u => Passed(t, 0) <= Passed(u, 0)
  BY DEF Passed
<1>5. ASSUME NEW i \in DOMAIN rob, ~rob[i].scheduled
      PROVE  /\ rob2[i].ready \in 0 .. latency
             /\ \A j \in DOMAIN rob : i < j => ~rob2[j].scheduled /\ rob2[i].ready <= rob2[j].ready
  <2>1. /\ rob[i].ready \in 0 .. latency
        /\ \A j \in DOMAIN rob : i < j => ~rob[j].scheduled /\ rob[i].ready <= rob[j].ready
    BY <1>5 DEF Ordered
  <2>2. rob2[i].ready \in 0 .. latency
    BY <1>3, <2>1
  <2>3. ASSUME NEW j \in DOMAIN rob, i < j
        PROVE  ~rob2[j].scheduled /\ rob2[i].ready <= rob2[j].ready
    <3>1. ~rob[j].scheduled /\ rob[i].ready <= rob[j].ready
      BY <2>1, <2>3
    <3>2. rob[j].ready \in 0 .. latency
      BY <3>1 DEF Ordered
    <3>3. Passed(rob[i].ready, 0) <= Passed(rob[j].ready, 0)
      BY <1>4, <2>1, <3>1, <3>2
    <3>4. QED
      BY <1>1, <3>1, <3>3
  <2>4. QED
    BY <2>2, <2>3
<1>6. QED
  BY <1>1, <1>2, <1>5 DEF Ordered

\* Who has been scheduled executes, or completes once it has executed.
LEMMA ProgressOrdered ==
  ASSUME NEW rob, NEW rob2, NEW latency, Ordered(rob, latency), SameRegisters(rob, rob2),
         \A i \in DOMAIN rob : /\ ~rob[i].scheduled => rob2[i].ready = rob[i].ready
                               /\ rob2[i].executed => rob[i].scheduled
                               /\ rob2[i].completed => rob2[i].executed
  PROVE  Ordered(rob2, latency)
<1>1. DOMAIN rob2 = DOMAIN rob /\ \A i \in DOMAIN rob : rob2[i].scheduled = rob[i].scheduled
  BY DEF SameRegisters
<1>2. QED
  BY <1>1 DEF Ordered

\* Which sources, after the k-th, still need a register.
Unnamed(a, srcs, k) == {j \in DOMAIN srcs : j > k /\ ~isAllocated(a, srcs[j])}

\* The first k sources are renamed, and there are registers for the others and
\* for d destinations.
Sourcing(a, w, N, srcs, d, b, k) ==
    /\ Accounted(b, w, Nat) /\ Carries(a, w, b, w, N)
    /\ \A u \in DOMAIN w : b.file[w[u]] = a.file[w[u]]
    /\ \A j \in DOMAIN srcs : j <= k => b.frontend[srcs[j]] \in PhysRegs
    /\ Cardinality(Unnamed(b, srcs, k)) + d <= Len(b.free)

LEMMA SourceNext ==
  ASSUME NEW a, NEW w, NEW N, NEW srcs \in Seq(ArchRegs), NEW d \in Nat, NEW b,
         NEW k \in 1 .. Len(srcs), Sourcing(a, w, N, srcs, d, b, k - 1)
  PROVE  Sourcing(a, w, N, srcs, d, rename_src_register(b, srcs[k]), k)
<1> DEFINE reg == srcs[k]
           c == rename_src_register(b, reg)
           old == Unnamed(b, srcs, k - 1)
           new == Unnamed(c, srcs, k)
<1>1. /\ DOMAIN srcs = 1 .. Len(srcs) /\ Len(srcs) \in Nat /\ reg \in ArchRegs
      /\ \A j \in DOMAIN srcs : srcs[j] \in ArchRegs
  BY LenProperties, ElementOfSeq
<1>2. /\ Accounted(b, w, Nat) /\ Carries(a, w, b, w, N)
      /\ \A u \in DOMAIN w : b.file[w[u]] = a.file[w[u]]
      /\ \A j \in DOMAIN srcs : j <= k - 1 => b.frontend[srcs[j]] \in PhysRegs
      /\ Cardinality(old) + d <= Len(b.free)
  BY DEF Sourcing
<1>3. b.free \in Seq(PhysRegs) /\ b.frontend \in [ArchRegs -> PhysRegs \cup {Unmapped}] /\ Unmapped \notin PhysRegs
  BY <1>2, AllocatorMembers DEF Accounted
<1>4. Len(b.free) \in Nat
  BY <1>3, LenProperties
<1>5. IsFiniteSet(DOMAIN srcs)
  BY <1>1, FirstNumbers
<1>6. IsFiniteSet(old) /\ Cardinality(old) \in Nat
  BY <1>5, FS_Subset, FS_CardinalityType DEF Unnamed
<1>7. k \in old <=> b.frontend[reg] = Unmapped
  BY <1>1 DEF Unnamed, isAllocated
<1>8. b.frontend[reg] # Unmapped \/ b.free # << >>
  <2>1. CASE k \in old
    <3>1. Cardinality(old) # 0
      BY <1>6, <2>1, FS_EmptySet
    <3>2. Len(b.free) # 0
      BY <1>2, <1>4, <1>6, <3>1
    <3>3. QED
      BY <1>3, <3>2, EmptySeq
  <2>2. QED
    BY <1>7, <2>1
<1> HIDE DEF c, reg
<1>9. /\ Accounted(c, w, Nat)
      /\ \A M : Carries(b, w, c, w, M)
      /\ \A u \in DOMAIN w : c.file[w[u]] = b.file[w[u]]
      /\ c.frontend[reg] \in PhysRegs
      /\ \A r \in ArchRegs : b.frontend[r] # Unmapped => c.frontend[r] = b.frontend[r]
      /\ Len(c.free) = Len(b.free) - One(b.frontend[reg] = Unmapped)
  BY <1>1, <1>2, <1>8, RenameSourceKeeps DEF c
<1>10. Carries(a, w, c, w, N)
  BY <1>2, <1>9, CarriesOn
<1>11. \A j \in DOMAIN srcs : j <= k => c.frontend[srcs[j]] \in PhysRegs
  <2> SUFFICES ASSUME NEW j \in DOMAIN srcs, j <= k
               PROVE  c.frontend[srcs[j]] \in PhysRegs
    OBVIOUS
  <2>1. j = k \/ j <= k - 1
    BY <1>1
  <2>2. CASE j = k
    BY <1>9, <2>2 DEF reg
  <2>3. CASE j <= k - 1
    BY <1>1, <1>2, <1>3, <1>9, <2>3
  <2>4. QED
    BY <2>1, <2>2, <2>3
<1>12. new \subseteq old \ {k}
  <2> SUFFICES ASSUME NEW j \in new
               PROVE  j \in old \ {k}
    OBVIOUS
  <2>1. j \in DOMAIN srcs /\ j > k /\ c.frontend[srcs[j]] = Unmapped
    BY <1>1 DEF Unnamed, isAllocated
  <2>2. b.frontend[srcs[j]] = Unmapped
    BY <1>1, <1>9, <2>1
  <2>3. j > k - 1 /\ j # k
    BY <1>1, <2>1
  <2>4. QED
    BY <1>1, <2>1, <2>2, <2>3 DEF Unnamed, isAllocated
<1>13. Cardinality(new) + d <= Len(c.free)
  <2>1. IsFiniteSet(old \ {k}) /\ Cardinality(old \ {k}) = Cardinality(old) - One(k \in old)
    <3>1. CASE k \in old
      BY <1>6, <3>1, FS_RemoveElement DEF One
    <3>2. CASE k \notin old
      <4>1. old \ {k} = old
        BY <3>2
      <4>2. One(k \in old) = 0
        BY <3>2 DEF One
      <4> HIDE DEF old
      <4>3. Cardinality(old) - 0 = Cardinality(old)
        BY <1>6
      <4>4. QED
        BY <1>6, <4>1, <4>2, <4>3
    <3>3. QED
      BY <3>1, <3>2
  <2>2. Cardinality(new) <= Cardinality(old \ {k}) /\ Cardinality(new) \in Nat
    BY <1>12, <2>1, FS_Subset, FS_CardinalityType
  <2>3. One(k \in old) = One(b.frontend[reg] = Unmapped) /\ One(k \in old) \in {0, 1}
    BY <1>7 DEF One
  <2> HIDE DEF old, new
  <2>4. QED
    BY <1>2, <1>4, <1>6, <1>9, <2>1, <2>2, <2>3
<1>14. \A u \in DOMAIN w : c.file[w[u]] = a.file[w[u]]
  BY <1>2, <1>9
<1>15. QED
  BY <1>9, <1>10, <1>11, <1>13, <1>14 DEF Sourcing, c, reg

\* The sources of an instruction.
LEMMA SourcesKeep ==
  ASSUME NEW a, NEW w, Accounted(a, w, Nat), NEW N, NEW srcs \in Seq(ArchRegs), NEW d \in Nat,
         Cardinality({k \in DOMAIN srcs : ~isAllocated(a, srcs[k])}) + d <= Len(a.free)
  PROVE  Sourcing(a, w, N, srcs, d, FoldLeft(rename_src_register, a, srcs), Len(srcs))
<1>1. DOMAIN srcs = 1 .. Len(srcs) /\ Len(srcs) \in Nat
  BY LenProperties
<1>2. Unnamed(a, srcs, 0) = {k \in DOMAIN srcs : ~isAllocated(a, srcs[k])}
  BY <1>1 DEF Unnamed
<1>3. Sourcing(a, w, N, srcs, d, a, 0)
  <2>1. Carries(a, w, a, w, N)
    BY DEF Carries
  <2>2. \A j \in DOMAIN srcs : ~(j <= 0)
    BY <1>1
  <2>3. QED
    BY <1>2, <2>1, <2>2 DEF Sourcing
<1>4. RenameSrcPath(a, srcs)
  BY RenameSrcFold
<1>5. PICK g : /\ g[0] = a /\ g[Len(srcs)] = FoldLeft(rename_src_register, a, srcs)
               /\ \A k \in 1 .. Len(srcs) : g[k] = rename_src_register(g[k - 1], srcs[k])
  BY <1>4 DEF RenameSrcPath
<1> DEFINE S == {k \in 0 .. Len(srcs) : Sourcing(a, w, N, srcs, d, g[k], k)}
<1>6. 0 \in S
  BY <1>1, <1>3, <1>5
<1>7. ASSUME NEW k \in 1 .. Len(srcs), k - 1 \in S
      PROVE  k \in S
  <2>1. Sourcing(a, w, N, srcs, d, g[k - 1], k - 1)
    BY <1>7
  <2>2. Sourcing(a, w, N, srcs, d, rename_src_register(g[k - 1], srcs[k]), k)
    BY <2>1, SourceNext
  <2>3. g[k] = rename_src_register(g[k - 1], srcs[k]) /\ k \in 0 .. Len(srcs)
    BY <1>1, <1>5
  <2>4. QED
    BY <2>2, <2>3
<1> HIDE DEF S
<1>8. \A k \in 0 .. Len(srcs) : k \in S
  BY <1>1, <1>6, <1>7, UpTo
<1>9. Len(srcs) \in S
  BY <1>1, <1>8
<1>10. QED
  BY <1>5, <1>9 DEF S

\* The results with those of the first k destinations of instruction id.
WithDests(w, id, free, k) ==
    [v \in DOMAIN w \cup {<<id, j>> : j \in 1 .. k} |-> IF v[1] = id THEN free[v[2]] ELSE w[v]]

\* All results are of instructions before id.
AreEarlier(w, id) == \A v \in DOMAIN w : v \in Nat \X Nat /\ v[1] < id

LEMMA OneMoreDest ==
  ASSUME NEW w, NEW id \in Nat, AreEarlier(w, id), NEW free, NEW k \in Nat \ {0}
  PROVE  /\ WithDests(w, id, free, k) = With(WithDests(w, id, free, k - 1), <<id, k>>, free[k])
         /\ \A u \in DOMAIN WithDests(w, id, free, k - 1) : Before(u, <<id, k>>)
         /\ \A u \in DOMAIN w : u \in DOMAIN WithDests(w, id, free, k - 1)
                                /\ WithDests(w, id, free, k - 1)[u] = w[u]
         /\ \A j \in 1 .. k - 1 : <<id, j>> \in DOMAIN WithDests(w, id, free, k - 1)
                                  /\ WithDests(w, id, free, k - 1)[<<id, j>>] = free[j]
<1> DEFINE v == <<id, k>>
           x == WithDests(w, id, free, k - 1)
           y == WithDests(w, id, free, k)
<1>1. /\ DOMAIN x = DOMAIN w \cup {<<id, j>> : j \in 1 .. k - 1}
      /\ DOMAIN y = DOMAIN w \cup {<<id, j>> : j \in 1 .. k}
      /\ \A u \in DOMAIN x : x[u] = IF u[1] = id THEN free[u[2]] ELSE w[u]
      /\ \A u \in DOMAIN y : y[u] = IF u[1] = id THEN free[u[2]] ELSE w[u]
  BY DEF WithDests
<1>2. \A u \in DOMAIN w : u \in Nat \X Nat /\ u[1] < id /\ u[1] # id
  BY DEF AreEarlier
<1>3. v[1] = id /\ v[2] = k /\ \A j \in 1 .. k : <<id, j>>[1] = id /\ <<id, j>>[2] = j
  OBVIOUS
<1>4. {<<id, j>> : j \in 1 .. k} = {<<id, j>> : j \in 1 .. k - 1} \cup {v}
  <2>1. 1 .. k = 1 .. k - 1 \cup {k}
    OBVIOUS
  <2>2. QED
    BY <2>1
<1>5. \A u \in DOMAIN x : Before(u, v)
  <2>1. \A u \in DOMAIN w : Before(u, v)
    BY <1>2, <1>3 DEF Before
  <2>2. \A j \in 1 .. k - 1 : Before(<<id, j>>, v)
    BY <1>3 DEF Before
  <2>3. QED
    BY <1>1, <2>1, <2>2
<1>6. v \notin DOMAIN x
  <2>1. ~Before(v, v)
    BY <1>3 DEF Before
  <2>2. QED
    BY <1>5, <2>1
<1>7. DOMAIN y = DOMAIN x \cup {v}
  BY <1>1, <1>4
<1>8. \A u \in DOMAIN x \cup {v} : (IF u = v THEN free[k] ELSE x[u]) = (IF u[1] = id THEN free[u[2]] ELSE w[u])
  BY <1>1, <1>3, <1>6
<1>9. y = With(x, v, free[k])
  <2>1. y = [u \in DOMAIN x \cup {v} |-> IF u[1] = id THEN free[u[2]] ELSE w[u]]
    <3>1. y = [u \in DOMAIN w \cup {<<id, j>> : j \in 1 .. k} |-> IF u[1] = id THEN free[u[2]] ELSE w[u]]
      BY DEF WithDests
    <3> HIDE DEF x, y, v
    <3>2. DOMAIN w \cup {<<id, j>> : j \in 1 .. k} = DOMAIN x \cup {v}
      BY <1>1, <1>7
    <3>3. QED
      BY <3>1, <3>2
  <2> HIDE DEF x, y, v
  <2>2. QED
    BY <1>8, <2>1 DEF With
<1>10. \A u \in DOMAIN w : u \in DOMAIN x /\ x[u] = w[u]
  BY <1>1, <1>2
<1>11. \A j \in 1 .. k - 1 : <<id, j>> \in DOMAIN x /\ x[<<id, j>>] = free[j]
  <2> SUFFICES ASSUME NEW j \in 1 .. k - 1
               PROVE  <<id, j>> \in DOMAIN x /\ x[<<id, j>>] = free[j]
    OBVIOUS
  <2>1. <<id, j>> \in DOMAIN x
    BY <1>1
  <2>2. QED
    BY <1>1, <2>1
<1>12. QED
  BY <1>5, <1>9, <1>10, <1>11

\* The first k destinations are renamed.
Renaming(a, w, N, dsts, id, b, k) ==
    /\ Accounted(b, WithDests(w, id, a.free, k), Nat)
    /\ Carries(a, w, b, WithDests(w, id, a.free, k), N)
    /\ \A u \in DOMAIN w : b.file[w[u]] = a.file[w[u]]
    /\ \A j \in 1 .. k : b.file[a.free[j]].arch = dsts[j]
    /\ Len(b.free) = Len(a.free) - k
    /\ \A j \in 1 .. Len(b.free) : b.free[j] = a.free[k + j]

\* One step of the loop that renames destinations.
LEMMA DestNext ==
  ASSUME NEW a, a.free \in Seq(PhysRegs), NEW w, NEW N, NEW dsts \in Seq(ArchRegs), NEW id \in Nat, NEW b,
         AreEarlier(w, id), \A n \in N : ~(id < n),
         NEW k \in 1 .. Len(dsts), Len(dsts) <= Len(a.free), Renaming(a, w, N, dsts, id, b, k - 1)
  PROVE  Renaming(a, w, N, dsts, id, rename_dest_register(b, dsts[k], id), k)
<1> DEFINE reg == dsts[k]
           c == rename_dest_register(b, reg, id)
           v == <<id, k>>
           x == WithDests(w, id, a.free, k - 1)
           y == WithDests(w, id, a.free, k)
<1>1. reg \in ArchRegs /\ Len(dsts) \in Nat /\ k \in Nat \ {0} /\ Len(a.free) \in Nat
  BY LenProperties, ElementOfSeq
<1>2. /\ Accounted(b, x, Nat) /\ Carries(a, w, b, x, N)
      /\ \A u \in DOMAIN w : b.file[w[u]] = a.file[w[u]]
      /\ \A j \in 1 .. k - 1 : b.file[a.free[j]].arch = dsts[j]
      /\ Len(b.free) = Len(a.free) - (k - 1)
      /\ \A j \in 1 .. Len(b.free) : b.free[j] = a.free[(k - 1) + j]
  BY DEF Renaming
<1>3. b.free \in Seq(PhysRegs)
  BY <1>2, AllocatorMembers DEF Accounted
<1>4. Len(b.free) \in Nat \ {0} /\ b.free # << >>
  <2>1. Len(b.free) \in Nat \ {0}
    BY <1>1, <1>2
  <2>2. QED
    BY <2>1
<1>5. Head(b.free) = a.free[k]
  <2>1. Head(b.free) = b.free[1]
    BY <1>3, <1>4, CountTail
  <2>2. b.free[1] = a.free[(k - 1) + 1] /\ (k - 1) + 1 = k
    BY <1>1, <1>2, <1>4
  <2>3. QED
    BY <2>1, <2>2
<1>6. /\ y = With(x, v, a.free[k])
      /\ \A u \in DOMAIN x : Before(u, v)
      /\ \A u \in DOMAIN w : u \in DOMAIN x /\ x[u] = w[u]
      /\ \A j \in 1 .. k - 1 : <<id, j>> \in DOMAIN x /\ x[<<id, j>>] = a.free[j]
  BY <1>1, OneMoreDest
<1>7. v \in Nat \X Nat /\ \A n \in N : ~(v[1] < n)
  BY <1>1
<1> HIDE DEF c, x, y, v, reg
<1>8. reg \in ArchRegs /\ id \in Nat /\ v \in Nat \X Nat /\ b.free # << >>
  BY <1>1, <1>4, <1>7
<1>9. Accounted(b, x, Nat) /\ \A u \in DOMAIN x : Before(u, v)
  BY <1>2, <1>6
<1>10. /\ Accounted(c, With(x, v, Head(b.free)), Nat)
       /\ \A M : (\A n \in M : ~(v[1] < n)) => Carries(b, x, c, With(x, v, Head(b.free)), M)
       /\ \A u \in DOMAIN x : c.file[x[u]] = b.file[x[u]]
       /\ c.file[Head(b.free)].arch = reg
       /\ c.free = Tail(b.free)
  <2>1. Accounted(c, With(x, v, Head(b.free)), Nat)
    BY ONLY <1>8, <1>9, RenameDestKeeps DEF c
  <2>2. \A M : (\A n \in M : ~(v[1] < n)) => Carries(b, x, c, With(x, v, Head(b.free)), M)
    BY ONLY <1>8, <1>9, RenameDestKeeps DEF c
  <2>3. \A u \in DOMAIN x : c.file[x[u]] = b.file[x[u]]
    BY ONLY <1>8, <1>9, RenameDestKeeps DEF c
  <2>4. c.file[Head(b.free)].arch = reg
    BY ONLY <1>8, <1>9, RenameDestKeeps DEF c
  <2>5. c.free = Tail(b.free)
    BY DEF c, rename_dest_register
  <2>6. QED
    BY <2>1, <2>2, <2>3, <2>4, <2>5
<1>11. Accounted(c, y, Nat) /\ Carries(b, x, c, y, N)
  BY <1>5, <1>6, <1>7, <1>10
<1>12. Carries(a, w, c, y, N)
  BY <1>2, <1>11, CarriesOn
<1>13. ASSUME NEW u \in DOMAIN w PROVE c.file[w[u]] = a.file[w[u]]
  <2>1. u \in DOMAIN x /\ x[u] = w[u] /\ b.file[w[u]] = a.file[w[u]]
    BY <1>2, <1>6
  <2>2. c.file[x[u]] = b.file[x[u]]
    BY <1>10, <2>1
  <2>3. QED
    BY <2>1, <2>2
<1>14. ASSUME NEW j \in 1 .. k
       PROVE  c.file[a.free[j]].arch = dsts[j]
  <2>1. CASE j = k
    BY <1>5, <1>10, <2>1 DEF reg
  <2>2. CASE j # k
    <3>1. j \in 1 .. k - 1
      BY <1>1, <2>2
    <3>2. <<id, j>> \in DOMAIN x /\ x[<<id, j>>] = a.free[j]
      BY <1>6, <3>1
    <3>3. c.file[x[<<id, j>>]] = b.file[x[<<id, j>>]]
      BY <1>10, <3>2
    <3>4. QED
      BY <1>2, <3>1, <3>2, <3>3
  <2>3. QED
    BY <2>1, <2>2
<1>15. /\ Len(c.free) = Len(b.free) - 1
       /\ \A i \in 1 .. Len(b.free) - 1 : c.free[i] = b.free[i + 1]
  BY <1>3, <1>4, <1>10, CountTail
<1>16. Len(c.free) = Len(a.free) - k /\ \A j \in 1 .. Len(c.free) : c.free[j] = a.free[k + j]
  <2>1. Len(c.free) = Len(a.free) - k
    BY <1>1, <1>2, <1>15
  <2>2. ASSUME NEW j \in 1 .. Len(c.free)
        PROVE  c.free[j] = a.free[k + j]
    <3>1. /\ j \in 1 .. Len(b.free) - 1 /\ j + 1 \in 1 .. Len(b.free)
          /\ (k - 1) + (j + 1) = k + j
      BY <1>1, <1>4, <1>15
    <3>2. QED
      BY <1>2, <1>15, <3>1
  <2>3. QED
    BY <2>1, <2>2
<1>17. QED
  BY <1>11, <1>12, <1>13, <1>14, <1>16 DEF Renaming, c, y, reg

\* The destinations of an instruction.
LEMMA DestsKeep ==
  ASSUME NEW a, NEW w, Accounted(a, w, Nat), NEW N, NEW dsts \in Seq(ArchRegs), NEW id \in Nat,
         AreEarlier(w, id), \A n \in N : ~(id < n), Len(dsts) <= Len(a.free)
  PROVE  Renaming(a, w, N, dsts, id,
                  FoldLeft(LAMBDA x, reg : rename_dest_register(x, reg, id), a, dsts), Len(dsts))
<1>1. Len(dsts) \in Nat
  BY LenProperties
<1>2. a.free \in Seq(PhysRegs) /\ w \in [DOMAIN w -> PhysRegs]
  BY AllocatorMembers DEF Accounted
<1>3. Len(a.free) \in Nat
  BY <1>2, LenProperties
<1>4. WithDests(w, id, a.free, 0) = w
  <2>1. {<<id, j>> : j \in 1 .. 0} = {}
    OBVIOUS
  <2>2. \A v \in DOMAIN w : v[1] # id
    BY DEF AreEarlier
  <2>3. WithDests(w, id, a.free, 0) = [v \in DOMAIN w |-> IF v[1] = id THEN a.free[v[2]] ELSE w[v]]
    BY <2>1 DEF WithDests
  <2>4. QED
    BY <1>2, <2>2, <2>3
<1>5. Renaming(a, w, N, dsts, id, a, 0)
  <2>1. Carries(a, w, a, w, N)
    BY DEF Carries
  <2>2. Len(a.free) = Len(a.free) - 0 /\ \A j \in 1 .. Len(a.free) : a.free[j] = a.free[0 + j]
    BY <1>3
  <2>3. QED
    BY <1>4, <2>1, <2>2 DEF Renaming
<1>6. RenameDstPath(a, dsts, id)
  BY RenameDstFold
<1> DEFINE end == FoldLeft(LAMBDA x, reg : rename_dest_register(x, reg, id), a, dsts)
<1>7. PICK g : /\ g[0] = a /\ g[Len(dsts)] = end
               /\ \A k \in 1 .. Len(dsts) : g[k] = rename_dest_register(g[k - 1], dsts[k], id)
  BY <1>6 DEF RenameDstPath
<1> HIDE DEF end
<1> DEFINE S == {k \in 0 .. Len(dsts) : Renaming(a, w, N, dsts, id, g[k], k)}
<1>8. 0 \in S
  BY <1>1, <1>5, <1>7
<1>9. ASSUME NEW k \in 1 .. Len(dsts), k - 1 \in S
      PROVE  k \in S
  <2>1. Renaming(a, w, N, dsts, id, g[k - 1], k - 1)
    BY <1>9
  <2>2. Renaming(a, w, N, dsts, id, rename_dest_register(g[k - 1], dsts[k], id), k)
    BY <1>2, <2>1, DestNext
  <2>3. g[k] = rename_dest_register(g[k - 1], dsts[k], id) /\ k \in 0 .. Len(dsts)
    BY <1>1, <1>7
  <2>4. QED
    BY <2>2, <2>3
<1> HIDE DEF S
<1>10. \A k \in 0 .. Len(dsts) : k \in S
  BY <1>1, <1>8, <1>9, UpTo
<1>11. Len(dsts) \in S
  BY <1>1, <1>10
<1>12. QED
  BY <1>7, <1>11 DEF S, end

\* What an instruction becomes when it is scheduled.
LEMMA ScheduledEntry ==
  ASSUME NEW e \in Entry, NEW srcs \in Seq(PhysRegs), NEW dsts \in Seq(PhysRegs)
  PROVE  LET e2 == Scheduled(e, srcs, dsts)
         IN  /\ e2 \in Entry /\ e2.id = e.id /\ e2.ready = e.ready /\ e2.scheduled
             /\ e2.executed = e.executed /\ e2.completed = e.completed /\ e2.memops = e.memops
             /\ e2.srcs = srcs /\ e2.dsts = dsts
<1>1. srcs \in Seq(Int) /\ dsts \in Seq(Int)
  <2>1. \A p \in PhysRegs : p \in Int
    BY RegisterAssumption DEF PhysRegs
  <2>2. \A s \in Seq(PhysRegs) : s \in Seq(Int)
    <3> SUFFICES ASSUME NEW s \in Seq(PhysRegs)
                 PROVE  s \in Seq(Int)
      OBVIOUS
    <3>1. Len(s) \in Nat /\ s \in [1 .. Len(s) -> PhysRegs]
      BY LenProperties
    <3>2. s \in [1 .. Len(s) -> Int]
      BY <2>1, <3>1
    <3>3. QED
      BY <3>1, <3>2
  <2>3. QED
    BY <2>2
<1> DEFINE e2 == Scheduled(e, srcs, dsts)
<1>2. e2 \in Entry
  BY <1>1 DEF Scheduled, Entry
<1>3. e2.id = e.id /\ e2.ready = e.ready
  BY DEF Scheduled, Entry
<1>4. e2.executed = e.executed /\ e2.completed = e.completed
  BY DEF Scheduled, Entry
<1>5. e2.memops = e.memops /\ e2.scheduled
  BY DEF Scheduled, Entry
<1>6. e2.srcs = srcs /\ e2.dsts = dsts
  BY DEF Scheduled, Entry
<1>7. QED
  BY <1>2, <1>3, <1>4, <1>5, <1>6

\* The registers do_scheduling gives an instruction.
LEMMA SchedulingGives ==
  ASSUME NEW a, NEW w, Accounted(a, w, Nat), NEW e \in Entry, e.srcs \in Seq(ArchRegs),
         e.dsts \in Seq(ArchRegs), AreEarlier(w, e.id), RegistersFor(a, e) <= Len(a.free)
  PROVE  \E b, c, x : LET e2 == do_scheduling(a, e).instr
                      IN  /\ Sourcing(a, w, 0 .. e.id, e.srcs, Len(e.dsts), b, Len(e.srcs))
                          /\ Renaming(b, w, 0 .. e.id, e.dsts, e.id, c, Len(e.dsts))
                          /\ b.free \in Seq(PhysRegs) /\ Len(e.dsts) <= Len(b.free)
                          /\ x = WithDests(w, e.id, b.free, Len(e.dsts))
                          /\ do_scheduling(a, e).ra = c
                          /\ e2 \in Entry /\ e2.id = e.id /\ e2.ready = e.ready /\ e2.scheduled
                          /\ e2.executed = e.executed /\ e2.completed = e.completed
                          /\ e2.memops = e.memops
                          /\ Len(e2.srcs) = Len(e.srcs) /\ DOMAIN e2.srcs = DOMAIN e.srcs
                          /\ Len(e2.dsts) = Len(e.dsts) /\ DOMAIN e2.dsts = 1 .. Len(e.dsts)
                          /\ \A k \in DOMAIN e.srcs : e2.srcs[k] = b.frontend[e.srcs[k]]
                          /\ \A k \in 1 .. Len(e.dsts) : e2.dsts[k] = b.free[k] /\ b.free[k] \in PhysRegs
<1> DEFINE sr == e.srcs
           ds == e.dsts
           id == e.id
           b == FoldLeft(rename_src_register, a, sr)
           c == FoldLeft(LAMBDA x, reg : rename_dest_register(x, reg, id), b, ds)
           N == 0 .. id
           os == [k \in DOMAIN sr |-> b.frontend[sr[k]]]
           od == SubSeq(b.free, 1, Len(ds))
           e2 == Scheduled(e, os, od)
<1>1. do_scheduling(a, e).ra = c /\ do_scheduling(a, e).instr = e2
  BY DEF do_scheduling, RenameSources, RenameDests
<1>2. /\ Len(sr) \in Nat /\ Len(ds) \in Nat /\ DOMAIN sr = 1 .. Len(sr) /\ DOMAIN ds = 1 .. Len(ds)
      /\ id \in Nat
  BY LenProperties DEF Entry
<1>3. Cardinality({k \in DOMAIN sr : ~isAllocated(a, sr[k])}) + Len(ds) <= Len(a.free)
  BY DEF RegistersFor
<1> HIDE DEF c, e2
<1>4. Sourcing(a, w, N, sr, Len(ds), b, Len(sr))
  <2> HIDE DEF sr, ds, N
  <2>1. sr \in Seq(ArchRegs)
    BY DEF sr
  <2>2. QED
    BY <1>2, <1>3, <2>1, SourcesKeep
<1> HIDE DEF b
<1>5. /\ Accounted(b, w, Nat) /\ b.free \in Seq(PhysRegs)
      /\ \A k \in DOMAIN sr : b.frontend[sr[k]] \in PhysRegs
      /\ Cardinality(Unnamed(b, sr, Len(sr))) + Len(ds) <= Len(b.free)
  <2>1. Accounted(b, w, Nat)
    BY <1>4 DEF Sourcing
  <2>2. \A k \in DOMAIN sr : k <= Len(sr)
    BY <1>2
  <2>3. QED
    BY <1>4, <2>1, <2>2, AllocatorMembers DEF Sourcing, Accounted
<1>6. Len(ds) <= Len(b.free) /\ Len(b.free) \in Nat
  <2>1. \A k \in DOMAIN sr : ~(k > Len(sr))
    BY <1>2
  <2>2. Unnamed(b, sr, Len(sr)) = {}
    BY <2>1 DEF Unnamed
  <2>3. Cardinality(Unnamed(b, sr, Len(sr))) = 0
    BY <2>2, FS_EmptySet
  <2>4. QED
    BY <1>2, <1>5, <2>3, LenProperties
<1>7. Renaming(b, w, N, ds, id, c, Len(ds))
  <2>1. \A n \in N : ~(id < n)
    BY <1>2
  <2> HIDE DEF N
  <2>2. AreEarlier(w, id) /\ ds \in Seq(ArchRegs) /\ id \in Nat
    BY <1>2
  <2> HIDE DEF id, ds
  <2>3. QED
    BY <1>5, <1>6, <2>1, <2>2, DestsKeep DEF c
<1>8. os \in Seq(PhysRegs) /\ Len(os) = Len(sr) /\ DOMAIN os = DOMAIN sr
      /\ \A k \in DOMAIN sr : os[k] = b.frontend[sr[k]]
  <2>1. os \in [1 .. Len(sr) -> PhysRegs]
    BY <1>2, <1>5
  <2>2. QED
    BY <1>2, <2>1, FunctionIsSequence
<1>9. od \in Seq(PhysRegs) /\ Len(od) = Len(ds) /\ DOMAIN od = 1 .. Len(ds)
      /\ \A k \in 1 .. Len(ds) : od[k] = b.free[k] /\ b.free[k] \in PhysRegs
  <2>1. Len(ds) \in 0 .. Len(b.free)
    BY <1>2, <1>6
  <2> HIDE DEF ds
  <2>2. od \in Seq(PhysRegs) /\ Len(od) = Len(ds) /\ \A k \in 1 .. Len(ds) : od[k] = b.free[k]
    BY <1>5, <2>1, CountSplit
  <2>3. \A k \in 1 .. Len(ds) : k \in 1 .. Len(b.free)
    BY <1>6, <2>1
  <2>4. QED
    BY <1>5, <2>2, <2>3, LenProperties, ElementOfSeq
<1> HIDE DEF os, od
<1>10. /\ e2 \in Entry /\ e2.id = e.id /\ e2.ready = e.ready /\ e2.scheduled
       /\ e2.executed = e.executed /\ e2.completed = e.completed /\ e2.memops = e.memops
       /\ e2.srcs = os /\ e2.dsts = od
  BY <1>8, <1>9, ScheduledEntry DEF e2
<1> DEFINE x == WithDests(w, e.id, b.free, Len(e.dsts))
<1> HIDE DEF x
<1>11. /\ Sourcing(a, w, 0 .. e.id, e.srcs, Len(e.dsts), b, Len(e.srcs))
       /\ Renaming(b, w, 0 .. e.id, e.dsts, e.id, c, Len(e.dsts))
       /\ x = WithDests(w, e.id, b.free, Len(e.dsts))
  BY <1>4, <1>7 DEF x
<1>12. QED
  BY <1>1, <1>5, <1>6, <1>8, <1>9, <1>10, <1>11

\* One instruction is scheduled.
LEMMA RegSchedule ==
  ASSUME NEW prog, NEW base, NEW a, NEW rob, NEW latency,
         RegInv(prog, base, a, rob, latency), Follows(prog, base, rob),
         NEW i \in DOMAIN rob, ~rob[i].scheduled, \A j \in DOMAIN rob : j < i => rob[j].scheduled,
         RegistersFor(a, rob[i]) <= Len(a.free)
  PROVE  LET new == do_scheduling(a, rob[i])
         IN  /\ RegInv(prog, base, new.ra, [rob EXCEPT ![i] = new.instr], latency)
             /\ new.instr \in Entry /\ new.instr.id = rob[i].id /\ new.instr.ready = rob[i].ready
             /\ new.instr.scheduled /\ new.instr.executed = rob[i].executed
             /\ new.instr.completed = rob[i].completed /\ new.instr.memops = rob[i].memops
<1> DEFINE w == ResultsOf(rob, base)
           e == rob[i]
           id == e.id
           N == 0 .. id
           new == do_scheduling(a, e)
           e2 == new.instr
           rob2 == [rob EXCEPT ![i] = e2]
           sr == e.srcs
           ds == e.dsts
<1>1. rob \in Seq(Entry) /\ base \in Nat /\ \A j \in DOMAIN rob : rob[j].id = base + j
  BY DEF Follows
<1>2. DOMAIN rob = 1 .. Len(rob) /\ Len(rob) \in Nat /\ i \in Nat /\ id = base + i /\ id \in Nat
  BY <1>1, LenProperties
<1>3. e \in Entry /\ prog[base + i].srcs \in Seq(ArchRegs) /\ prog[base + i].dsts \in Seq(ArchRegs)
  BY InProgram
<1>4. sr = prog[base + i].srcs /\ ds = prog[base + i].dsts
  BY DEF RegInv
<1>5. Ordered(rob, latency) /\ Accounted(a, w, Nat)
  BY DEF RegInv
<1>6. \A j \in DOMAIN rob : rob[j].scheduled => j < i
  <2>1. \A j \in DOMAIN rob : i < j => ~rob[j].scheduled
    BY <1>5 DEF Ordered
  <2>2. QED
    BY <1>2, <2>1
<1>7. AreEarlier(w, id)
  <2> SUFFICES ASSUME NEW v \in DOMAIN w
               PROVE  v \in Nat \X Nat /\ v[1] < id
    BY DEF AreEarlier
  <2>1. /\ v \in Nat \X Nat /\ v[1] - base \in DOMAIN rob /\ v[1] = base + (v[1] - base)
        /\ rob[v[1] - base].scheduled
    BY ResultPlace
  <2>2. v[1] - base < i
    BY <1>6, <2>1
  <2>3. QED
    BY <1>1, <1>2, <2>1, <2>2
<1>8. e.srcs \in Seq(ArchRegs) /\ e.dsts \in Seq(ArchRegs)
  BY <1>3, <1>4
<1>9. PICK b, c, x :
        /\ Sourcing(a, w, N, sr, Len(ds), b, Len(sr))
        /\ Renaming(b, w, N, ds, id, c, Len(ds))
        /\ b.free \in Seq(PhysRegs) /\ Len(ds) <= Len(b.free)
        /\ x = WithDests(w, id, b.free, Len(ds))
        /\ new.ra = c
        /\ e2 \in Entry /\ e2.id = id /\ e2.ready = e.ready /\ e2.scheduled
        /\ e2.executed = e.executed /\ e2.completed = e.completed /\ e2.memops = e.memops
        /\ Len(e2.srcs) = Len(sr) /\ DOMAIN e2.srcs = DOMAIN sr
        /\ Len(e2.dsts) = Len(ds) /\ DOMAIN e2.dsts = 1 .. Len(ds)
        /\ \A k \in DOMAIN sr : e2.srcs[k] = b.frontend[sr[k]]
        /\ \A k \in 1 .. Len(ds) : e2.dsts[k] = b.free[k] /\ b.free[k] \in PhysRegs
  <2> HIDE DEF w
  <2>1. QED
    BY <1>3, <1>5, <1>7, <1>8, SchedulingGives
<1>10. /\ Accounted(c, x, Nat) /\ Carries(b, w, c, x, N) /\ Carries(a, w, b, w, N) /\ Accounted(b, w, Nat)
       /\ \A u \in DOMAIN w : c.file[w[u]] = b.file[w[u]] /\ b.file[w[u]] = a.file[w[u]]
       /\ \A k \in 1 .. Len(ds) : c.file[b.free[k]].arch = ds[k]
  BY <1>9 DEF Sourcing, Renaming
<1>11. Carries(a, w, c, x, N)
  BY <1>10, CarriesOn
<1>12. /\ DOMAIN rob2 = DOMAIN rob /\ rob2[i] = e2
       /\ \A j \in DOMAIN rob : j # i => rob2[j] = rob[j]
  OBVIOUS
<1>13. DOMAIN sr = DOMAIN e2.srcs /\ DOMAIN sr = 1 .. Len(sr) /\ DOMAIN ds = 1 .. Len(ds)
       /\ Len(sr) \in Nat /\ Len(ds) \in Nat
  BY <1>8, <1>9, LenProperties
<1> HIDE DEF new, e2, rob2
<1>14. Results(rob2) = DOMAIN w \cup {<<id, k>> : k \in 1 .. Len(ds)}
  <2>1. \A v \in Results(rob2) : v \in DOMAIN w \cup {<<id, k>> : k \in 1 .. Len(ds)}
    <3> SUFFICES ASSUME NEW v \in Results(rob2)
                 PROVE  v \in DOMAIN w \cup {<<id, k>> : k \in 1 .. Len(ds)}
      OBVIOUS
    <3>1. PICK j \in DOMAIN rob : rob2[j].scheduled /\ v \in {<<rob2[j].id, k>> : k \in DOMAIN rob2[j].dsts}
      BY <1>12 DEF Results
    <3>2. CASE j = i
      BY <1>9, <1>12, <3>1, <3>2
    <3>3. CASE j # i
      <4>1. rob[j].scheduled /\ v \in {<<rob[j].id, k>> : k \in DOMAIN rob[j].dsts}
        BY <1>12, <3>1, <3>3
      <4>2. v \in Results(rob)
        BY <4>1 DEF Results
      <4>3. QED
        BY <4>2 DEF ResultsOf
    <3>4. QED
      BY <3>2, <3>3
  <2>2. \A v \in DOMAIN w : v \in Results(rob2)
    <3> SUFFICES ASSUME NEW v \in Results(rob)
                 PROVE  v \in Results(rob2)
      BY DEF ResultsOf
    <3>1. PICK j \in DOMAIN rob : rob[j].scheduled /\ v \in {<<rob[j].id, k>> : k \in DOMAIN rob[j].dsts}
      BY DEF Results
    <3>2. rob2[j] = rob[j]
      BY <1>12, <3>1
    <3>3. rob2[j].scheduled /\ v \in {<<rob2[j].id, k>> : k \in DOMAIN rob2[j].dsts}
      BY <3>1, <3>2
    <3>4. QED
      BY <1>12, <3>3 DEF Results
  <2>3. \A k \in 1 .. Len(ds) : <<id, k>> \in Results(rob2)
    <3> SUFFICES ASSUME NEW k \in 1 .. Len(ds)
                 PROVE  <<id, k>> \in Results(rob2)
      OBVIOUS
    <3>1. <<id, k>> \in {<<rob2[i].id, kk>> : kk \in DOMAIN rob2[i].dsts}
      BY <1>9, <1>12
    <3>2. i \in DOMAIN rob2 /\ rob2[i].scheduled
      BY <1>9, <1>12
    <3>3. QED
      BY <3>1, <3>2 DEF Results
  <2>4. QED
    BY <2>1, <2>2, <2>3
<1>15. ResultsOf(rob2, base) = x
  <2>1. \A v \in DOMAIN w \cup {<<id, k>> : k \in 1 .. Len(ds)} :
           rob2[v[1] - base].dsts[v[2]] = (IF v[1] = id THEN b.free[v[2]] ELSE w[v])
    <3>1. ASSUME NEW v \in DOMAIN w
          PROVE  rob2[v[1] - base].dsts[v[2]] = (IF v[1] = id THEN b.free[v[2]] ELSE w[v])
      <4>1. v[1] - base \in DOMAIN rob /\ rob[v[1] - base].scheduled /\ w[v] = rob[v[1] - base].dsts[v[2]]
        BY ResultPlace
      <4>2. rob2[v[1] - base] = rob[v[1] - base]
        BY <1>12, <4>1
      <4>3. v[1] # id
        <5>1. v \in Nat \X Nat /\ v[1] < id
          BY <1>7 DEF AreEarlier
        <5>2. QED
          BY <1>2, <5>1
      <4>4. QED
        BY <4>1, <4>2, <4>3
    <3>2. ASSUME NEW k \in 1 .. Len(ds)
          PROVE  LET v == <<id, k>> IN rob2[v[1] - base].dsts[v[2]] = (IF v[1] = id THEN b.free[v[2]] ELSE w[v])
      <4>1. id - base = i
        BY <1>1, <1>2
      <4>2. rob2[i].dsts[k] = b.free[k]
        BY <1>9, <1>12
      <4>3. QED
        BY <4>1, <4>2
    <3>3. QED
      BY <3>1, <3>2
  <2>2. ResultsOf(rob2, base) = [v \in DOMAIN w \cup {<<id, k>> : k \in 1 .. Len(ds)} |-> rob2[v[1] - base].dsts[v[2]]]
    BY <1>14 DEF ResultsOf
  <2>3. x = [v \in DOMAIN w \cup {<<id, k>> : k \in 1 .. Len(ds)} |-> IF v[1] = id THEN b.free[v[2]] ELSE w[v]]
    BY <1>9 DEF WithDests
  <2>4. QED
    BY <2>1, <2>2, <2>3
<1>16. Ordered(rob2, latency)
  <2>1. \A j \in DOMAIN rob2 : (rob2[j].executed => rob2[j].scheduled) /\ (rob2[j].completed => rob2[j].executed)
    BY <1>5, <1>9, <1>12 DEF Ordered
  <2>2. \A j \in DOMAIN rob : ~rob2[j].scheduled => j # i /\ rob2[j] = rob[j] /\ ~(j < i)
    BY <1>9, <1>12
  <2>3. ASSUME NEW j \in DOMAIN rob, ~rob2[j].scheduled
        PROVE  /\ rob2[j].ready \in 0 .. latency
               /\ \A k \in DOMAIN rob : j < k => ~rob2[k].scheduled /\ rob2[j].ready <= rob2[k].ready
    <3>1. j # i /\ rob2[j] = rob[j] /\ ~(j < i) /\ j \in Nat
      BY <1>2, <2>2, <2>3
    <3>2. \A k \in DOMAIN rob : j < k => k # i /\ rob2[k] = rob[k]
      BY <1>2, <1>12, <3>1
    <3>3. QED
      BY <1>5, <2>3, <3>1, <3>2 DEF Ordered
  <2>4. QED
    BY <1>12, <2>1, <2>3 DEF Ordered
<1>17. ASSUME NEW j \in DOMAIN rob
       PROVE  IF rob2[j].scheduled THEN Renamed(prog, c, x, rob2[j])
              ELSE rob2[j].srcs = prog[base + j].srcs /\ rob2[j].dsts = prog[base + j].dsts
  <2>1. CASE j = i
    <3>1. rob2[j] = e2 /\ e2.scheduled /\ e2.id = id /\ prog[id].srcs = sr /\ prog[id].dsts = ds
      BY <1>2, <1>4, <1>9, <1>12, <2>1
    <3>2. \A k \in DOMAIN e2.dsts : e2.dsts[k] \in PhysRegs /\ c.file[e2.dsts[k]].arch = ds[k]
      BY <1>9, <1>10
    <3>3. ASSUME NEW k \in DOMAIN e2.srcs
          PROVE  /\ e2.srcs[k] \in PhysRegs /\ Resolves(c, x, id, sr[k], e2.srcs[k])
                 /\ ~e2.executed
      <4> DEFINE r == sr[k]
                 p == e2.srcs[k]
      <4>1. k \in DOMAIN sr /\ r \in ArchRegs /\ k <= Len(sr)
        BY <1>8, <1>13, ElementOfSeq
      <4>2. p = b.frontend[r] /\ p \in PhysRegs
        BY <1>9, <4>1 DEF Sourcing
      <4>3. LatestOf(b, w, r)
        BY <1>10, <4>1 DEF Accounted, FrontendIsLatest
      <4>4. Resolves(b, w, id, r, p)
        <5> HIDE DEF w, id
        <5>1. \A v \in DOMAIN w : v[1] < id
          BY <1>7 DEF AreEarlier
        <5>2. QED
          BY <4>2, <4>3, <5>1 DEF LatestOf, Resolves
      <4>5. id \in N
        BY <1>2
      <4>6. Resolves(c, x, id, r, p)
        BY <1>10, <4>1, <4>2, <4>4, <4>5 DEF Carries
      <4>7. ~e.executed
        BY <1>5 DEF Ordered
      <4>8. QED
        BY <1>9, <4>2, <4>6, <4>7
    <3>4. Len(e2.srcs) = Len(prog[e2.id].srcs) /\ Len(e2.dsts) = Len(prog[e2.id].dsts)
      BY <1>9, <3>1
    <3>5. \A k \in DOMAIN e2.dsts : e2.dsts[k] \in PhysRegs /\ c.file[e2.dsts[k]].arch = prog[e2.id].dsts[k]
      BY <3>1, <3>2
    <3>6. \A k \in DOMAIN e2.srcs :
             /\ e2.srcs[k] \in PhysRegs /\ Resolves(c, x, e2.id, prog[e2.id].srcs[k], e2.srcs[k])
             /\ ~e2.executed
      BY <3>1, <3>3
    <3>7. Renamed(prog, c, x, e2)
      BY <3>4, <3>5, <3>6 DEF Renamed
    <3>8. QED
      BY <3>1, <3>7
  <2>2. CASE j # i
    <3>1. rob2[j] = rob[j]
      BY <1>12, <2>2
    <3>2. IF rob[j].scheduled THEN Renamed(prog, a, w, rob[j])
          ELSE rob[j].srcs = prog[base + j].srcs /\ rob[j].dsts = prog[base + j].dsts
      BY DEF RegInv
    <3>3. CASE ~rob[j].scheduled
      BY <3>1, <3>2, <3>3
    <3>4. CASE rob[j].scheduled
      <4> DEFINE m == base + j
                 s2 == rob[j].srcs
                 d2 == rob[j].dsts
      <4>1. m \in N /\ rob[j].id = m
        BY <1>1, <1>2, <1>6, <3>4
      <4>2. /\ Len(s2) = Len(prog[m].srcs) /\ Len(d2) = Len(prog[m].dsts)
            /\ \A k \in DOMAIN d2 : d2[k] \in PhysRegs /\ a.file[d2[k]].arch = prog[m].dsts[k]
            /\ \A k \in DOMAIN s2 : /\ s2[k] \in PhysRegs
                                    /\ Resolves(a, w, m, prog[m].srcs[k], s2[k])
                                    /\ rob[j].executed => a.file[s2[k]].valid
        BY <3>2, <3>4, <4>1 DEF Renamed
      <4>3. DOMAIN s2 = DOMAIN prog[m].srcs /\ \A k \in DOMAIN s2 : prog[m].srcs[k] \in ArchRegs
        <5>1. s2 \in Seq(Int) /\ prog[m].srcs \in Seq(ArchRegs)
          BY InProgram
        <5>2. /\ DOMAIN s2 = 1 .. Len(s2) /\ DOMAIN prog[m].srcs = 1 .. Len(prog[m].srcs)
              /\ \A k \in DOMAIN prog[m].srcs : prog[m].srcs[k] \in ArchRegs
          BY <5>1, LenProperties, ElementOfSeq
        <5>3. QED
          BY <4>2, <5>2
      <4>4. \A k \in DOMAIN d2 : <<m, k>> \in DOMAIN w /\ w[<<m, k>>] = d2[k]
        BY <3>4, ResultPlace
      <4> HIDE DEF s2, d2, m, N, w
      <4>5. \A k \in DOMAIN s2 : /\ Resolves(c, x, m, prog[m].srcs[k], s2[k])
                                 /\ a.file[s2[k]].valid => c.file[s2[k]].valid
        BY <1>11, <4>1, <4>2, <4>3 DEF Carries
      <4>6. \A k \in DOMAIN d2 : c.file[d2[k]] = a.file[d2[k]]
        <5>1. \A u \in DOMAIN w : c.file[w[u]] = a.file[w[u]]
          BY <1>10
        <5> SUFFICES ASSUME NEW k \in DOMAIN d2
                     PROVE  c.file[d2[k]] = a.file[d2[k]]
          OBVIOUS
        <5>2. <<m, k>> \in DOMAIN w /\ w[<<m, k>>] = d2[k]
          BY <4>4
        <5>3. QED
          BY <5>1, <5>2
      <4>7. QED
        BY <3>1, <3>4, <4>1, <4>2, <4>5, <4>6 DEF Renamed, s2, d2
    <3>5. QED
      BY <3>3, <3>4
  <2>3. QED
    BY <2>1, <2>2
<1>18. RegInv(prog, base, c, rob2, latency)
  BY <1>10, <1>12, <1>15, <1>16, <1>17 DEF RegInv
<1>19. QED
  BY <1>9, <1>18 DEF rob2, new, e2

\* The record that the scheduler's loop carries, and no other field.
WholeState(x) == x = [ra |-> x.ra, rob |-> x.rob, stop |-> x.stop, width |-> x.width]

\* The scheduler has looked at the first k instructions of the ROB.
Scheduling(prog, base, rob, latency, k, x) ==
    /\ WholeState(x)
    /\ RegInv(prog, base, x.ra, x.rob, latency)
    /\ x.rob \in Seq(Entry) /\ DOMAIN x.rob = DOMAIN rob
    /\ \A i \in DOMAIN rob :
          /\ x.rob[i].id = rob[i].id /\ x.rob[i].memops = rob[i].memops
          /\ x.rob[i].completed = rob[i].completed
    /\ x.stop \/ \A j \in 1 .. k : x.rob[j].scheduled \/ x.rob[j].ready > 0

\* One step of the scheduler's loop.
LEMMA ScheduleNext ==
  ASSUME NEW prog, NEW base, NEW rob, NEW latency, Follows(prog, base, rob),
         NEW k \in 1 .. Len(rob), NEW x, Scheduling(prog, base, rob, latency, k - 1, x)
  PROVE  Scheduling(prog, base, rob, latency, k, ScheduleOne(x, k))
<1> DEFINE e == x.rob[k]
           new == do_scheduling(x.ra, e)
           now == ~e.scheduled /\ Ready(e)
           stops == x.stop \/ x.width = 0 \/ count_free_registers(x.ra) < RegistersFor(x.ra, e)
           rob2 == IF now THEN [x.rob EXCEPT ![k] = new.instr] ELSE x.rob
           ra2 == IF now THEN new.ra ELSE x.ra
           width2 == IF e.executed THEN x.width ELSE x.width - 1
           y == ScheduleOne(x, k)
<1>1. /\ rob \in Seq(Entry) /\ base \in Nat /\ prog \in Seq(Instruction) /\ base + Len(rob) <= Len(prog)
      /\ \A i \in DOMAIN rob : rob[i].id = base + i
  BY DEF Follows
<1>2. /\ WholeState(x)
      /\ RegInv(prog, base, x.ra, x.rob, latency)
      /\ x.rob \in Seq(Entry) /\ DOMAIN x.rob = DOMAIN rob
      /\ \A i \in DOMAIN rob :
            /\ x.rob[i].id = rob[i].id /\ x.rob[i].memops = rob[i].memops
            /\ x.rob[i].completed = rob[i].completed
      /\ x.stop \/ \A j \in 1 .. k - 1 : x.rob[j].scheduled \/ x.rob[j].ready > 0
  BY DEF Scheduling
<1>3. /\ DOMAIN rob = 1 .. Len(rob) /\ Len(rob) \in Nat /\ Len(x.rob) = Len(rob) /\ k \in DOMAIN rob
  <2>1. /\ DOMAIN rob = 1 .. Len(rob) /\ Len(rob) \in Nat
        /\ DOMAIN x.rob = 1 .. Len(x.rob) /\ Len(x.rob) \in Nat
    BY <1>1, <1>2, LenProperties
  <2>2. Len(x.rob) = Len(rob)
    BY <1>2, <2>1
  <2>3. QED
    BY <2>1, <2>2
<1>4. Follows(prog, base, x.rob)
  BY <1>1, <1>2, <1>3 DEF Follows
<1>5. e \in Entry /\ e.ready \in Int /\ e.srcs \in Seq(Int) /\ e.dsts \in Seq(Int)
  BY <1>2, <1>3, <1>4, InProgram
<1>6. y = IF stops THEN [x EXCEPT !.stop = TRUE]
          ELSE [ra |-> ra2, rob |-> rob2, stop |-> FALSE, width |-> width2]
  BY DEF ScheduleOne
<1>7. CASE stops
  <2>1. y = [ra |-> x.ra, rob |-> x.rob, stop |-> TRUE, width |-> x.width]
    <3>1. y = [x EXCEPT !.stop = TRUE]
      BY <1>6, <1>7
    <3> HIDE DEF y
    <3>2. x = [ra |-> x.ra, rob |-> x.rob, stop |-> x.stop, width |-> x.width]
      BY <1>2 DEF WholeState
    <3>3. QED
      BY <3>1, <3>2
  <2> HIDE DEF y
  <2>2. y.ra = x.ra /\ y.rob = x.rob /\ y.stop /\ y.width = x.width /\ WholeState(y)
    BY <2>1 DEF WholeState
  <2>3. QED
    BY <1>2, <2>2 DEF Scheduling, y
<1>8. CASE ~stops
  <2>1. y = [ra |-> ra2, rob |-> rob2, stop |-> FALSE, width |-> width2]
    BY <1>6, <1>8
  <2> HIDE DEF y
  <2>2. y.ra = ra2 /\ y.rob = rob2 /\ ~y.stop /\ y.width = width2
        /\ WholeState(y)
    BY <2>1 DEF WholeState
  <2>3. \A j \in 1 .. k - 1 : x.rob[j].scheduled \/ x.rob[j].ready > 0
    BY <1>2, <1>8
  <2>4. CASE ~now
    <3>1. y.ra = x.ra /\ y.rob = x.rob
      BY <2>2, <2>4
    <3>2. e.scheduled \/ e.ready > 0
      BY <1>5, <2>4 DEF Ready
    <3>3. \A j \in 1 .. k : j \in 1 .. k - 1 \/ j = k
      BY <1>3
    <3>4. \A j \in 1 .. k : y.rob[j].scheduled \/ y.rob[j].ready > 0
      BY <2>3, <3>1, <3>2, <3>3
    <3>5. QED
      BY <1>2, <2>2, <3>1, <3>4 DEF Scheduling, y
  <2>5. CASE now
    <3>1. y.ra = new.ra /\ y.rob = [x.rob EXCEPT ![k] = new.instr] /\ ~e.scheduled /\ e.ready <= 0
      BY <2>2, <2>5 DEF Ready
    <3>2. Ordered(x.rob, latency)
      BY <1>2 DEF RegInv
    <3>3. \A j \in DOMAIN x.rob : j < k => x.rob[j].scheduled
      <4> SUFFICES ASSUME NEW j \in DOMAIN x.rob, j < k, ~x.rob[j].scheduled
                   PROVE  FALSE
        OBVIOUS
      <4>1. j \in 1 .. k - 1 /\ k \in DOMAIN x.rob
        BY <1>2, <1>3
      <4>2. x.rob[j].ready > 0
        BY <2>3, <4>1
      <4>3. x.rob[j].ready <= e.ready /\ x.rob[j].ready \in 0 .. latency
        BY <3>2, <4>1 DEF Ordered
      <4>4. QED
        BY <1>5, <3>1, <4>2, <4>3
    <3>4. RegistersFor(x.ra, e) <= Len(x.ra.free)
      <4>1. ~(Len(x.ra.free) < RegistersFor(x.ra, e))
        BY <1>8 DEF count_free_registers
      <4>2. Len(x.ra.free) \in Nat
        <5>1. x.ra \in Allocator(Nat)
          BY <1>2 DEF RegInv, Accounted
        <5>2. QED
          BY <5>1, AllocatorMembers, LenProperties
      <4>3. RegistersFor(x.ra, e) \in Nat
        <5>1. /\ DOMAIN e.srcs = 1 .. Len(e.srcs) /\ Len(e.srcs) \in Nat /\ Len(e.dsts) \in Nat
          BY <1>5, LenProperties
        <5> DEFINE T == {j \in DOMAIN e.srcs : ~isAllocated(x.ra, e.srcs[j])}
        <5>2. IsFiniteSet(T)
          BY <5>1, FirstNumbers, FS_Subset
        <5>3. RegistersFor(x.ra, e) = Cardinality(T) + Len(e.dsts)
          BY DEF RegistersFor
        <5> HIDE DEF T
        <5>4. Cardinality(T) \in Nat
          BY <5>2, FS_CardinalityType
        <5>5. QED
          BY <5>1, <5>3, <5>4
      <4>4. QED
        BY <4>1, <4>2, <4>3
    <3>5. /\ RegInv(prog, base, new.ra, [x.rob EXCEPT ![k] = new.instr], latency)
          /\ new.instr \in Entry /\ new.instr.id = e.id /\ new.instr.ready = e.ready
          /\ new.instr.scheduled /\ new.instr.completed = e.completed /\ new.instr.memops = e.memops
      <4>1. k \in DOMAIN x.rob
        BY <1>2, <1>3
      <4>2. QED
        BY <1>2, <1>4, <3>1, <3>3, <3>4, <4>1, RegSchedule
    <3> HIDE DEF new
    <3>6. /\ y.rob \in Seq(Entry) /\ DOMAIN y.rob = DOMAIN rob
          /\ \A i \in DOMAIN rob : y.rob[i] = IF i = k THEN new.instr ELSE x.rob[i]
      <4>1. /\ [x.rob EXCEPT ![k] = new.instr] \in Seq(Entry)
            /\ \A i \in 1 .. Len(x.rob) : [x.rob EXCEPT ![k] = new.instr][i] = IF i = k THEN new.instr ELSE x.rob[i]
        BY <1>2, <1>3, <3>5, CountReplaced
      <4>2. DOMAIN y.rob = DOMAIN rob
        BY <1>2, <3>1
      <4>3. QED
        BY <1>3, <3>1, <4>1, <4>2
    <3>7. \A i \in DOMAIN rob :
             /\ y.rob[i].id = rob[i].id /\ y.rob[i].memops = rob[i].memops
             /\ y.rob[i].completed = rob[i].completed
      BY <1>2, <1>3, <3>5, <3>6
    <3>8. \A j \in 1 .. k : y.rob[j].scheduled \/ y.rob[j].ready > 0
      <4> SUFFICES ASSUME NEW j \in 1 .. k
                   PROVE  y.rob[j].scheduled \/ y.rob[j].ready > 0
        OBVIOUS
      <4>1. j \in DOMAIN rob
        BY <1>3
      <4>2. CASE j = k
        BY <3>5, <3>6, <4>1, <4>2
      <4>3. CASE j # k
        <5>1. j \in 1 .. k - 1
          BY <1>3, <4>3
        <5>2. QED
          BY <2>3, <3>6, <4>1, <4>3, <5>1
      <4>4. QED
        BY <4>2, <4>3
    <3>9. RegInv(prog, base, y.ra, y.rob, latency)
      BY <3>1, <3>5
    <3>10. QED
      BY <2>2, <3>6, <3>7, <3>8, <3>9 DEF Scheduling, y
  <2>6. QED
    BY <2>4, <2>5
<1>9. QED
  BY <1>7, <1>8

\* The whole of schedule_instruction.
LEMMA ScheduleKeeps ==
  ASSUME NEW prog, NEW base, NEW a, NEW rob, NEW latency, NEW width,
         RegInv(prog, base, a, rob, latency), Follows(prog, base, rob)
  PROVE  Scheduling(prog, base, rob, latency, Len(rob),
                    FoldLeft(ScheduleOne, [ra |-> a, rob |-> rob, stop |-> FALSE, width |-> width],
                             [i \in 1 .. Len(rob) |-> i]))
<1> DEFINE start == [ra |-> a, rob |-> rob, stop |-> FALSE, width |-> width]
           q == [i \in 1 .. Len(rob) |-> i]
           n == Len(rob)
<1>1. rob \in Seq(Entry) /\ n \in Nat
  BY LenProperties DEF Follows
<1>2. q \in Seq(Nat) /\ Len(q) = n /\ \A i \in 1 .. n : q[i] = i
  <2>1. q \in [1 .. n -> Nat]
    BY <1>1
  <2>2. QED
    BY <1>1, <2>1, FunctionIsSequence
<1>3. start.ra = a /\ start.rob = rob /\ start.stop = FALSE /\ start.width = width
      /\ WholeState(start)
  BY DEF WholeState
<1> HIDE DEF start, q
<1>4. Scheduling(prog, base, rob, latency, 0, start)
  <2>1. \A j \in 1 .. 0 : FALSE
    OBVIOUS
  <2>2. QED
    BY <1>1, <1>3, <2>1 DEF Scheduling
<1>5. SchedulePath(start, q)
  BY <1>2, ScheduleFold
<1>6. PICK g : /\ g[0] = start /\ g[n] = FoldLeft(ScheduleOne, start, q)
               /\ \A k \in 1 .. n : g[k] = ScheduleOne(g[k - 1], q[k])
  BY <1>2, <1>5 DEF SchedulePath
<1> DEFINE S == {k \in 0 .. n : Scheduling(prog, base, rob, latency, k, g[k])}
<1>7. 0 \in S
  BY <1>1, <1>4, <1>6
<1>8. ASSUME NEW k \in 1 .. n, k - 1 \in S
      PROVE  k \in S
  <2>1. Scheduling(prog, base, rob, latency, k - 1, g[k - 1])
    BY <1>8
  <2>2. Scheduling(prog, base, rob, latency, k, ScheduleOne(g[k - 1], k))
    BY <2>1, ScheduleNext
  <2>3. g[k] = ScheduleOne(g[k - 1], k) /\ k \in 0 .. n
    BY <1>1, <1>2, <1>6
  <2>4. QED
    BY <2>2, <2>3
<1> HIDE DEF S
<1>9. \A k \in 0 .. n : k \in S
  BY <1>1, <1>7, <1>8, UpTo
<1>10. n \in S
  BY <1>1, <1>9
<1>11. QED
  BY <1>6, <1>10 DEF S, start, q

-----------------------------------------------------------------------------
(* Every action keeps the invariant. *)

\* A configuration and a program.
LEMMA CoreNumbers ==
  ASSUME NEW c \in Configs
  PROVE  /\ c.ROB_SIZE \in Nat /\ c.LQ_SIZE \in Nat /\ c.SQ_SIZE \in Nat
         /\ c.RQ_SIZE \in Nat /\ c.WQ_SIZE \in Nat
         /\ c.DISPATCH_WIDTH \in Nat /\ c.SCHEDULER_SIZE \in Nat /\ c.EXEC_WIDTH \in Nat
         /\ c.RETIRE_WIDTH \in Nat /\ c.LQ_WIDTH \in Nat /\ c.SQ_WIDTH \in Nat
         /\ c.L1D_BANDWIDTH \in Nat
         /\ c.SCHEDULING_LATENCY \in 0 .. Never - 1 /\ c.EXEC_LATENCY \in 0 .. Never - 1
         /\ Never \in Nat
BY BackendAssumption DEF Core

LEMMA ProgramFacts ==
  ASSUME NEW p \in Programs
  PROVE  /\ p \in Seq(Instruction) /\ Len(p) < Never /\ Len(p) \in Nat /\ Never \in Nat
         /\ DOMAIN p = 1 .. Len(p)
         /\ \A id \in 1 .. Len(p) :
               /\ p[id].srcs \in Seq(ArchRegs) /\ p[id].dsts \in Seq(ArchRegs)
               /\ p[id].loads \in Seq(Addresses) /\ p[id].stores \in Seq(Addresses)
<1>1. p \in Seq(Instruction) /\ Len(p) < Never /\ Never \in Nat
  BY BackendAssumption
<1>2. Len(p) \in Nat /\ DOMAIN p = 1 .. Len(p)
  BY <1>1, LenProperties
<1>3. ASSUME NEW id \in 1 .. Len(p)
      PROVE  /\ p[id].srcs \in Seq(ArchRegs) /\ p[id].dsts \in Seq(ArchRegs)
             /\ p[id].loads \in Seq(Addresses) /\ p[id].stores \in Seq(Addresses)
  <2>1. p[id] \in Instruction
    BY <1>1, ElementOfSeq
  <2>2. QED
    BY <2>1 DEF Instruction
<1>4. QED
  BY <1>1, <1>2, <1>3

\* The ROB holds a part of the program.
LEMMA RobFollows ==
  ASSUME BackendInv
  PROVE  /\ Follows(program, num_retired, ROB)
         /\ DOMAIN ROB = 1 .. Len(ROB) /\ Len(ROB) \in Nat /\ num_retired \in Nat
         /\ ROB \in Seq(Entry) /\ num_retired + Len(ROB) <= Len(program)
         /\ \A i \in 1 .. Len(ROB) : ROB[i].id = num_retired + i /\ ROB[i] \in Entry
<1>1. program \in Programs /\ ROB \in Seq(Entry) /\ num_retired \in Nat
  BY DEF BackendInv, TypeInv
<1>2. program \in Seq(Instruction)
  BY <1>1, ProgramFacts
<1>3. DOMAIN ROB = 1 .. Len(ROB) /\ Len(ROB) \in Nat
  BY <1>1, LenProperties
<1>4. /\ num_retired + Len(ROB) <= Len(program)
      /\ \A i \in DOMAIN ROB : ROB[i].id = num_retired + i
  BY DEF BackendInv, MemInv
<1>5. \A i \in 1 .. Len(ROB) : ROB[i] \in Entry
  BY <1>1, ElementOfSeq
<1>6. Follows(program, num_retired, ROB)
  BY <1>1, <1>2, <1>4 DEF Follows
<1>7. QED
  BY <1>1, <1>3, <1>4, <1>5, <1>6

\* How far a loop gets whose body stops it at the first position that is not good.
LEMMA SpanIs ==
  ASSUME NEW m \in Nat, NEW n \in Int, NEW Good
  PROVE  LET c == Cardinality({k \in 1 .. m : k <= n /\ \A i \in 1 .. k : i \in Good})
         IN  /\ c \in 0 .. m /\ \A i \in 1 .. c : i \in Good
             /\ n >= 0 => c <= n
<1> DEFINE D == {k \in 1 .. m : k <= n /\ \A i \in 1 .. k : i \in Good}
           c == Cardinality(D)
<1>1. D \in SUBSET (1 .. m)
  OBVIOUS
<1>2. \A k \in D : \A i \in 1 .. k : i \in D
  <2> SUFFICES ASSUME NEW k \in D, NEW i \in 1 .. k
               PROVE  i \in D
    OBVIOUS
  <2>1. k \in 1 .. m /\ k <= n /\ \A j \in 1 .. k : j \in Good
    OBVIOUS
  <2>2. i \in 1 .. m /\ i <= n
    BY <2>1
  <2>3. \A j \in 1 .. i : j \in 1 .. k
    BY <2>1
  <2>4. QED
    BY <2>1, <2>2, <2>3
<1>3. c \in 0 .. m /\ D = 1 .. c
  <2> HIDE DEF D
  <2>1. QED
    BY <1>1, <1>2, FirstPart
<1> HIDE DEF c
<1>4. \A i \in 1 .. c : i \in Good /\ i <= n
  <2> SUFFICES ASSUME NEW i \in 1 .. c
               PROVE  i \in Good /\ i <= n
    OBVIOUS
  <2>1. i \in D
    BY <1>3
  <2>2. i \in 1 .. i
    BY <1>3
  <2>3. QED
    BY <2>1, <2>2
<1>5. n >= 0 => c <= n
  <2>1. CASE c = 0
    BY <2>1
  <2>2. CASE c # 0
    <3>1. c \in 1 .. c
      BY <1>3, <2>2
    <3>2. QED
      BY <1>4, <3>1
  <2>3. QED
    BY <2>1, <2>2
<1>6. QED
  BY <1>3, <1>4, <1>5 DEF c

\* Retirement drops instructions that have completed.
LEMMA AfterRetire ==
  ASSUME BackendInv, Retire
  PROVE  BackendInv'
<1> DEFINE n == SpanOf(ROB, cfg.RETIRE_WIDTH, Completed)
           len == Len(ROB)
<1>1. /\ Follows(program, num_retired, ROB) /\ DOMAIN ROB = 1 .. len /\ len \in Nat
      /\ num_retired \in Nat /\ ROB \in Seq(Entry)
  BY RobFollows
<1>2. /\ TypeInv /\ SizeInv /\ num_retired + len <= arrived
      /\ MemInv(program, num_retired, ROB, LQ, SQ)
      /\ RegInv(program, num_retired, ra, ROB, cfg.SCHEDULING_LATENCY)
  BY DEF BackendInv
<1>3. cfg \in Configs /\ program \in Programs /\ arrived \in 0 .. Len(program)
  BY <1>2 DEF TypeInv
<1>4. cfg.RETIRE_WIDTH \in Nat /\ cfg.LQ_SIZE \in Nat /\ cfg.ROB_SIZE \in Nat /\ Len(program) \in Nat
  BY <1>3, CoreNumbers, ProgramFacts
<1>5. n \in 0 .. len /\ \A i \in 1 .. n : ROB[i].completed
  <2> DEFINE Good == {i \in 1 .. len : ROB[i].completed}
             D == {k \in 1 .. len : k <= cfg.RETIRE_WIDTH /\ \A i \in 1 .. k : i \in Good}
  <2>1. {k \in 1 .. Len(ROB) : k <= cfg.RETIRE_WIDTH /\ \A i \in 1 .. k : Completed(ROB[i])} = D
    <3>1. \A k \in 1 .. len : \A i \in 1 .. k : i \in 1 .. len
      BY <1>1
    <3>2. \A k \in 1 .. len : \A i \in 1 .. k : Completed(ROB[i]) <=> i \in Good
      BY <3>1 DEF Completed
    <3>3. QED
      BY <3>2
  <2>2. n = Cardinality(D)
    BY <2>1 DEF SpanOf
  <2> HIDE DEF Good, n, len
  <2>3. cfg.RETIRE_WIDTH \in Int
    BY <1>4
  <2>4. n \in 0 .. len /\ \A i \in 1 .. n : i \in Good
    BY <1>1, <2>2, <2>3, SpanIs
  <2>5. QED
    BY <2>4 DEF Good
<1>6. /\ ra' = FoldLeft(RetireOne, ra, SubSeq(ROB, 1, n))
      /\ ROB' = SubSeq(ROB, n + 1, len) /\ num_retired' = num_retired + n
      /\ UNCHANGED <<LQ, SQ, L1D, owed, arrived, cfg, program>>
  BY DEF Retire, busVars, configVars
<1> HIDE DEF n, len
<1>7. ROB' \in Seq(Entry) /\ Len(ROB') = len - n /\ n \in Nat
  <2>1. /\ SubSeq(ROB, n + 1, Len(ROB)) \in Seq(Entry)
        /\ Len(SubSeq(ROB, n + 1, Len(ROB))) = Len(ROB) - n
    BY <1>1, <1>5, CountSplit DEF len
  <2>2. ROB' = SubSeq(ROB, n + 1, Len(ROB))
    BY <1>6 DEF len
  <2>3. QED
    BY <1>5, <2>1, <2>2 DEF len
<1>8. RegInv(program, num_retired + n, ra', ROB', cfg.SCHEDULING_LATENCY)
  BY <1>1, <1>2, <1>5, <1>6, RegRetire DEF len
<1>9. MemInv(program, num_retired + n, ROB', LQ, SQ)
  <2>1. LQ \in [1 .. cfg.LQ_SIZE -> Slot] /\ SQ \in Seq(Store(cfg.LQ_SIZE))
    BY <1>2 DEF TypeInv
  <2>2. MemInv(program, num_retired + n, SubSeq(ROB, n + 1, Len(ROB)), LQ, SQ)
    BY <1>1, <1>2, <1>4, <1>5, <2>1, MemRetire DEF len
  <2>3. QED
    BY <1>6, <2>2 DEF len
<1>10. TypeInv'
  BY <1>1, <1>2, <1>6, <1>7 DEF TypeInv
<1>11. SizeInv'
  <2>1. /\ len <= cfg.ROB_SIZE /\ Len(SQ) <= cfg.SQ_SIZE
        /\ Len(L1D.RQ) <= cfg.RQ_SIZE /\ Len(L1D.WQ) <= cfg.WQ_SIZE
    BY <1>2 DEF SizeInv, len
  <2>2. Len(ROB') <= cfg.ROB_SIZE
    BY <1>1, <1>4, <1>5, <1>7, <2>1
  <2>3. QED
    BY <1>6, <2>1, <2>2 DEF SizeInv
<1>12. num_retired' + Len(ROB') <= arrived'
  BY <1>1, <1>2, <1>3, <1>4, <1>5, <1>6, <1>7
<1>13. QED
  BY <1>6, <1>8, <1>9, <1>10, <1>11, <1>12 DEF BackendInv

\* Instructions that keep their place, their operations and their registers.
SameEntries(rob, rob2) ==
    /\ rob2 \in Seq(Entry) /\ Len(rob2) = Len(rob)
    /\ \A i \in DOMAIN rob : rob2[i].memops = rob[i].memops
    /\ SameRegisters(rob, rob2)

\* A mapped ROB is a ROB.
LEMMA MappedRob ==
  ASSUME NEW rob \in Seq(Entry), NEW rob2, DOMAIN rob2 = DOMAIN rob,
         NEW f, rob2 = [i \in DOMAIN rob |-> f[i]],
         \A i \in DOMAIN rob :
            /\ f[i] \in Entry /\ f[i].id = rob[i].id /\ f[i].memops = rob[i].memops
            /\ f[i].scheduled = rob[i].scheduled /\ f[i].srcs = rob[i].srcs /\ f[i].dsts = rob[i].dsts
  PROVE  SameEntries(rob, rob2)
<1>1. DOMAIN rob = 1 .. Len(rob) /\ Len(rob) \in Nat
  BY LenProperties
<1>2. \A i \in DOMAIN rob : rob2[i] = f[i]
  OBVIOUS
<1>3. rob2 \in [1 .. Len(rob) -> Entry]
  BY <1>1
<1>4. rob2 \in Seq(Entry) /\ Len(rob2) = Len(rob)
  BY <1>1, <1>3, FunctionIsSequence
<1>5. QED
  BY <1>2, <1>4 DEF SameEntries, SameRegisters

\* Entries that differ in their ready times follow the program alike.
LEMMA SameFollows ==
  ASSUME NEW prog, NEW base, NEW rob, NEW rob2, Follows(prog, base, rob), SameEntries(rob, rob2)
  PROVE  Follows(prog, base, rob2) /\ SameRegisters(rob, rob2) /\ DOMAIN rob2 = DOMAIN rob
BY DEF Follows, SameEntries, SameRegisters

\* Single fields of an entry of the ROB.
LEMMA CompletedEntry ==
  ASSUME NEW e \in Entry
  PROVE  LET f == [e EXCEPT !.completed = TRUE]
         IN  /\ f \in Entry /\ f.id = e.id /\ f.memops = e.memops /\ f.scheduled = e.scheduled
             /\ f.srcs = e.srcs /\ f.dsts = e.dsts /\ f.ready = e.ready /\ f.executed = e.executed
             /\ f.completed
BY DEF Entry

LEMMA ReadyEntry ==
  ASSUME NEW e \in Entry, NEW t \in Int
  PROVE  LET f == [e EXCEPT !.ready = t]
         IN  /\ f \in Entry /\ f.id = e.id /\ f.memops = e.memops /\ f.scheduled = e.scheduled
             /\ f.srcs = e.srcs /\ f.dsts = e.dsts /\ f.ready = t /\ f.executed = e.executed
             /\ f.completed = e.completed
BY DEF Entry

LEMMA ExecutedEntry ==
  ASSUME NEW e \in Entry, NEW t \in Int
  PROVE  LET f == [e EXCEPT !.executed = TRUE, !.ready = t]
         IN  /\ f \in Entry /\ f.id = e.id /\ f.memops = e.memops /\ f.scheduled = e.scheduled
             /\ f.srcs = e.srcs /\ f.dsts = e.dsts /\ f.completed = e.completed
             /\ f.executed
<1> DEFINE f == [e EXCEPT !.executed = TRUE, !.ready = t]
<1>1. f \in Entry
  BY DEF Entry
<1>2. f.id = e.id /\ f.memops = e.memops
  BY DEF Entry
<1>3. f.scheduled = e.scheduled /\ f.completed = e.completed
  BY DEF Entry
<1>4. f.srcs = e.srcs /\ f.dsts = e.dsts
  BY DEF Entry
<1>5. f.executed
  BY DEF Entry
<1>6. QED
  BY <1>1, <1>2, <1>3, <1>4, <1>5

\* The same operations are in the queues, and who completes has done them.
LEMMA MemSame ==
  ASSUME NEW prog, NEW base, NEW rob, NEW rob2, NEW lq, NEW sq,
         MemInv(prog, base, rob, lq, sq), SameEntries(rob, rob2),
         \A i \in DOMAIN rob : rob2[i].completed =>
            rob[i].completed \/ rob[i].memops = Ops(prog, rob[i].id)
  PROVE  MemInv(prog, base, rob2, lq, sq)
<1>1. /\ DOMAIN rob2 = DOMAIN rob /\ Len(rob2) = Len(rob)
      /\ \A i \in DOMAIN rob :
            /\ rob2[i].id = rob[i].id /\ rob2[i].memops = rob[i].memops
            /\ rob2[i].completed => rob[i].completed \/ rob[i].memops = Ops(prog, rob[i].id)
  BY DEF SameEntries, SameRegisters
<1>2. QED
  BY <1>1, MemAlike

\* complete_inflight_instruction keeps the invariant.
LEMMA AfterComplete ==
  ASSUME BackendInv, Complete
  PROVE  BackendInv'
<1> DEFINE done == FirstOf({i \in DOMAIN ROB : CanComplete(ROB[i])}, cfg.EXEC_WIDTH)
           written == UNION {Members(ROB[i].dsts) : i \in done}
           f == [i \in DOMAIN ROB |-> IF i \in done THEN [ROB[i] EXCEPT !.completed = TRUE] ELSE ROB[i]]
<1>1. /\ Follows(program, num_retired, ROB) /\ DOMAIN ROB = 1 .. Len(ROB)
      /\ ROB \in Seq(Entry) /\ \A i \in DOMAIN ROB : ROB[i] \in Entry
  BY RobFollows
<1>2. /\ TypeInv /\ SizeInv /\ num_retired + Len(ROB) <= arrived
      /\ MemInv(program, num_retired, ROB, LQ, SQ)
      /\ RegInv(program, num_retired, ra, ROB, cfg.SCHEDULING_LATENCY)
  BY DEF BackendInv
<1>3. /\ ra' = complete_dest_registers(ra, written) /\ ROB' = f
      /\ UNCHANGED <<LQ, SQ, num_retired, L1D, owed, arrived, cfg, program>>
  BY DEF Complete, busVars, configVars
<1>4. \A i \in done : /\ ROB[i].executed
                      /\ ROB[i].memops = Ops(program, ROB[i].id)
  BY DEF FirstOf, CanComplete, NumMemOps, Ops
<1> HIDE DEF done, written
<1>5. \A i \in DOMAIN ROB :
         /\ f[i] \in Entry /\ f[i].id = ROB[i].id /\ f[i].memops = ROB[i].memops
         /\ f[i].scheduled = ROB[i].scheduled /\ f[i].srcs = ROB[i].srcs /\ f[i].dsts = ROB[i].dsts
         /\ f[i].ready = ROB[i].ready /\ f[i].executed = ROB[i].executed
         /\ f[i].completed => ROB[i].completed \/ i \in done
  <2> SUFFICES ASSUME NEW i \in DOMAIN ROB
               PROVE  /\ f[i] \in Entry /\ f[i].id = ROB[i].id /\ f[i].memops = ROB[i].memops
                      /\ f[i].scheduled = ROB[i].scheduled /\ f[i].srcs = ROB[i].srcs
                      /\ f[i].dsts = ROB[i].dsts /\ f[i].ready = ROB[i].ready
                      /\ f[i].executed = ROB[i].executed
                      /\ f[i].completed => ROB[i].completed \/ i \in done
    OBVIOUS
  <2>1. CASE i \in done
    <3>1. f[i] = [ROB[i] EXCEPT !.completed = TRUE] /\ ROB[i] \in Entry
      BY <1>1, <2>1
    <3> HIDE DEF f
    <3>2. QED
      BY <2>1, <3>1, CompletedEntry
  <2>2. CASE i \notin done
    BY <1>1, <2>2
  <2>3. QED
    BY <2>1, <2>2
<1>6. SameEntries(ROB, ROB')
  <2>1. DOMAIN ROB' = DOMAIN ROB /\ ROB' = [i \in DOMAIN ROB |-> f[i]]
    BY <1>3
  <2> HIDE DEF f
  <2>2. QED
    BY <1>1, <1>5, <2>1, MappedRob, SMTT(30)
<1> HIDE DEF f
<1>7. Follows(program, num_retired, ROB') /\ SameRegisters(ROB, ROB') /\ DOMAIN ROB' = DOMAIN ROB
  BY <1>1, <1>6, SameFollows
<1>8. Ordered(ROB, cfg.SCHEDULING_LATENCY)
  BY <1>2 DEF RegInv
<1>9. \A i \in DOMAIN ROB : /\ ROB[i].executed => ROB[i].scheduled
                            /\ ROB[i].completed => ROB[i].executed
  BY <1>8 DEF Ordered
<1>10. Ordered(ROB', cfg.SCHEDULING_LATENCY)
  <2>1. \A i \in DOMAIN ROB : /\ ~ROB[i].scheduled => ROB'[i].ready = ROB[i].ready
                              /\ ROB'[i].executed => ROB[i].scheduled
                              /\ ROB'[i].completed => ROB'[i].executed
    BY <1>3, <1>4, <1>5, <1>9
  <2>2. QED
    BY <1>7, <1>8, <2>1, ProgressOrdered
<1>11. RegInv(program, num_retired, ra', ROB', cfg.SCHEDULING_LATENCY)
  <2>1. \A i \in DOMAIN ROB : ROB'[i].executed => ROB[i].executed
    BY <1>3, <1>5
  <2>2. RegInv(program, num_retired, complete_dest_registers(ra, written), ROB', cfg.SCHEDULING_LATENCY)
    BY <1>1, <1>2, <1>7, <1>10, <2>1, RegComplete
  <2>3. QED
    BY <1>3, <2>2
<1>12. MemInv(program, num_retired, ROB', LQ, SQ)
  <2>1. \A i \in DOMAIN ROB : ROB'[i].completed =>
           ROB[i].completed \/ ROB[i].memops = Ops(program, ROB[i].id)
    BY <1>3, <1>4, <1>5
  <2>2. QED
    BY <1>2, <1>6, <2>1, MemSame
<1>13. ROB' \in Seq(Entry) /\ Len(ROB') = Len(ROB)
  BY <1>6 DEF SameEntries
<1>14. TypeInv' /\ SizeInv' /\ num_retired' + Len(ROB') <= arrived'
  BY <1>2, <1>3, <1>13 DEF TypeInv, SizeInv
<1>15. QED
  BY <1>3, <1>11, <1>12, <1>14 DEF BackendInv

\* Loads and stores for which only time passes.
SameLoads(N, lq, lq2) ==
    /\ lq2 \in [1 .. N -> Slot]
    /\ \A s \in 1 .. N :
          /\ lq2[s] = NoEntry <=> lq[s] = NoEntry
          /\ lq2[s] # NoEntry => /\ lq2[s].id = lq[s].id /\ lq2[s].addr = lq[s].addr
                                 /\ lq2[s].producer = lq[s].producer
                                 /\ lq2[s].issued = lq[s].issued

\* The same stores, their ready times apart.
SameStores(N, sq, sq2) ==
    /\ sq2 \in Seq(Store(N)) /\ Len(sq2) = Len(sq)
    /\ \A j \in DOMAIN sq :
          /\ sq2[j].id = sq[j].id /\ sq2[j].addr = sq[j].addr
          /\ sq2[j].issued = sq[j].issued /\ sq2[j].waiters = sq[j].waiters

LEMMA LoadsMapped ==
  ASSUME NEW N \in Nat, NEW lq \in [1 .. N -> Slot], NEW g, NEW lq2, lq2 = [s \in DOMAIN lq |-> g[s]],
         \A s \in DOMAIN lq : \/ g[s] = lq[s]
                              \/ lq[s] # NoEntry /\ \E t \in Int : g[s] = [lq[s] EXCEPT !.ready = t]
  PROVE  SameLoads(N, lq, lq2)
<1>1. DOMAIN lq = 1 .. N
  OBVIOUS
<1>2. ASSUME NEW s \in 1 .. N
      PROVE  /\ lq2[s] \in Slot /\ (lq2[s] = NoEntry <=> lq[s] = NoEntry)
             /\ lq2[s] # NoEntry => /\ lq2[s].id = lq[s].id /\ lq2[s].addr = lq[s].addr
                                    /\ lq2[s].producer = lq[s].producer
                                    /\ lq2[s].issued = lq[s].issued
  <2>1. lq2[s] = g[s] /\ lq[s] \in Slot
    BY <1>1
  <2>2. CASE g[s] = lq[s]
    BY <2>1, <2>2
  <2>3. CASE lq[s] # NoEntry /\ \E t \in Int : g[s] = [lq[s] EXCEPT !.ready = t]
    <3> DEFINE e == lq[s]
    <3>1. e \in LoadEntry
      BY <2>1, <2>3 DEF Slot
    <3>2. PICK t \in Int : g[s] = [e EXCEPT !.ready = t]
      BY <2>3
    <3> HIDE DEF e
    <3> DEFINE h == [e EXCEPT !.ready = t]
    <3>3. h \in LoadEntry
      BY <3>1 DEF LoadEntry
    <3>4. h.id = e.id /\ h.addr = e.addr /\ h.producer = e.producer /\ h.issued = e.issued
      BY <3>1 DEF LoadEntry
    <3> HIDE DEF h
    <3>5. h # NoEntry /\ h \in Slot
      BY <3>3, BackendAssumption DEF Slot
    <3>6. lq2[s] = h
      BY <2>1, <3>2 DEF h
    <3>7. QED
      BY <2>3, <3>4, <3>5, <3>6 DEF e
  <2>4. QED
    BY <1>1, <2>2, <2>3
<1>3. lq2 \in [1 .. N -> Slot]
  <2>1. \A s \in 1 .. N : g[s] \in Slot
    BY <1>1, <1>2
  <2>2. QED
    BY <1>1, <2>1
<1>4. QED
  BY <1>2, <1>3 DEF SameLoads

LEMMA StoresMapped ==
  ASSUME NEW N \in Nat, NEW sq \in Seq(Store(N)), NEW g, NEW sq2, sq2 = [j \in DOMAIN sq |-> g[j]],
         \A j \in DOMAIN sq : g[j] = sq[j] \/ \E t \in Int : g[j] = [sq[j] EXCEPT !.ready = t]
  PROVE  SameStores(N, sq, sq2)
<1>1. DOMAIN sq = 1 .. Len(sq) /\ Len(sq) \in Nat
  BY LenProperties
<1>2. ASSUME NEW j \in DOMAIN sq
      PROVE  /\ g[j] \in Store(N) /\ sq2[j] = g[j]
             /\ g[j].id = sq[j].id /\ g[j].addr = sq[j].addr
             /\ g[j].issued = sq[j].issued /\ g[j].waiters = sq[j].waiters
  <2>1. sq[j] \in Store(N) /\ sq2[j] = g[j]
    BY <1>1, ElementOfSeq
  <2>2. CASE g[j] = sq[j]
    BY <2>1, <2>2
  <2>3. CASE \E t \in Int : g[j] = [sq[j] EXCEPT !.ready = t]
    <3> DEFINE e == sq[j]
    <3>1. PICK t \in Int : g[j] = [e EXCEPT !.ready = t]
      BY <2>3
    <3>2. e \in Store(N)
      BY <2>1
    <3> HIDE DEF e
    <3> DEFINE h == [e EXCEPT !.ready = t]
    <3>3. h \in Store(N)
      BY <3>2 DEF Store
    <3>4. h.id = e.id /\ h.addr = e.addr /\ h.issued = e.issued /\ h.waiters = e.waiters
      BY <3>2 DEF Store
    <3> HIDE DEF h
    <3>5. g[j] = h
      BY <3>1 DEF h
    <3>6. QED
      BY <2>1, <3>3, <3>4, <3>5 DEF e
  <2>4. QED
    BY <2>2, <2>3
<1>3. sq2 \in [1 .. Len(sq) -> Store(N)]
  BY <1>1, <1>2
<1>4. sq2 \in Seq(Store(N)) /\ Len(sq2) = Len(sq)
  BY <1>1, <1>3, FunctionIsSequence
<1>5. \A j \in DOMAIN sq : /\ sq2[j].id = sq[j].id /\ sq2[j].addr = sq[j].addr
                           /\ sq2[j].issued = sq[j].issued /\ sq2[j].waiters = sq[j].waiters
  BY <1>2
<1>6. QED
  BY <1>4, <1>5 DEF SameStores

\* Time passes, and instructions complete that have done their operations.
LEMMA MemTick ==
  ASSUME NEW prog, NEW base, NEW rob, NEW rob2, NEW N \in Nat, NEW lq \in [1 .. N -> Slot], NEW lq2,
         NEW sq, sq \in Seq(Store(N)), NEW sq2,
         MemInv(prog, base, rob, lq, sq), SameEntries(rob, rob2),
         SameLoads(N, lq, lq2), SameStores(N, sq, sq2),
         \A i \in DOMAIN rob : rob2[i].completed = rob[i].completed
  PROVE  MemInv(prog, base, rob2, lq2, sq2)
<1>1. /\ DOMAIN rob2 = DOMAIN rob /\ Len(rob2) = Len(rob)
      /\ \A i \in DOMAIN rob :
            /\ rob2[i].id = rob[i].id /\ rob2[i].memops = rob[i].memops
            /\ rob2[i].completed => rob[i].completed \/ rob[i].memops = Ops(prog, rob[i].id)
  BY DEF SameEntries, SameRegisters
<1>2. DOMAIN lq = 1 .. N /\ DOMAIN lq2 = 1 .. N
  BY DEF SameLoads
<1>3. \A s \in DOMAIN lq :
         /\ lq2[s] = NoEntry <=> lq[s] = NoEntry
         /\ lq2[s] # NoEntry => /\ lq2[s].id = lq[s].id /\ lq2[s].addr = lq[s].addr
                                /\ lq2[s].producer = lq[s].producer
                                /\ lq2[s].issued => lq[s].issued \/ lq[s].producer = Never
  BY <1>2 DEF SameLoads
<1>4. DOMAIN sq2 = DOMAIN sq
  <2>1. sq2 \in Seq(Store(N)) /\ Len(sq2) = Len(sq)
    BY DEF SameStores
  <2>2. QED
    BY <2>1, LenProperties
<1>5. \A j \in DOMAIN sq :
         /\ sq2[j].id = sq[j].id /\ sq2[j].addr = sq[j].addr
         /\ sq2[j].issued = sq[j].issued /\ sq2[j].waiters = sq[j].waiters
  BY DEF SameStores
<1>6. MemInv(prog, base, rob, lq, sq) /\ DOMAIN lq2 = DOMAIN lq
  BY <1>2
<1>7. QED
  BY ONLY <1>1, <1>3, <1>4, <1>5, <1>6, MemAlike

\* execute_instruction keeps the invariant.
LEMMA AfterExecute ==
  ASSUME BackendInv, Execute
  PROVE  BackendInv'
<1> DEFINE started == FirstOf({i \in DOMAIN ROB : CanExecute(ROB[i])}, cfg.EXEC_WIDTH)
           ids == {ROB[i].id : i \in started}
           N == cfg.LQ_SIZE
           t == cfg.EXEC_LATENCY
           f == [i \in DOMAIN ROB |-> IF i \in started
                                        THEN [ROB[i] EXCEPT !.executed = TRUE, !.ready = t] ELSE ROB[i]]
           g == [s \in DOMAIN LQ |-> IF LQ[s] # NoEntry /\ LQ[s].id \in ids
                                       THEN [LQ[s] EXCEPT !.ready = t] ELSE LQ[s]]
           h == [j \in DOMAIN SQ |-> IF SQ[j].id \in ids
                                       THEN [SQ[j] EXCEPT !.ready = t] ELSE SQ[j]]
<1>1. /\ Follows(program, num_retired, ROB) /\ DOMAIN ROB = 1 .. Len(ROB)
      /\ ROB \in Seq(Entry) /\ \A i \in DOMAIN ROB : ROB[i] \in Entry
  BY RobFollows
<1>2. /\ TypeInv /\ SizeInv /\ num_retired + Len(ROB) <= arrived
      /\ MemInv(program, num_retired, ROB, LQ, SQ)
      /\ RegInv(program, num_retired, ra, ROB, cfg.SCHEDULING_LATENCY)
  BY DEF BackendInv
<1>3. /\ ROB' = f /\ LQ' = g /\ SQ' = h
      /\ UNCHANGED <<ra, num_retired, L1D, owed, arrived, cfg, program>>
  BY DEF Execute, busVars, configVars
<1>4. cfg \in Configs /\ LQ \in [1 .. N -> Slot] /\ SQ \in Seq(Store(N))
  BY <1>2 DEF TypeInv
<1>5. N \in Nat /\ t \in Int
  BY <1>4, CoreNumbers
<1>6. \A i \in started : /\ ROB[i].scheduled /\ ~ROB[i].executed
                         /\ \A k \in DOMAIN ROB[i].srcs : ra.file[ROB[i].srcs[k]].valid
  BY DEF FirstOf, CanExecute, isValid
<1> HIDE DEF started, ids, N, t
<1>7. \A i \in DOMAIN ROB :
         /\ f[i] \in Entry /\ f[i].id = ROB[i].id /\ f[i].memops = ROB[i].memops
         /\ f[i].scheduled = ROB[i].scheduled /\ f[i].srcs = ROB[i].srcs /\ f[i].dsts = ROB[i].dsts
         /\ f[i].completed = ROB[i].completed
         /\ i \notin started => f[i].ready = ROB[i].ready /\ f[i].executed = ROB[i].executed
         /\ i \in started => f[i].executed
  <2> SUFFICES ASSUME NEW i \in DOMAIN ROB
               PROVE  /\ f[i] \in Entry /\ f[i].id = ROB[i].id /\ f[i].memops = ROB[i].memops
                      /\ f[i].scheduled = ROB[i].scheduled /\ f[i].srcs = ROB[i].srcs
                      /\ f[i].dsts = ROB[i].dsts /\ f[i].completed = ROB[i].completed
                      /\ i \notin started => f[i].ready = ROB[i].ready /\ f[i].executed = ROB[i].executed
                      /\ i \in started => f[i].executed
    OBVIOUS
  <2>1. CASE i \in started
    <3>1. f[i] = [ROB[i] EXCEPT !.executed = TRUE, !.ready = t] /\ ROB[i] \in Entry
      BY <1>1, <2>1
    <3> DEFINE e == [ROB[i] EXCEPT !.executed = TRUE, !.ready = t]
    <3>2. /\ e \in Entry /\ e.id = ROB[i].id /\ e.memops = ROB[i].memops
          /\ e.scheduled = ROB[i].scheduled /\ e.srcs = ROB[i].srcs
          /\ e.dsts = ROB[i].dsts /\ e.completed = ROB[i].completed /\ e.executed
      BY ONLY <1>5, <3>1, ExecutedEntry
    <3> HIDE DEF f, e
    <3>3. f[i] = e
      BY <3>1 DEF e
    <3>4. QED
      BY <2>1, <3>2, <3>3
  <2>2. CASE i \notin started
    BY <1>1, <2>2
  <2>3. QED
    BY <2>1, <2>2
<1>8. SameEntries(ROB, ROB')
  <2>1. DOMAIN ROB' = DOMAIN ROB /\ ROB' = [i \in DOMAIN ROB |-> f[i]]
    BY <1>3
  <2> HIDE DEF f
  <2>2. QED
    BY <1>1, <1>7, <2>1, MappedRob, SMTT(30)
<1>9. SameLoads(N, LQ, LQ')
  <2>1. LQ' = [s \in DOMAIN LQ |-> g[s]]
    BY <1>3
  <2>2. ASSUME NEW s \in DOMAIN LQ
        PROVE  g[s] = LQ[s] \/ (LQ[s] # NoEntry /\ \E u \in Int : g[s] = [LQ[s] EXCEPT !.ready = u])
    <3>1. CASE LQ[s] # NoEntry /\ LQ[s].id \in ids
      BY <1>5, <3>1
    <3>2. CASE ~(LQ[s] # NoEntry /\ LQ[s].id \in ids)
      BY <3>2
    <3>3. QED
      BY <3>1, <3>2
  <2> HIDE DEF g
  <2>3. QED
    BY <1>4, <1>5, <2>1, <2>2, LoadsMapped
<1>10. SameStores(N, SQ, SQ')
  <2>1. SQ' = [j \in DOMAIN SQ |-> h[j]]
    BY <1>3
  <2>2. ASSUME NEW j \in DOMAIN SQ
        PROVE  h[j] = SQ[j] \/ \E u \in Int : h[j] = [SQ[j] EXCEPT !.ready = u]
    <3>1. CASE SQ[j].id \in ids
      BY <1>5, <3>1
    <3>2. CASE SQ[j].id \notin ids
      BY <3>2
    <3>3. QED
      BY <3>1, <3>2
  <2> HIDE DEF h
  <2>3. QED
    BY <1>4, <1>5, <2>1, <2>2, StoresMapped
<1> HIDE DEF f, g, h
<1>11. Follows(program, num_retired, ROB') /\ SameRegisters(ROB, ROB') /\ DOMAIN ROB' = DOMAIN ROB
  BY <1>1, <1>8, SameFollows
<1>12. Ordered(ROB, cfg.SCHEDULING_LATENCY)
  BY <1>2 DEF RegInv
<1>13. \A i \in DOMAIN ROB : /\ ROB[i].executed => ROB[i].scheduled
                             /\ ROB[i].completed => ROB[i].executed
  BY <1>12 DEF Ordered
<1>14. Ordered(ROB', cfg.SCHEDULING_LATENCY)
  <2>1. \A i \in DOMAIN ROB : /\ ~ROB[i].scheduled => ROB'[i].ready = ROB[i].ready
                              /\ ROB'[i].executed => ROB[i].scheduled
                              /\ ROB'[i].completed => ROB'[i].executed
    BY <1>3, <1>6, <1>7, <1>13
  <2>2. QED
    BY <1>11, <1>12, <2>1, ProgressOrdered
<1>15. RegInv(program, num_retired, ra, ROB', cfg.SCHEDULING_LATENCY)
  <2>1. \A i \in DOMAIN ROB : ROB'[i].executed =>
           ROB[i].executed \/ \A k \in DOMAIN ROB[i].srcs : ra.file[ROB[i].srcs[k]].valid
    BY <1>3, <1>6, <1>7
  <2>2. QED
    BY <1>1, <1>2, <1>11, <1>14, <2>1, RegSame
<1>16. MemInv(program, num_retired, ROB', LQ', SQ')
  <2>1. \A i \in DOMAIN ROB : ROB'[i].completed = ROB[i].completed
    BY <1>3, <1>7
  <2>2. QED
    BY <1>2, <1>4, <1>5, <1>8, <1>9, <1>10, <2>1, MemTick
<1>17. /\ ROB' \in Seq(Entry) /\ Len(ROB') = Len(ROB)
       /\ LQ' \in [1 .. N -> Slot] /\ SQ' \in Seq(Store(N)) /\ Len(SQ') = Len(SQ)
  BY <1>8, <1>9, <1>10 DEF SameEntries, SameLoads, SameStores
<1>18. TypeInv' /\ SizeInv' /\ num_retired' + Len(ROB') <= arrived'
  BY <1>2, <1>3, <1>17 DEF TypeInv, SizeInv, N
<1>19. QED
  BY <1>3, <1>15, <1>16, <1>18 DEF BackendInv

\* The passing of a cycle keeps the invariant.
LEMMA AfterStartCycle ==
  ASSUME BackendInv, StartCycle
  PROVE  BackendInv'
<1> DEFINE N == cfg.LQ_SIZE
           f == [i \in DOMAIN ROB |-> [ROB[i] EXCEPT !.ready = Passed(ROB[i].ready, 0)]]
           g == [s \in DOMAIN LQ |-> IF LQ[s] = NoEntry THEN NoEntry
                                     ELSE [LQ[s] EXCEPT !.ready = Passed(LQ[s].ready, -1)]]
           h == [j \in DOMAIN SQ |-> [SQ[j] EXCEPT !.ready = Passed(SQ[j].ready, 0)]]
<1>1. /\ Follows(program, num_retired, ROB) /\ DOMAIN ROB = 1 .. Len(ROB)
      /\ ROB \in Seq(Entry) /\ \A i \in DOMAIN ROB : ROB[i] \in Entry
  BY RobFollows
<1>2. /\ TypeInv /\ SizeInv /\ num_retired + Len(ROB) <= arrived
      /\ MemInv(program, num_retired, ROB, LQ, SQ)
      /\ RegInv(program, num_retired, ra, ROB, cfg.SCHEDULING_LATENCY)
  BY DEF BackendInv
<1>3. /\ ROB' = f /\ LQ' = g /\ SQ' = h
      /\ UNCHANGED <<ra, num_retired, L1D, owed, arrived, cfg, program>>
  BY DEF StartCycle, busVars, configVars
<1>4. cfg \in Configs /\ LQ \in [1 .. N -> Slot] /\ SQ \in Seq(Store(N))
  BY <1>2 DEF TypeInv
<1>5. /\ N \in Nat /\ cfg.SCHEDULING_LATENCY \in 0 .. Never - 1 /\ Never \in Nat
  BY <1>4, CoreNumbers
<1>6. \A t, u \in Int : Passed(t, u) \in Int
  BY DEF Passed
<1> HIDE DEF N
<1>7. \A i \in DOMAIN ROB :
         /\ f[i] \in Entry /\ f[i].id = ROB[i].id /\ f[i].memops = ROB[i].memops
         /\ f[i].scheduled = ROB[i].scheduled /\ f[i].srcs = ROB[i].srcs /\ f[i].dsts = ROB[i].dsts
         /\ f[i].completed = ROB[i].completed /\ f[i].executed = ROB[i].executed
         /\ f[i].ready = Passed(ROB[i].ready, 0)
  <2> SUFFICES ASSUME NEW i \in DOMAIN ROB
               PROVE  /\ f[i] \in Entry /\ f[i].id = ROB[i].id /\ f[i].memops = ROB[i].memops
                      /\ f[i].scheduled = ROB[i].scheduled /\ f[i].srcs = ROB[i].srcs
                      /\ f[i].dsts = ROB[i].dsts /\ f[i].completed = ROB[i].completed
                      /\ f[i].executed = ROB[i].executed /\ f[i].ready = Passed(ROB[i].ready, 0)
    OBVIOUS
  <2>1. f[i] = [ROB[i] EXCEPT !.ready = Passed(ROB[i].ready, 0)] /\ ROB[i] \in Entry
    BY <1>1
  <2>2. Passed(ROB[i].ready, 0) \in Int
    BY <1>6, <2>1 DEF Entry
  <2> HIDE DEF f
  <2>3. QED
    BY <2>1, <2>2, ReadyEntry
<1>8. SameEntries(ROB, ROB')
  <2>1. DOMAIN ROB' = DOMAIN ROB /\ ROB' = [i \in DOMAIN ROB |-> f[i]]
    BY <1>3
  <2> HIDE DEF f
  <2>2. \A i \in DOMAIN ROB :
           /\ f[i] \in Entry /\ f[i].id = ROB[i].id /\ f[i].memops = ROB[i].memops
           /\ f[i].scheduled = ROB[i].scheduled /\ f[i].srcs = ROB[i].srcs /\ f[i].dsts = ROB[i].dsts
    BY <1>7
  <2>3. QED
    BY ONLY <1>1, <2>1, <2>2, MappedRob
<1>9. SameLoads(N, LQ, LQ')
  <2>1. LQ' = [s \in DOMAIN LQ |-> g[s]]
    BY <1>3
  <2>2. ASSUME NEW s \in DOMAIN LQ
        PROVE  g[s] = LQ[s] \/ (LQ[s] # NoEntry /\ \E u \in Int : g[s] = [LQ[s] EXCEPT !.ready = u])
    <3>1. CASE LQ[s] = NoEntry
      BY <3>1
    <3>2. CASE LQ[s] # NoEntry
      <4>1. LQ[s] \in LoadEntry
        BY <1>4, <3>2 DEF Slot
      <4>2. Passed(LQ[s].ready, -1) \in Int
        BY <1>6, <4>1 DEF LoadEntry
      <4>3. g[s] = [LQ[s] EXCEPT !.ready = Passed(LQ[s].ready, -1)]
        BY <3>2
      <4>4. QED
        BY <3>2, <4>2, <4>3
    <3>3. QED
      BY <3>1, <3>2
  <2> HIDE DEF g
  <2>3. QED
    BY <1>4, <1>5, <2>1, <2>2, LoadsMapped
<1>10. SameStores(N, SQ, SQ')
  <2>1. SQ' = [j \in DOMAIN SQ |-> h[j]]
    BY <1>3
  <2>2. ASSUME NEW j \in DOMAIN SQ
        PROVE  h[j] = SQ[j] \/ \E u \in Int : h[j] = [SQ[j] EXCEPT !.ready = u]
    <3>1. SQ[j] \in Store(N)
      BY <1>4, LenProperties, ElementOfSeq
    <3>2. Passed(SQ[j].ready, 0) \in Int
      BY <1>6, <3>1 DEF Store
    <3>3. h[j] = [SQ[j] EXCEPT !.ready = Passed(SQ[j].ready, 0)]
      OBVIOUS
    <3>4. QED
      BY <3>2, <3>3
  <2> HIDE DEF h
  <2>3. QED
    BY <1>4, <1>5, <2>1, <2>2, StoresMapped
<1> HIDE DEF f, g, h
<1>11. Follows(program, num_retired, ROB') /\ SameRegisters(ROB, ROB') /\ DOMAIN ROB' = DOMAIN ROB
  BY <1>1, <1>8, SameFollows
<1>12. Ordered(ROB', cfg.SCHEDULING_LATENCY)
  <2>1. Ordered(ROB, cfg.SCHEDULING_LATENCY)
    BY <1>2 DEF RegInv
  <2>2. \A i \in DOMAIN ROB : /\ ROB'[i].ready = Passed(ROB[i].ready, 0)
                              /\ ROB'[i].executed = ROB[i].executed
                              /\ ROB'[i].completed = ROB[i].completed
    BY <1>3, <1>7
  <2>3. QED
    BY <1>5, <1>11, <2>1, <2>2, TickOrdered
<1>13. RegInv(program, num_retired, ra, ROB', cfg.SCHEDULING_LATENCY)
  <2>1. \A i \in DOMAIN ROB : ROB'[i].executed =>
           ROB[i].executed \/ \A k \in DOMAIN ROB[i].srcs : ra.file[ROB[i].srcs[k]].valid
    BY <1>3, <1>7
  <2>2. QED
    BY <1>1, <1>2, <1>11, <1>12, <2>1, RegSame
<1>14. MemInv(program, num_retired, ROB', LQ', SQ')
  <2>1. \A i \in DOMAIN ROB : ROB'[i].completed = ROB[i].completed
    BY <1>3, <1>7
  <2>2. QED
    BY <1>2, <1>4, <1>5, <1>8, <1>9, <1>10, <2>1, MemTick
<1>15. /\ ROB' \in Seq(Entry) /\ Len(ROB') = Len(ROB)
       /\ LQ' \in [1 .. N -> Slot] /\ SQ' \in Seq(Store(N)) /\ Len(SQ') = Len(SQ)
  BY <1>8, <1>9, <1>10 DEF SameEntries, SameLoads, SameStores
<1>16. TypeInv' /\ SizeInv' /\ num_retired' + Len(ROB') <= arrived'
  BY <1>2, <1>3, <1>15 DEF TypeInv, SizeInv, N
<1>17. QED
  BY <1>3, <1>13, <1>14, <1>16 DEF BackendInv

\* The front end's next instruction keeps the invariant.
LEMMA AfterArrive ==
  ASSUME BackendInv, Arrive
  PROVE  BackendInv'
<1>1. /\ arrived < Len(program) /\ arrived' = arrived + 1
      /\ UNCHANGED <<ROB, LQ, SQ, ra, num_retired, L1D, owed, cfg, program>>
  BY DEF Arrive, coreVars, configVars
<1>2. /\ TypeInv /\ SizeInv /\ num_retired + Len(ROB) <= arrived
      /\ MemInv(program, num_retired, ROB, LQ, SQ)
      /\ RegInv(program, num_retired, ra, ROB, cfg.SCHEDULING_LATENCY)
  BY DEF BackendInv
<1>3. program \in Programs /\ arrived \in 0 .. Len(program)
  BY <1>2 DEF TypeInv
<1>4. Len(program) \in Nat /\ Len(ROB) \in Nat /\ num_retired \in Nat
  BY <1>3, ProgramFacts, RobFollows
<1>5. arrived + 1 \in 0 .. Len(program) /\ num_retired + Len(ROB) <= arrived + 1
  BY <1>1, <1>2, <1>3, <1>4
<1>6. TypeInv' /\ SizeInv'
  BY <1>1, <1>2, <1>5 DEF TypeInv, SizeInv
<1>7. QED
  BY <1>1, <1>2, <1>5, <1>6 DEF BackendInv

\* What the L1D does changes the channel and what it owes.
LEMMA AfterBus ==
  ASSUME BackendInv, UNCHANGED <<cfg, program, arrived, ROB, LQ, SQ, ra, num_retired>>,
         (L1D \in ChannelOf(Addresses, Blocks) /\ owed \in Seq(Blocks))',
         Len(L1D.RQ') <= cfg.RQ_SIZE, Len(L1D.WQ') <= cfg.WQ_SIZE
  PROVE  BackendInv'
<1>1. TypeInv /\ SizeInv
  BY DEF BackendInv
<1>2. TypeInv'
  BY <1>1 DEF TypeInv
<1>3. SizeInv'
  BY <1>1 DEF SizeInv
<1>4. QED
  BY <1>2, <1>3 DEF BackendInv

LEMMA BusFacts ==
  ASSUME BackendInv
  PROVE  /\ L1D \in ChannelOf(Addresses, Blocks) /\ owed \in Seq(Blocks)
         /\ Len(L1D.RQ) <= cfg.RQ_SIZE /\ Len(L1D.WQ) <= cfg.WQ_SIZE
         /\ L1D.RQ \in Seq(Addresses) /\ L1D.WQ \in Seq(Addresses) /\ L1D.returned \in Seq(Blocks)
         /\ Len(L1D.RQ) \in Nat /\ Len(L1D.WQ) \in Nat
         /\ cfg.RQ_SIZE \in Nat /\ cfg.WQ_SIZE \in Nat /\ cfg \in Configs
<1>1. /\ L1D \in ChannelOf(Addresses, Blocks) /\ owed \in Seq(Blocks) /\ cfg \in Configs
      /\ Len(L1D.RQ) <= cfg.RQ_SIZE /\ Len(L1D.WQ) <= cfg.WQ_SIZE
  BY DEF BackendInv, TypeInv, SizeInv
<1>2. L1D.RQ \in Seq(Addresses) /\ L1D.WQ \in Seq(Addresses) /\ L1D.returned \in Seq(Blocks)
  BY <1>1 DEF ChannelOf
<1>3. QED
  BY <1>1, <1>2, CoreNumbers, LenProperties

\* The L1D taking a load keeps the invariant.
LEMMA AfterTakeRead ==
  ASSUME BackendInv, L1DTakeRead
  PROVE  BackendInv'
<1>1. /\ L1D.RQ # << >> /\ L1D' = Pop(L1D, "RQ") /\ owed' = Append(owed, BlockOf(Head(L1D.RQ)))
      /\ UNCHANGED <<cfg, program, arrived, ROB, LQ, SQ, ra, num_retired>>
  BY DEF L1DTakeRead, coreVars, configVars
<1>2. /\ L1D \in ChannelOf(Addresses, Blocks) /\ owed \in Seq(Blocks)
      /\ Len(L1D.RQ) <= cfg.RQ_SIZE /\ Len(L1D.WQ) <= cfg.WQ_SIZE /\ L1D.RQ \in Seq(Addresses)
      /\ cfg.RQ_SIZE \in Nat
  BY BusFacts
<1>3. "RQ" \in RequestQueues /\ "WQ" \in RequestQueues /\ "RQ" # "WQ"
  BY DEF RequestQueues
<1>4. L1D["RQ"] # << >>
  BY <1>1
<1>5. /\ Pop(L1D, "RQ") \in ChannelOf(Addresses, Blocks)
      /\ \A p \in RequestQueues : Pop(L1D, "RQ")[p] = IF p = "RQ" THEN Tail(L1D["RQ"]) ELSE L1D[p]
  BY <1>2, <1>3, <1>4, Popped
<1>6. /\ Len(Tail(L1D.RQ)) = Len(L1D.RQ) - 1 /\ Len(L1D.RQ) \in Nat \ {0}
      /\ Head(L1D.RQ) \in Addresses
  BY <1>1, <1>2, CountTail
<1>7. BlockOf(Head(L1D.RQ)) \in Blocks
  BY <1>6 DEF Blocks
<1>8. owed' \in Seq(Blocks)
  BY <1>1, <1>2, <1>7, AppendProperties
<1>9. L1D'.RQ = Tail(L1D.RQ) /\ L1D'.WQ = L1D.WQ
  BY <1>1, <1>3, <1>5
<1>10. Len(L1D'.RQ) <= cfg.RQ_SIZE /\ Len(L1D'.WQ) <= cfg.WQ_SIZE
  BY <1>2, <1>6, <1>9
<1>11. QED
  BY <1>1, <1>5, <1>8, <1>10, AfterBus

\* The L1D taking a store keeps the invariant.
LEMMA AfterTakeWrite ==
  ASSUME BackendInv, L1DTakeWrite
  PROVE  BackendInv'
<1>1. /\ L1D.WQ # << >> /\ L1D' = Pop(L1D, "WQ") /\ owed' = owed
      /\ UNCHANGED <<cfg, program, arrived, ROB, LQ, SQ, ra, num_retired>>
  BY DEF L1DTakeWrite, coreVars, configVars
<1>2. /\ L1D \in ChannelOf(Addresses, Blocks) /\ owed \in Seq(Blocks)
      /\ Len(L1D.RQ) <= cfg.RQ_SIZE /\ Len(L1D.WQ) <= cfg.WQ_SIZE /\ L1D.WQ \in Seq(Addresses)
      /\ cfg.WQ_SIZE \in Nat
  BY BusFacts
<1>3. "RQ" \in RequestQueues /\ "WQ" \in RequestQueues /\ "RQ" # "WQ"
  BY DEF RequestQueues
<1>4. L1D["WQ"] # << >>
  BY <1>1
<1>5. /\ Pop(L1D, "WQ") \in ChannelOf(Addresses, Blocks)
      /\ \A p \in RequestQueues : Pop(L1D, "WQ")[p] = IF p = "WQ" THEN Tail(L1D["WQ"]) ELSE L1D[p]
  BY <1>2, <1>3, <1>4, Popped
<1>6. /\ Len(Tail(L1D.WQ)) = Len(L1D.WQ) - 1 /\ Len(L1D.WQ) \in Nat \ {0}
  BY <1>1, <1>2, CountTail
<1>7. L1D'.RQ = L1D.RQ /\ L1D'.WQ = Tail(L1D.WQ)
  BY <1>1, <1>3, <1>5
<1>8. Len(L1D'.RQ) <= cfg.RQ_SIZE /\ Len(L1D'.WQ) <= cfg.WQ_SIZE
  BY <1>2, <1>6, <1>7
<1>9. QED
  BY <1>1, <1>2, <1>5, <1>8, AfterBus

\* The L1D answering, in any order, keeps the invariant.
LEMMA AfterAnswer ==
  ASSUME BackendInv, L1DAnswer
  PROVE  BackendInv'
<1>1. PICK k \in DOMAIN owed :
        /\ L1D' = Push(L1D, "returned", owed[k]) /\ owed' = RemoveAt(owed, k)
        /\ UNCHANGED <<cfg, program, arrived, ROB, LQ, SQ, ra, num_retired>>
  BY DEF L1DAnswer, coreVars, configVars
<1>2. /\ L1D \in ChannelOf(Addresses, Blocks) /\ owed \in Seq(Blocks)
      /\ Len(L1D.RQ) <= cfg.RQ_SIZE /\ Len(L1D.WQ) <= cfg.WQ_SIZE
  BY BusFacts
<1>3. "RQ" \in RequestQueues /\ "WQ" \in RequestQueues
  BY DEF RequestQueues
<1>4. k \in 1 .. Len(owed) /\ owed[k] \in Blocks
  BY <1>2, LenProperties, ElementOfSeq
<1>5. /\ Push(L1D, "returned", owed[k]) \in ChannelOf(Addresses, Blocks)
      /\ \A p \in RequestQueues : Push(L1D, "returned", owed[k])[p] = L1D[p]
  BY <1>2, <1>4, Answered
<1>6. RemoveAt(owed, k) \in Seq(Blocks)
  BY <1>2, <1>4, Removed
<1>7. L1D'.RQ = L1D.RQ /\ L1D'.WQ = L1D.WQ
  BY <1>1, <1>3, <1>5
<1>8. QED
  BY <1>1, <1>2, <1>5, <1>6, <1>7, AfterBus

\* schedule_instruction keeps the invariant.
LEMMA AfterSchedule ==
  ASSUME BackendInv, Schedule
  PROVE  BackendInv'
<1> DEFINE end == FoldLeft(ScheduleOne,
                           [ra |-> ra, rob |-> ROB, stop |-> FALSE, width |-> cfg.SCHEDULER_SIZE],
                           [i \in 1 .. Len(ROB) |-> i])
<1>1. /\ Follows(program, num_retired, ROB) /\ DOMAIN ROB = 1 .. Len(ROB) /\ Len(ROB) \in Nat
  BY RobFollows
<1>2. /\ TypeInv /\ SizeInv /\ num_retired + Len(ROB) <= arrived
      /\ MemInv(program, num_retired, ROB, LQ, SQ)
      /\ RegInv(program, num_retired, ra, ROB, cfg.SCHEDULING_LATENCY)
  BY DEF BackendInv
<1>3. /\ ra' = end.ra /\ ROB' = end.rob
      /\ UNCHANGED <<LQ, SQ, num_retired, L1D, owed, arrived, cfg, program>>
  BY DEF Schedule, busVars, configVars
<1>4. Scheduling(program, num_retired, ROB, cfg.SCHEDULING_LATENCY, Len(ROB), end)
  BY <1>1, <1>2, ScheduleKeeps
<1> HIDE DEF end
<1>5. /\ RegInv(program, num_retired, ra', ROB', cfg.SCHEDULING_LATENCY)
      /\ ROB' \in Seq(Entry) /\ DOMAIN ROB' = DOMAIN ROB
      /\ \A i \in DOMAIN ROB :
            /\ ROB'[i].id = ROB[i].id /\ ROB'[i].memops = ROB[i].memops
            /\ ROB'[i].completed = ROB[i].completed
  BY <1>3, <1>4 DEF Scheduling
<1>6. Len(ROB') = Len(ROB)
  <2>1. DOMAIN ROB' = 1 .. Len(ROB') /\ Len(ROB') \in Nat
    BY <1>5, LenProperties
  <2>2. QED
    BY <1>1, <1>5, <2>1
<1>7. MemInv(program, num_retired, ROB', LQ, SQ)
  <2>1. /\ DOMAIN ROB' = DOMAIN ROB /\ Len(ROB') = Len(ROB)
        /\ \A i \in DOMAIN ROB :
              /\ ROB'[i].id = ROB[i].id /\ ROB'[i].memops = ROB[i].memops
              /\ ROB'[i].completed => ROB[i].completed \/ ROB[i].memops = Ops(program, ROB[i].id)
    BY <1>5, <1>6
  <2>2. MemInv(program, num_retired, ROB, LQ, SQ)
    BY <1>2
  <2>3. QED
    BY ONLY <2>1, <2>2, MemAlike
<1>8. TypeInv' /\ SizeInv' /\ num_retired' + Len(ROB') <= arrived'
  BY <1>2, <1>3, <1>5, <1>6 DEF TypeInv, SizeInv
<1>9. QED
  BY <1>3, <1>5, <1>7, <1>8 DEF BackendInv

LEMMA CountedEntry ==
  ASSUME NEW e \in Entry, NEW c \in Nat, NEW d \in Nat
  PROVE  LET f == [e EXCEPT !.memops = @ + c + d]
         IN  /\ f \in Entry /\ f.id = e.id /\ f.memops = e.memops + c + d /\ f.scheduled = e.scheduled
             /\ f.srcs = e.srcs /\ f.dsts = e.dsts /\ f.ready = e.ready /\ f.executed = e.executed
             /\ f.completed = e.completed
<1>1. e.memops + c + d \in Nat
  BY DEF Entry
<1>2. QED
  BY <1>1 DEF Entry

\* Memory operations that finish are counted, and nothing else.
LEMMA FinishCounts ==
  ASSUME BackendInv, NEW L, IsFiniteSet(L), NEW J, IsFiniteSet(J), ROB' = Finish(ROB, L, J)
  PROVE  /\ ROB' \in Seq(Entry) /\ Len(ROB') = Len(ROB) /\ DOMAIN ROB' = DOMAIN ROB
         /\ \A i \in DOMAIN ROB :
               /\ ROB'[i].id = ROB[i].id /\ ROB'[i].completed = ROB[i].completed
               /\ ROB'[i].memops = ROB[i].memops + Cardinality({s \in L : LQ[s].id = ROB[i].id})
                                     + Cardinality({j \in J : SQ[j].id = ROB[i].id})
         /\ RegInv(program, num_retired, ra, ROB', cfg.SCHEDULING_LATENCY)
<1> DEFINE c(i) == Cardinality({s \in L : LQ[s].id = ROB[i].id})
           d(i) == Cardinality({j \in J : SQ[j].id = ROB[i].id})
           f == [i \in DOMAIN ROB |-> [ROB[i] EXCEPT !.memops = @ + c(i) + d(i)]]
<1>1. /\ Follows(program, num_retired, ROB) /\ DOMAIN ROB = 1 .. Len(ROB) /\ Len(ROB) \in Nat
      /\ ROB \in Seq(Entry) /\ \A i \in DOMAIN ROB : ROB[i] \in Entry
  BY RobFollows
<1>2. RegInv(program, num_retired, ra, ROB, cfg.SCHEDULING_LATENCY)
  BY DEF BackendInv
<1>3. \A i \in DOMAIN ROB : c(i) \in Nat /\ d(i) \in Nat
  <2> SUFFICES ASSUME NEW i \in DOMAIN ROB PROVE c(i) \in Nat /\ d(i) \in Nat
    OBVIOUS
  <2>1. {s \in L : LQ[s].id = ROB[i].id} \subseteq L /\ {j \in J : SQ[j].id = ROB[i].id} \subseteq J
    OBVIOUS
  <2>2. IsFiniteSet({s \in L : LQ[s].id = ROB[i].id}) /\ IsFiniteSet({j \in J : SQ[j].id = ROB[i].id})
    BY <2>1, FS_Subset
  <2>3. QED
    BY <2>2, FS_CardinalityType
<1>4. ROB' = f
  BY DEF Finish
<1> HIDE DEF c, d
<1>5. \A i \in DOMAIN ROB :
         /\ f[i] \in Entry /\ f[i].id = ROB[i].id /\ f[i].memops = ROB[i].memops + c(i) + d(i)
         /\ f[i].scheduled = ROB[i].scheduled /\ f[i].srcs = ROB[i].srcs /\ f[i].dsts = ROB[i].dsts
         /\ f[i].completed = ROB[i].completed /\ f[i].executed = ROB[i].executed
         /\ f[i].ready = ROB[i].ready
  <2> SUFFICES ASSUME NEW i \in DOMAIN ROB
               PROVE  /\ f[i] \in Entry /\ f[i].id = ROB[i].id
                      /\ f[i].memops = ROB[i].memops + c(i) + d(i)
                      /\ f[i].scheduled = ROB[i].scheduled /\ f[i].srcs = ROB[i].srcs
                      /\ f[i].dsts = ROB[i].dsts /\ f[i].completed = ROB[i].completed
                      /\ f[i].executed = ROB[i].executed /\ f[i].ready = ROB[i].ready
    OBVIOUS
  <2>1. ROB[i] \in Entry /\ c(i) \in Nat /\ d(i) \in Nat
    BY <1>1, <1>3
  <2>2. f[i] = [ROB[i] EXCEPT !.memops = @ + c(i) + d(i)]
    OBVIOUS
  <2> HIDE DEF f
  <2>3. QED
    BY ONLY <2>1, <2>2, CountedEntry
<1> HIDE DEF f
<1>6. DOMAIN ROB' = DOMAIN ROB
  BY <1>4 DEF f
<1>7. ROB' \in Seq(Entry) /\ Len(ROB') = Len(ROB)
  <2>1. ROB' = [i \in 1 .. Len(ROB) |-> f[i]]
    BY <1>1, <1>4 DEF f
  <2>2. ROB' \in [1 .. Len(ROB) -> Entry]
    BY <1>1, <1>5, <2>1
  <2>3. QED
    BY <1>1, <2>2, FunctionIsSequence
<1>8. SameRegisters(ROB, ROB')
  BY <1>4, <1>5, <1>6 DEF SameRegisters
<1>9. Follows(program, num_retired, ROB')
  BY <1>1, <1>4, <1>5, <1>6, <1>7 DEF Follows
<1>10. Ordered(ROB, cfg.SCHEDULING_LATENCY)
  BY <1>2 DEF RegInv
<1>11. Ordered(ROB', cfg.SCHEDULING_LATENCY)
  <2>1. \A i \in DOMAIN ROB : /\ ROB[i].executed => ROB[i].scheduled
                              /\ ROB[i].completed => ROB[i].executed
    BY <1>10 DEF Ordered
  <2>2. \A i \in DOMAIN ROB : /\ ~ROB[i].scheduled => ROB'[i].ready = ROB[i].ready
                              /\ ROB'[i].executed => ROB[i].scheduled
                              /\ ROB'[i].completed => ROB'[i].executed
    BY <1>4, <1>5, <2>1
  <2>3. QED
    BY <1>8, <1>10, <2>2, ProgressOrdered
<1>12. RegInv(program, num_retired, ra, ROB', cfg.SCHEDULING_LATENCY)
  <2>1. \A i \in DOMAIN ROB : ROB'[i].executed =>
           ROB[i].executed \/ \A k \in DOMAIN ROB[i].srcs : ra.file[ROB[i].srcs[k]].valid
    BY <1>4, <1>5
  <2>2. QED
    BY <1>1, <1>2, <1>8, <1>9, <1>11, <2>1, RegSame
<1>13. QED
  BY <1>4, <1>5, <1>6, <1>7, <1>12 DEF c, d

\* The queues of loads and stores, for the lemmas that take them apart.
LEMMA QueueFacts ==
  ASSUME BackendInv
  PROVE  /\ cfg.LQ_SIZE \in Nat /\ LQ \in [1 .. cfg.LQ_SIZE -> Slot] /\ DOMAIN LQ = 1 .. cfg.LQ_SIZE
         /\ SQ \in Seq(Store(cfg.LQ_SIZE)) /\ DOMAIN SQ = 1 .. Len(SQ) /\ Len(SQ) \in Nat
         /\ MemInv(program, num_retired, ROB, LQ, SQ)
         /\ StoresOrdered(SQ) /\ LoadsWait(LQ, SQ) /\ StoresKnow(LQ, SQ)
         /\ program \in Programs /\ cfg \in Configs
         /\ Len(program) \in Nat /\ Len(program) < Never /\ Never \in Nat
         /\ ROB \in Seq(Entry) /\ num_retired \in Nat
<1>1. /\ cfg \in Configs /\ program \in Programs /\ ROB \in Seq(Entry) /\ num_retired \in Nat
      /\ LQ \in [1 .. cfg.LQ_SIZE -> Slot] /\ SQ \in Seq(Store(cfg.LQ_SIZE))
  BY DEF BackendInv, TypeInv
<1>2. MemInv(program, num_retired, ROB, LQ, SQ)
  BY DEF BackendInv
<1>3. StoresOrdered(SQ) /\ LoadsWait(LQ, SQ) /\ StoresKnow(LQ, SQ)
  BY <1>2 DEF MemInv
<1>4. cfg.LQ_SIZE \in Nat
  BY <1>1, CoreNumbers
<1>5. Len(program) \in Nat /\ Len(program) < Never /\ Never \in Nat
  BY <1>1, ProgramFacts
<1>6. DOMAIN LQ = 1 .. cfg.LQ_SIZE /\ DOMAIN SQ = 1 .. Len(SQ) /\ Len(SQ) \in Nat
  BY <1>1, LenProperties
<1>7. QED
  BY <1>1, <1>2, <1>3, <1>4, <1>5, <1>6

\* handle_memory_return keeps the invariant: each load that a block answers
\* is counted once, and leaves its slot.
LEMMA AfterMemoryReturn ==
  ASSUME BackendInv, MemoryReturn
  PROVE  BackendInv'
<1> DEFINE N == cfg.LQ_SIZE
           n == IF Len(L1D.returned) < cfg.L1D_BANDWIDTH
                  THEN Len(L1D.returned) ELSE cfg.L1D_BANDWIDTH
           slots == UNION {LoadsOf(L1D.returned[k]) : k \in 1 .. n}
           none == {}
           rest == SubSeq(L1D.returned, n + 1, Len(L1D.returned))
<1>1. /\ ROB' = Finish(ROB, slots, none)
      /\ LQ' = [s \in DOMAIN LQ |-> IF s \in slots THEN NoEntry ELSE LQ[s]]
      /\ L1D' = [L1D EXCEPT !.returned = rest]
      /\ UNCHANGED <<SQ, ra, num_retired, owed, arrived, cfg, program>>
  BY DEF MemoryReturn, configVars
<1>2. /\ TypeInv /\ SizeInv /\ num_retired + Len(ROB) <= arrived
  BY DEF BackendInv
<1>3. /\ N \in Nat /\ LQ \in [1 .. N -> Slot] /\ DOMAIN LQ = 1 .. N
      /\ SQ \in Seq(Store(N)) /\ DOMAIN SQ = 1 .. Len(SQ) /\ Len(SQ) \in Nat
      /\ LoadsWait(LQ, SQ) /\ StoresOrdered(SQ)
  BY QueueFacts
<1>4. slots \in SUBSET {s \in 1 .. N : LQ[s] # NoEntry}
  BY <1>3 DEF LoadsOf
<1>5. \A s \in slots : LQ[s].producer = Never
  <2>1. \A s \in slots : s \in DOMAIN LQ /\ LQ[s] # NoEntry /\ LQ[s].issued
    BY DEF LoadsOf
  <2> HIDE DEF slots
  <2>2. QED
    BY <1>3, <2>1 DEF LoadsWait
<1> HIDE DEF slots, N, none
<1>6. IsFiniteSet(slots) /\ IsFiniteSet(none)
  <2>1. IsFiniteSet(1 .. N) /\ slots \subseteq 1 .. N
    BY <1>3, <1>4, FirstNumbers
  <2>2. QED
    BY <2>1, FS_Subset, FS_EmptySet DEF none
<1>7. /\ ROB' \in Seq(Entry) /\ Len(ROB') = Len(ROB) /\ DOMAIN ROB' = DOMAIN ROB
      /\ \A i \in DOMAIN ROB :
            /\ ROB'[i].id = ROB[i].id /\ ROB'[i].completed = ROB[i].completed
            /\ ROB'[i].memops = ROB[i].memops + Cardinality({s \in slots : LQ[s].id = ROB[i].id})
                                  + Cardinality({j \in none : SQ[j].id = ROB[i].id})
      /\ RegInv(program, num_retired, ra, ROB', cfg.SCHEDULING_LATENCY)
  BY <1>1, <1>6, FinishCounts
<1>8. MemInv(program, num_retired, ROB', LQ', SQ)
  <2>1. DOMAIN LQ' = 1 .. N /\ \A s \in 1 .. N : LQ'[s] = IF s \in slots THEN NoEntry ELSE LQ[s]
    BY <1>1, <1>3
  <2>2. /\ MemInv(program, num_retired, ROB, LQ, SQ) /\ Len(program) < Never /\ Never \in Nat
        /\ Len(program) \in Nat /\ ROB \in Seq(Entry) /\ num_retired \in Nat
    BY QueueFacts
  <2>3. none \in SUBSET {j \in 1 .. Len(SQ) : ~SQ[j].issued}
    BY DEF none
  <2>4. \A j \in DOMAIN SQ : /\ SQ[j].id = SQ[j].id /\ SQ[j].addr = SQ[j].addr
                             /\ SQ[j].waiters = SQ[j].waiters
                             /\ SQ[j].issued <=> (SQ[j].issued \/ j \in none)
    BY DEF none
  <2>5. /\ \A s \in slots : LQ[s].producer = Never \/ \E j \in none : s \in SQ[j].waiters
        /\ \A j \in none : SQ[j].waiters \subseteq slots
    BY <1>5 DEF none
  <2>6. /\ DOMAIN ROB' = DOMAIN ROB /\ Len(ROB') = Len(ROB)
        /\ \A i \in DOMAIN ROB :
            /\ ROB'[i].id = ROB[i].id /\ ROB'[i].completed = ROB[i].completed
            /\ ROB'[i].memops = ROB[i].memops + Cardinality({s \in slots : LQ[s].id = ROB[i].id})
                                  + Cardinality({j \in none : SQ[j].id = ROB[i].id})
    BY <1>7
  <2>7. QED
    <3>1. Finishing(ROB, N, LQ, SQ, slots, none, ROB', LQ', SQ)
      BY <1>3, <1>4, <2>1, <2>3, <2>4, <2>5, <2>6 DEF Finishing
    <3>2. QED
      BY ONLY <1>3, <2>2, <3>1, MemFinish
<1>9. LQ' \in [1 .. N -> Slot]
  BY <1>1, <1>3 DEF Slot
<1>10. L1D' \in ChannelOf(Addresses, Blocks) /\ L1D'.RQ = L1D.RQ /\ L1D'.WQ = L1D.WQ
  <2>1. /\ L1D \in ChannelOf(Addresses, Blocks) /\ L1D.returned \in Seq(Blocks)
        /\ cfg \in Configs
    BY BusFacts
  <2>2. n \in 0 .. Len(L1D.returned)
    <3>1. cfg.L1D_BANDWIDTH \in Nat /\ Len(L1D.returned) \in Nat
      BY <2>1, CoreNumbers, LenProperties
    <3>2. QED
      BY <3>1
  <2> HIDE DEF n
  <2>3. rest \in Seq(Blocks)
    BY <2>1, <2>2, CountSplit
  <2> HIDE DEF rest
  <2>4. "RQ" \in RequestQueues /\ "WQ" \in RequestQueues
    BY DEF RequestQueues
  <2>5. /\ [L1D EXCEPT !.returned = rest] \in ChannelOf(Addresses, Blocks)
        /\ \A p \in RequestQueues : [L1D EXCEPT !.returned = rest][p] = L1D[p]
    BY <2>1, <2>3, ReturnedAssigned
  <2>6. QED
    BY <1>1, <2>4, <2>5
<1>11. TypeInv' /\ SizeInv' /\ num_retired' + Len(ROB') <= arrived'
  BY <1>1, <1>2, <1>7, <1>9, <1>10 DEF TypeInv, SizeInv, N
<1>12. QED
  BY <1>1, <1>7, <1>8, <1>11 DEF BackendInv

\* The spans of operate_lsq.
LEMMA StoreSpans ==
  ASSUME NEW N, NEW sq \in Seq(Store(N)), NEW m \in Nat
  PROVE  /\ LET c == SpanOf(sq, Len(sq), Issued)
            IN  c \in 0 .. Len(sq) /\ \A i \in 1 .. c : sq[i].issued
         /\ LET c == SpanOf(sq, m, CanIssue)
            IN  c \in 0 .. Len(sq) /\ c <= m /\ \A i \in 1 .. c : ~sq[i].issued
         /\ LET c == SpanOf(sq, m, MayWrite)
            IN  c \in 0 .. Len(sq) /\ c <= m /\ \A i \in 1 .. c : sq[i].id < complete_id
<1> DEFINE len == Len(sq)
           all == Len(sq)
           a == SpanOf(sq, len, Issued)
           b == SpanOf(sq, m, CanIssue)
           d == SpanOf(sq, m, MayWrite)
           GoodA == {i \in 1 .. len : Issued(sq[i])}
           GoodB == {i \in 1 .. len : CanIssue(sq[i])}
           GoodD == {i \in 1 .. len : MayWrite(sq[i])}
           Span(k, Good) == {i \in 1 .. len : i <= k /\ \A j \in 1 .. i : j \in Good}
<1>1. len \in Nat /\ all \in Int
  BY LenProperties
<1>2. a = Cardinality(Span(all, GoodA))
  <2>1. \A k \in 1 .. len : \A i \in 1 .. k : i \in 1 .. len
    BY <1>1
  <2>2. {k \in 1 .. Len(sq) : k <= all /\ \A i \in 1 .. k : Issued(sq[i])} = Span(all, GoodA)
    BY <2>1
  <2>3. QED
    BY <2>2 DEF SpanOf
<1>3. b = Cardinality(Span(m, GoodB))
  <2>1. \A k \in 1 .. len : \A i \in 1 .. k : i \in 1 .. len
    BY <1>1
  <2>2. {k \in 1 .. Len(sq) : k <= m /\ \A i \in 1 .. k : CanIssue(sq[i])} = Span(m, GoodB)
    BY <2>1
  <2>3. QED
    BY <2>2 DEF SpanOf
<1>4. d = Cardinality(Span(m, GoodD))
  <2>1. \A k \in 1 .. len : \A i \in 1 .. k : i \in 1 .. len
    BY <1>1
  <2>2. {k \in 1 .. Len(sq) : k <= m /\ \A i \in 1 .. k : MayWrite(sq[i])} = Span(m, GoodD)
    BY <2>1
  <2>3. QED
    BY <2>2 DEF SpanOf
<1> HIDE DEF a, b, d, GoodA, GoodB, GoodD, len, all
<1>5. a \in 0 .. len /\ \A i \in 1 .. a : i \in GoodA
  BY <1>1, <1>2, SpanIs
<1>6. m \in Int /\ m >= 0
  OBVIOUS
<1>7. b \in 0 .. len /\ b <= m /\ \A i \in 1 .. b : i \in GoodB
  BY <1>1, <1>3, <1>6, SpanIs, ZenonT(40)
<1>8. d \in 0 .. len /\ d <= m /\ \A i \in 1 .. d : i \in GoodD
  BY <1>1, <1>4, <1>6, SpanIs, ZenonT(40)
<1>9. /\ \A i \in 1 .. a : sq[i].issued
      /\ \A i \in 1 .. b : ~sq[i].issued
      /\ \A i \in 1 .. d : sq[i].id < complete_id
  BY <1>5, <1>7, <1>8 DEF GoodA, GoodB, GoodD, Issued, CanIssue, MayWrite
<1>10. QED
  BY <1>5, <1>7, <1>8, <1>9 DEF a, b, d, len

\* Stores first + 1 .. first + n issue, and wake up the loads W.
Issuing(N, lq, sq, first, n, J, W, lq2, sq2) ==
    /\ first \in Nat /\ n \in Nat /\ first + n <= Len(sq) /\ J = first + 1 .. first + n
    /\ \A i \in 1 .. first : sq[i].issued
    /\ \A i \in J : ~sq[i].issued
    /\ \A i \in J : sq[i].waiters \subseteq W
    /\ \A s \in W : \E i \in J : s \in sq[i].waiters
    /\ sq2 = [i \in DOMAIN sq |-> IF i \in J THEN [sq[i] EXCEPT !.issued = TRUE, !.ready = 0] ELSE sq[i]]
    /\ lq2 = [s \in DOMAIN lq |-> IF s \in W THEN NoEntry ELSE lq[s]]

LEMMA IssuedStore ==
  ASSUME NEW N, NEW e \in Store(N)
  PROVE  LET f == [e EXCEPT !.issued = TRUE, !.ready = 0]
         IN  /\ f \in Store(N) /\ f.id = e.id /\ f.addr = e.addr /\ f.waiters = e.waiters /\ f.issued
<1> DEFINE f == [e EXCEPT !.issued = TRUE, !.ready = 0]
<1>1. f \in Store(N)
  <2> DEFINE g == [e EXCEPT !.issued = TRUE]
  <2>1. g \in Store(N)
    BY DEF Store
  <2>2. [g EXCEPT !.ready = 0] \in Store(N)
    <3> HIDE DEF g
    <3>1. QED
      BY <2>1 DEF Store
  <2>3. f = [g EXCEPT !.ready = 0]
    BY DEF Store
  <2>4. QED
    BY <2>2, <2>3
<1>2. f.id = e.id
  BY DEF Store
<1>3. f.addr = e.addr
  BY DEF Store
<1>4. f.waiters = e.waiters
  BY DEF Store
<1>5. f.issued
  BY DEF Store
<1>6. QED
  BY <1>1, <1>2, <1>3, <1>4, <1>5

LEMMA StoresIssue ==
  ASSUME NEW N, NEW lq, NEW sq \in Seq(Store(N)), NEW first, NEW n, NEW J, NEW W, NEW lq2, NEW sq2,
         Issuing(N, lq, sq, first, n, J, W, lq2, sq2), StoresOrdered(sq)
  PROVE  /\ sq2 \in Seq(Store(N)) /\ Len(sq2) = Len(sq) /\ DOMAIN sq2 = DOMAIN sq
         /\ J \in SUBSET {j \in 1 .. Len(sq) : ~sq[j].issued} /\ IsFiniteSet(J)
         /\ \A j \in DOMAIN sq : /\ sq2[j].id = sq[j].id /\ sq2[j].addr = sq[j].addr
                                 /\ sq2[j].waiters = sq[j].waiters
                                 /\ sq2[j].issued <=> (sq[j].issued \/ j \in J)
         /\ StoresOrdered(sq2)
<1>1. /\ first \in Nat /\ n \in Nat /\ first + n <= Len(sq) /\ J = first + 1 .. first + n
      /\ \A i \in 1 .. first : sq[i].issued
      /\ \A i \in J : ~sq[i].issued
  BY DEF Issuing
<1> DEFINE h == [i \in DOMAIN sq |-> IF i \in J THEN [sq[i] EXCEPT !.issued = TRUE, !.ready = 0] ELSE sq[i]]
<1>2. sq2 = h
  BY DEF Issuing
<1>3. DOMAIN sq = 1 .. Len(sq) /\ Len(sq) \in Nat /\ \A i \in DOMAIN sq : sq[i] \in Store(N)
  BY LenProperties, ElementOfSeq
<1>4. J \in SUBSET {j \in 1 .. Len(sq) : ~sq[j].issued}
  BY <1>1, <1>3
<1>5. IsFiniteSet(J)
  <2>1. first + 1 \in Int /\ first + n \in Int
    BY <1>1
  <2>2. QED
    BY <1>1, <2>1, FS_Interval
<1>6. ASSUME NEW j \in DOMAIN sq
      PROVE  /\ h[j] \in Store(N)
             /\ h[j].id = sq[j].id /\ h[j].addr = sq[j].addr /\ h[j].waiters = sq[j].waiters
             /\ h[j].issued <=> (sq[j].issued \/ j \in J)
  <2>1. CASE j \in J
    <3> DEFINE e == sq[j]
               f == [e EXCEPT !.issued = TRUE, !.ready = 0]
    <3>1. e \in Store(N)
      BY <1>3
    <3>2. h[j] = f
      BY <2>1
    <3> HIDE DEF e
    <3>3. /\ f \in Store(N) /\ f.id = e.id /\ f.addr = e.addr /\ f.waiters = e.waiters /\ f.issued
      BY ONLY <3>1, IssuedStore
    <3> HIDE DEF f, h
    <3>4. QED
      BY <2>1, <3>2, <3>3 DEF e
  <2>2. CASE j \notin J
    <3>1. h[j] = sq[j] /\ sq[j] \in Store(N)
      BY <1>3, <2>2
    <3> HIDE DEF h
    <3>2. QED
      BY <2>2, <3>1
  <2>3. QED
    BY <2>1, <2>2
<1>7. DOMAIN h = 1 .. Len(sq)
  BY <1>3
<1>8. h \in [1 .. Len(sq) -> Store(N)]
  BY <1>3, <1>6
<1> HIDE DEF h
<1>9. h \in Seq(Store(N)) /\ Len(h) = Len(sq)
  BY <1>3, <1>8, FunctionIsSequence
<1>10. StoresOrdered(h)
  <2> SUFFICES ASSUME NEW i \in DOMAIN sq, NEW j \in DOMAIN sq, i < j
               PROVE  h[i].id <= h[j].id /\ (h[j].issued => h[i].issued)
    BY <1>3, <1>7 DEF StoresOrdered
  <2>1. sq[i].id <= sq[j].id /\ (sq[j].issued => sq[i].issued)
    BY DEF StoresOrdered
  <2>2. h[i].id <= h[j].id
    BY <1>6, <2>1
  <2>3. h[j].issued => h[i].issued
    <3>1. CASE sq[j].issued
      BY <1>6, <2>1, <3>1
    <3>2. CASE j \in J
      <4>1. i \in 1 .. first \/ i \in J
        BY <1>1, <1>3, <3>2
      <4>2. sq[i].issued \/ i \in J
        BY <1>1, <4>1
      <4>3. QED
        BY <1>6, <4>2
    <3>3. QED
      BY <1>6, <3>1, <3>2
  <2>4. QED
    BY <2>2, <2>3
<1>11. QED
  BY <1>2, <1>3, <1>4, <1>5, <1>6, <1>7, <1>9, <1>10

\* The k-th of some numbers is one of them, and k - 1 of them are below.
LEMMA NthOf ==
  ASSUME NEW N \in Nat, NEW S \in SUBSET (1 .. N), NEW k \in 1 .. Cardinality(S)
  PROVE  Nth(S, k) \in S /\ Cardinality({j \in S : j < Nth(S, k)}) = k - 1
<1> DEFINE Low(m) == S \cap (1 .. m)
           c(m) == Cardinality(Low(m))
           Q == {m \in 0 .. N : c(m) < k}
<1>1. \A m \in 0 .. N : IsFiniteSet(Low(m)) /\ c(m) \in Nat
  <2> SUFFICES ASSUME NEW m \in 0 .. N PROVE IsFiniteSet(Low(m)) /\ c(m) \in Nat
    OBVIOUS
  <2>1. IsFiniteSet(1 .. m) /\ Low(m) \subseteq 1 .. m
    BY FirstNumbers
  <2>2. QED
    BY <2>1, FS_Subset, FS_CardinalityType
<1>2. c(0) = 0 /\ Low(N) = S
  <2>1. Low(0) = {}
    OBVIOUS
  <2>2. QED
    BY <2>1, FS_EmptySet
<1>3. k \in Nat /\ k >= 1 /\ k <= c(N) /\ c(N) \in Nat
  BY <1>1, <1>2
<1>4. PICK m \in 1 .. N : m - 1 \in Q /\ m \notin Q
  <2> SUFFICES ASSUME \A m \in 1 .. N : m - 1 \in Q => m \in Q PROVE FALSE
    OBVIOUS
  <2>1. 0 \in Q
    BY <1>2, <1>3
  <2> HIDE DEF Q
  <2>2. \A m \in 0 .. N : m \in Q
    BY <2>1, UpTo
  <2>3. N \in Q
    BY <2>2
  <2>4. QED
    BY <1>3, <2>3 DEF Q
<1>5. c(m - 1) < k /\ c(m) >= k /\ c(m) \in Nat /\ c(m - 1) \in Nat /\ m - 1 \in 0 .. N
  <2>1. m \in 0 .. N /\ m - 1 \in 0 .. N
    OBVIOUS
  <2>2. c(m) \in Nat /\ c(m - 1) \in Nat
    BY <1>1, <2>1
  <2>3. c(m - 1) < k /\ ~(c(m) < k)
    BY <1>4, <2>1
  <2> HIDE DEF c
  <2>4. QED
    BY <1>3, <2>1, <2>2, <2>3
<1>6. m \in S
  <2> SUFFICES ASSUME m \notin S PROVE FALSE
    OBVIOUS
  <2>1. Low(m) = Low(m - 1)
    OBVIOUS
  <2>2. c(m) = c(m - 1)
    BY <2>1
  <2> HIDE DEF c
  <2>3. QED
    BY <1>3, <1>5, <2>2
<1>7. c(m) = c(m - 1) + 1
  <2>1. Low(m) = Low(m - 1) \cup {m} /\ m \notin Low(m - 1)
    BY <1>6
  <2>2. IsFiniteSet(Low(m - 1))
    BY <1>1, <1>5
  <2> HIDE DEF Low
  <2>3. QED
    BY <2>1, <2>2, FS_AddElement
<1>8. Low(m - 1) = {j \in S : j < m}
  <2>1. \A j \in S : j \in Nat /\ j >= 1
    OBVIOUS
  <2>2. \A j \in S : j \in 1 .. m - 1 <=> j < m
    BY <2>1
  <2>3. QED
    BY <2>2
<1>9. Cardinality({j \in S : j < m}) = k - 1
  <2>1. c(m - 1) = k - 1
    <3> HIDE DEF c
    <3>1. QED
      BY <1>3, <1>5, <1>7
  <2>2. QED
    BY <1>8, <2>1
<1>10. QED
  BY <1>6, <1>9, Zenon DEF Nth

\* A loop with a bandwidth takes no more.
LEMMA FirstOfBounds ==
  ASSUME NEW N \in Nat, NEW S \in SUBSET (1 .. N), NEW n \in Nat
  PROVE  /\ FirstOf(S, n) \subseteq S /\ IsFiniteSet(FirstOf(S, n))
         /\ Cardinality(FirstOf(S, n)) \in Nat /\ Cardinality(FirstOf(S, n)) <= n
<1> DEFINE T == FirstOf(S, n)
<1>1. T \subseteq S
  BY DEF FirstOf
<1>2. \A i \in T : Cardinality({j \in S : j < i}) < n
  BY DEF FirstOf
<1> HIDE DEF T
<1>3. IsFiniteSet(S) /\ IsFiniteSet(T) /\ Cardinality(T) \in Nat
  <2>1. IsFiniteSet(1 .. N)
    BY FirstNumbers
  <2>2. IsFiniteSet(S) /\ IsFiniteSet(T)
    BY <1>1, <2>1, FS_Subset
  <2>3. QED
    BY <2>2, FS_CardinalityType
<1>4. Cardinality(T) <= n
  <2> SUFFICES ASSUME Cardinality(T) > n PROVE FALSE
    BY <1>3
  <2> DEFINE k == n + 1
             i == Nth(T, k)
  <2>1. k \in 1 .. Cardinality(T) /\ k - 1 = n /\ T \in SUBSET (1 .. N)
    BY <1>1, <1>3
  <2> HIDE DEF k
  <2>2. i \in T /\ Cardinality({j \in T : j < i}) = n
    BY <2>1, NthOf
  <2> HIDE DEF i
  <2>3. {j \in T : j < i} \subseteq {j \in S : j < i} /\ {j \in S : j < i} \subseteq S
    BY <1>1
  <2>4. IsFiniteSet({j \in S : j < i})
    BY <1>3, <2>3, FS_Subset
  <2>5. /\ Cardinality({j \in T : j < i}) <= Cardinality({j \in S : j < i})
        /\ Cardinality({j \in S : j < i}) \in Nat
    BY <2>3, <2>4, FS_Subset, FS_CardinalityType
  <2>6. Cardinality({j \in S : j < i}) < n
    BY <1>2, <2>2
  <2>7. QED
    BY <2>2, <2>5, <2>6
<1>5. QED
  BY <1>1, <1>3, <1>4 DEF T

\* What the stores that issue and the loads they release leave in the queues.
LEMMA AfterIssue ==
  ASSUME BackendInv, NEW first, NEW n, NEW J, NEW W, NEW lq, NEW sq,
         Issuing(cfg.LQ_SIZE, LQ, SQ, first, n, J, W, lq, sq), ROB' = Finish(ROB, W, J)
  PROVE  /\ ROB' \in Seq(Entry) /\ Len(ROB') = Len(ROB) /\ DOMAIN ROB' = DOMAIN ROB
         /\ RegInv(program, num_retired, ra, ROB', cfg.SCHEDULING_LATENCY)
         /\ lq \in [1 .. cfg.LQ_SIZE -> Slot] /\ DOMAIN lq = 1 .. cfg.LQ_SIZE
         /\ sq \in Seq(Store(cfg.LQ_SIZE)) /\ Len(sq) = Len(SQ)
         /\ \A j \in 1 .. Len(SQ) : sq[j].id = SQ[j].id
         /\ MemInv(program, num_retired, ROB', lq, sq)
<1> DEFINE N == cfg.LQ_SIZE
<1>1. /\ N \in Nat /\ LQ \in [1 .. N -> Slot] /\ DOMAIN LQ = 1 .. N
      /\ SQ \in Seq(Store(N)) /\ DOMAIN SQ = 1 .. Len(SQ)
      /\ StoresOrdered(SQ) /\ StoresKnow(LQ, SQ)
  BY QueueFacts
<1>2. /\ MemInv(program, num_retired, ROB, LQ, SQ) /\ Len(program) < Never /\ Never \in Nat
      /\ Len(program) \in Nat /\ ROB \in Seq(Entry) /\ num_retired \in Nat
  BY QueueFacts
<1>3. Issuing(N, LQ, SQ, first, n, J, W, lq, sq)
  OBVIOUS
<1> HIDE DEF N
<1>4. /\ sq \in Seq(Store(N)) /\ Len(sq) = Len(SQ) /\ DOMAIN sq = DOMAIN SQ
      /\ J \in SUBSET {j \in 1 .. Len(SQ) : ~SQ[j].issued} /\ IsFiniteSet(J)
      /\ \A j \in DOMAIN SQ : /\ sq[j].id = SQ[j].id /\ sq[j].addr = SQ[j].addr
                              /\ sq[j].waiters = SQ[j].waiters
                              /\ sq[j].issued <=> (SQ[j].issued \/ j \in J)
      /\ StoresOrdered(sq)
  BY ONLY <1>1, <1>3, StoresIssue
<1>5. /\ \A i \in J : SQ[i].waiters \subseteq W
      /\ \A s \in W : \E i \in J : s \in SQ[i].waiters
      /\ lq = [s \in DOMAIN LQ |-> IF s \in W THEN NoEntry ELSE LQ[s]]
  BY <1>3 DEF Issuing
<1>6. W \in SUBSET {s \in 1 .. N : LQ[s] # NoEntry}
  <2> SUFFICES ASSUME NEW s \in W PROVE s \in 1 .. N /\ LQ[s] # NoEntry
    OBVIOUS
  <2>1. PICK i \in J : s \in SQ[i].waiters
    BY <1>5
  <2>2. i \in DOMAIN SQ /\ ~SQ[i].issued
    BY <1>1, <1>4
  <2>3. QED
    BY <1>1, <2>1, <2>2 DEF StoresKnow
<1>7. IsFiniteSet(W)
  <2>1. IsFiniteSet(1 .. N) /\ W \subseteq 1 .. N
    BY <1>1, <1>6, FirstNumbers
  <2>2. QED
    BY <2>1, FS_Subset
<1>8. /\ ROB' \in Seq(Entry) /\ Len(ROB') = Len(ROB) /\ DOMAIN ROB' = DOMAIN ROB
      /\ \A i \in DOMAIN ROB :
            /\ ROB'[i].id = ROB[i].id /\ ROB'[i].completed = ROB[i].completed
            /\ ROB'[i].memops = ROB[i].memops + Cardinality({s \in W : LQ[s].id = ROB[i].id})
                                  + Cardinality({j \in J : SQ[j].id = ROB[i].id})
      /\ RegInv(program, num_retired, ra, ROB', cfg.SCHEDULING_LATENCY)
  BY <1>4, <1>7, FinishCounts
<1>9. DOMAIN lq = 1 .. N /\ \A s \in 1 .. N : lq[s] = IF s \in W THEN NoEntry ELSE LQ[s]
  BY <1>1, <1>5
<1>10. lq \in [1 .. N -> Slot]
  BY <1>1, <1>5 DEF Slot
<1>11. Finishing(ROB, N, LQ, SQ, W, J, ROB', lq, sq)
  <2>1. \A s \in W : LQ[s].producer = Never \/ \E j \in J : s \in SQ[j].waiters
    BY <1>5
  <2>2. QED
    BY <1>4, <1>5, <1>6, <1>8, <1>9, <2>1 DEF Finishing
<1>12. MemInv(program, num_retired, ROB', lq, sq)
  BY ONLY <1>1, <1>2, <1>11, MemFinish
<1>13. QED
  BY <1>1, <1>4, <1>8, <1>9, <1>10, <1>12 DEF N

\* Loads that wait for none are issued.
Reading(N, lq, reads, lq2) ==
    /\ reads \in SUBSET {s \in 1 .. N : lq[s] # NoEntry /\ lq[s].producer = Never}
    /\ DOMAIN lq2 = 1 .. N /\ lq2 = [s \in 1 .. N |-> lq2[s]]
    /\ \A s \in 1 .. N : lq2[s] = IF s \in reads THEN [lq[s] EXCEPT !.issued = TRUE] ELSE lq[s]

LEMMA LoadsIssue ==
  ASSUME NEW prog, NEW base, NEW rob, NEW N \in Nat, NEW lq \in [1 .. N -> Slot], NEW sq,
         MemInv(prog, base, rob, lq, sq),
         NEW reads, NEW lq2, Reading(N, lq, reads, lq2)
  PROVE  lq2 \in [1 .. N -> Slot] /\ MemInv(prog, base, rob, lq2, sq)
<1> SUFFICES ASSUME
         reads \in SUBSET {s \in 1 .. N : lq[s] # NoEntry /\ lq[s].producer = Never},
         DOMAIN lq2 = 1 .. N, lq2 = [s \in 1 .. N |-> lq2[s]],
         \A s \in 1 .. N : lq2[s] = IF s \in reads THEN [lq[s] EXCEPT !.issued = TRUE] ELSE lq[s]
    PROVE lq2 \in [1 .. N -> Slot] /\ MemInv(prog, base, rob, lq2, sq)
  BY DEF Reading
<1>1. ASSUME NEW s \in 1 .. N
      PROVE  /\ lq2[s] \in Slot
             /\ lq2[s] = NoEntry <=> lq[s] = NoEntry
             /\ lq2[s] # NoEntry => /\ lq2[s].id = lq[s].id /\ lq2[s].addr = lq[s].addr
                                    /\ lq2[s].producer = lq[s].producer
                                    /\ lq2[s].issued => lq[s].issued \/ lq[s].producer = Never
  <2>1. CASE s \in reads
    <3> DEFINE e == lq[s]
               f == [e EXCEPT !.issued = TRUE]
    <3>1. e \in LoadEntry /\ e # NoEntry /\ e.producer = Never
      BY <2>1 DEF Slot
    <3>2. lq2[s] = f
      BY <2>1
    <3> HIDE DEF e
    <3>3. f \in LoadEntry
      BY <3>1 DEF LoadEntry
    <3>4. f.id = e.id /\ f.addr = e.addr /\ f.producer = e.producer
      BY <3>1 DEF LoadEntry
    <3> HIDE DEF f
    <3>5. f # NoEntry
      BY <3>3, BackendAssumption
    <3>6. QED
      BY <3>1, <3>2, <3>3, <3>4, <3>5 DEF e, Slot
  <2>2. CASE s \notin reads
    BY <2>2
  <2>3. QED
    BY <2>1, <2>2
<1>2. lq2 \in [1 .. N -> Slot]
  BY <1>1
<1>3. MemInv(prog, base, rob, lq2, sq)
  <2>1. /\ DOMAIN lq2 = DOMAIN lq
        /\ \A s \in DOMAIN lq :
            /\ lq2[s] = NoEntry <=> lq[s] = NoEntry
            /\ lq2[s] # NoEntry => /\ lq2[s].id = lq[s].id /\ lq2[s].addr = lq[s].addr
                                   /\ lq2[s].producer = lq[s].producer
                                   /\ lq2[s].issued => lq[s].issued \/ lq[s].producer = Never
    BY <1>1
  <2>2. \A i \in DOMAIN rob :
            /\ rob[i].id = rob[i].id /\ rob[i].memops = rob[i].memops
            /\ rob[i].completed => rob[i].completed \/ rob[i].memops = Ops(prog, rob[i].id)
    OBVIOUS
  <2>3. \A j \in DOMAIN sq :
            /\ sq[j].id = sq[j].id /\ sq[j].addr = sq[j].addr
            /\ sq[j].issued = sq[j].issued /\ sq[j].waiters = sq[j].waiters
    OBVIOUS
  <2>4. MemInv(prog, base, rob, lq, sq)
    OBVIOUS
  <2>5. QED
    BY ONLY <2>1, <2>2, <2>3, <2>4, MemAlike
<1>4. QED
  BY <1>2, <1>3

\* What the load and store queue sends to the L1D fits its queues.
Sends(N, sq, w, lq, reads) ==
    /\ \A j \in 1 .. Len(sq) : sq[j].addr \in Addresses
    /\ w \in 0 .. Len(sq) /\ w <= cfg.WQ_SIZE - Len(L1D.WQ)
    /\ reads \in SUBSET (1 .. N) /\ \A s \in reads : lq[s].addr \in Addresses
    /\ Cardinality(reads) <= cfg.RQ_SIZE - Len(L1D.RQ) /\ Cardinality(reads) \in Nat
    /\ L1D' = [L1D EXCEPT !.WQ = @ \o [i \in 1 .. w |-> sq[i].addr],
                          !.RQ = @ \o [k \in 1 .. Cardinality(reads) |-> lq[Nth(reads, k)].addr]]

LEMMA RequestsFit ==
  ASSUME BackendInv, NEW N \in Nat, NEW T, NEW sq \in Seq(T), NEW w, NEW lq, NEW reads,
         Sends(N, sq, w, lq, reads)
  PROVE  /\ L1D' \in ChannelOf(Addresses, Blocks)
         /\ Len(L1D'.RQ) <= cfg.RQ_SIZE /\ Len(L1D'.WQ) <= cfg.WQ_SIZE
<1> SUFFICES ASSUME
         \A j \in 1 .. Len(sq) : sq[j].addr \in Addresses,
         w \in 0 .. Len(sq), w <= cfg.WQ_SIZE - Len(L1D.WQ),
         reads \in SUBSET (1 .. N), \A s \in reads : lq[s].addr \in Addresses,
         Cardinality(reads) <= cfg.RQ_SIZE - Len(L1D.RQ), Cardinality(reads) \in Nat,
         L1D' = [L1D EXCEPT !.WQ = @ \o [i \in 1 .. w |-> sq[i].addr],
                            !.RQ = @ \o [k \in 1 .. Cardinality(reads) |-> lq[Nth(reads, k)].addr]]
    PROVE  /\ L1D' \in ChannelOf(Addresses, Blocks)
           /\ Len(L1D'.RQ) <= cfg.RQ_SIZE /\ Len(L1D'.WQ) <= cfg.WQ_SIZE
  BY DEF Sends
<1> DEFINE c == Cardinality(reads)
           u == [i \in 1 .. w |-> sq[i].addr]
           v == [k \in 1 .. c |-> lq[Nth(reads, k)].addr]
           wq == L1D.WQ \o u
           rq == L1D.RQ \o v
<1>1. w <= cfg.WQ_SIZE - Len(L1D.WQ) /\ c <= cfg.RQ_SIZE - Len(L1D.RQ)
  OBVIOUS
<1>2. /\ L1D \in ChannelOf(Addresses, Blocks)
      /\ L1D.RQ \in Seq(Addresses) /\ L1D.WQ \in Seq(Addresses)
      /\ Len(L1D.RQ) \in Nat /\ Len(L1D.WQ) \in Nat /\ cfg.RQ_SIZE \in Nat /\ cfg.WQ_SIZE \in Nat
  BY BusFacts
<1>3. Len(sq) \in Nat /\ w \in Nat /\ c \in Nat
  BY LenProperties
<1>4. u \in Seq(Addresses) /\ Len(u) = w
  <2>1. u \in [1 .. w -> Addresses]
    BY <1>3
  <2> HIDE DEF u
  <2>2. QED
    BY <1>3, <2>1, FunctionIsSequence
<1>5. v \in Seq(Addresses) /\ Len(v) = c
  <2>1. ASSUME NEW k \in 1 .. c PROVE lq[Nth(reads, k)].addr \in Addresses
    <3>1. Nth(reads, k) \in reads
      BY <2>1, NthOf
    <3>2. QED
      BY <3>1
  <2>2. v \in [1 .. c -> Addresses]
    BY <2>1
  <2> HIDE DEF v, c
  <2>3. QED
    BY <1>3, <2>2, FunctionIsSequence
<1>6. L1D' = [L1D EXCEPT !.WQ = wq, !.RQ = rq]
  OBVIOUS
<1> HIDE DEF u, v, c
<1>7. wq \in Seq(Addresses) /\ Len(wq) = Len(L1D.WQ) + w
  BY ONLY <1>2, <1>4, ConcatProperties
<1>8. rq \in Seq(Addresses) /\ Len(rq) = Len(L1D.RQ) + c
  BY ONLY <1>2, <1>5, ConcatProperties
<1> HIDE DEF wq, rq
<1>9. L1D' = [[L1D EXCEPT !["WQ"] = wq] EXCEPT !["RQ"] = rq]
  BY <1>2, <1>6 DEF ChannelOf
<1>10. "RQ" \in RequestQueues /\ "WQ" \in RequestQueues /\ "RQ" # "WQ"
  BY DEF RequestQueues
<1> DEFINE ch == [L1D EXCEPT !["WQ"] = wq]
<1>11. /\ ch \in ChannelOf(Addresses, Blocks)
       /\ \A p \in RequestQueues : ch[p] = IF p = "WQ" THEN wq ELSE L1D[p]
  BY <1>2, <1>7, <1>10, QueueAssigned
<1>12. L1D' = [ch EXCEPT !["RQ"] = rq]
  BY <1>9
<1> HIDE DEF ch
<1>13. /\ [ch EXCEPT !["RQ"] = rq] \in ChannelOf(Addresses, Blocks)
       /\ \A p \in RequestQueues : [ch EXCEPT !["RQ"] = rq][p] = IF p = "RQ" THEN rq ELSE ch[p]
  BY <1>8, <1>10, <1>11, QueueAssigned
<1>14. L1D' \in ChannelOf(Addresses, Blocks) /\ L1D'.RQ = rq /\ L1D'.WQ = wq
  <2>1. L1D'["RQ"] = rq /\ L1D'["WQ"] = wq
    BY <1>10, <1>11, <1>12, <1>13
  <2>2. QED
    BY <1>12, <1>13, <2>1
<1>15. Len(rq) <= cfg.RQ_SIZE /\ Len(wq) <= cfg.WQ_SIZE
  BY ONLY <1>1, <1>2, <1>3, <1>7, <1>8
<1>16. QED
  BY <1>14, <1>15

\* operate_lsq keeps the invariant: stores drop, finish and wake their loads,
\* and loads that wait for none are sent.
LEMMA AfterOperateLSQ ==
  ASSUME BackendInv, OperateLSQ
  PROVE  BackendInv'
<1> DEFINE N == cfg.LQ_SIZE
           first == SpanOf(SQ, Len(SQ), Issued)
           rest == SubSeq(SQ, first + 1, Len(SQ))
           n == SpanOf(rest, cfg.SQ_WIDTH, CanIssue)
           issue == first + 1 .. first + n
           woken == UNION {SQ[i].waiters : i \in issue}
           stores == [i \in DOMAIN SQ |->
                        IF i \in issue THEN [SQ[i] EXCEPT !.issued = TRUE, !.ready = 0] ELSE SQ[i]]
           left == Smaller(cfg.SQ_WIDTH - n, cfg.WQ_SIZE - Len(L1D.WQ))
           w == SpanOf(stores, left, MayWrite)
           lq == [s \in DOMAIN LQ |-> IF s \in woken THEN NoEntry ELSE LQ[s]]
           may == {s \in DOMAIN lq : /\ lq[s] # NoEntry
                                     /\ lq[s].producer = Never
                                     /\ ~lq[s].issued /\ lq[s].ready < 0}
           width == Smaller(cfg.LQ_WIDTH, cfg.RQ_SIZE - Len(L1D.RQ))
           reads == FirstOf(may, width)
           lq2 == [s \in DOMAIN lq |-> IF s \in reads THEN [lq[s] EXCEPT !.issued = TRUE] ELSE lq[s]]
<1>1. /\ ROB' = Finish(ROB, woken, issue)
      /\ SQ' = SubSeq(stores, w + 1, Len(stores))
      /\ LQ' = lq2
      /\ L1D' = [L1D EXCEPT !.WQ = @ \o [i \in 1 .. w |-> stores[i].addr],
                            !.RQ = @ \o [k \in 1 .. Cardinality(reads) |-> lq[Nth(reads, k)].addr]]
      /\ UNCHANGED <<ra, num_retired, owed, arrived, cfg, program>>
  BY DEF OperateLSQ, configVars
<1>2. TypeInv /\ SizeInv /\ num_retired + Len(ROB) <= arrived
  BY DEF BackendInv
<1>3. /\ N \in Nat /\ DOMAIN LQ = 1 .. N
      /\ SQ \in Seq(Store(N)) /\ DOMAIN SQ = 1 .. Len(SQ) /\ Len(SQ) \in Nat /\ cfg \in Configs
  BY QueueFacts
<1>4. /\ cfg.SQ_WIDTH \in Nat /\ cfg.LQ_WIDTH \in Nat /\ cfg.SQ_SIZE \in Nat
  BY <1>3, CoreNumbers
<1>5. /\ Len(L1D.RQ) <= cfg.RQ_SIZE /\ Len(L1D.WQ) <= cfg.WQ_SIZE
      /\ Len(L1D.RQ) \in Nat /\ Len(L1D.WQ) \in Nat /\ cfg.RQ_SIZE \in Nat /\ cfg.WQ_SIZE \in Nat
  BY BusFacts
<1>6. first \in 0 .. Len(SQ) /\ \A i \in 1 .. first : SQ[i].issued
  BY <1>3, <1>4, StoreSpans
<1> HIDE DEF first
<1>7. /\ rest \in Seq(Store(N)) /\ Len(rest) = Len(SQ) - first
      /\ \A i \in 1 .. Len(SQ) - first : rest[i] = SQ[first + i]
  BY <1>3, <1>6, CountSplit
<1> HIDE DEF rest
<1>8. n \in 0 .. Len(rest) /\ n <= cfg.SQ_WIDTH /\ \A i \in 1 .. n : ~rest[i].issued
  BY <1>4, <1>7, StoreSpans
<1> HIDE DEF n
<1>9. Issuing(N, LQ, SQ, first, n, issue, woken, lq, stores)
  <2>1. first \in Nat /\ n \in Nat /\ first + n <= Len(SQ)
    BY <1>3, <1>6, <1>7, <1>8
  <2>2. \A i \in issue : ~SQ[i].issued
    <3> SUFFICES ASSUME NEW i \in issue PROVE ~SQ[i].issued
      OBVIOUS
    <3>1. i - first \in 1 .. n /\ i - first \in 1 .. Len(SQ) - first /\ first + (i - first) = i
      BY <1>3, <2>1
    <3>2. QED
      BY <1>7, <1>8, <3>1
  <2>3. /\ \A i \in issue : SQ[i].waiters \subseteq woken
        /\ \A s \in woken : \E i \in issue : s \in SQ[i].waiters
    OBVIOUS
  <2> HIDE DEF issue, woken
  <2>4. issue = first + 1 .. first + n
    BY DEF issue
  <2>5. QED
    BY <1>6, <2>1, <2>2, <2>3, <2>4 DEF Issuing
<1>10. lq = [s \in DOMAIN LQ |-> IF s \in woken THEN NoEntry ELSE LQ[s]]
  OBVIOUS
<1> HIDE DEF issue, woken, stores, lq, lq2
<1>11. /\ ROB' \in Seq(Entry) /\ Len(ROB') = Len(ROB) /\ DOMAIN ROB' = DOMAIN ROB
       /\ RegInv(program, num_retired, ra, ROB', cfg.SCHEDULING_LATENCY)
       /\ lq \in [1 .. N -> Slot] /\ DOMAIN lq = 1 .. N
       /\ stores \in Seq(Store(N)) /\ Len(stores) = Len(SQ)
       /\ \A j \in 1 .. Len(SQ) : stores[j].id = SQ[j].id
       /\ MemInv(program, num_retired, ROB', lq, stores)
  BY <1>1, <1>9, AfterIssue
<1>12. left \in Nat /\ left <= cfg.WQ_SIZE - Len(L1D.WQ)
  BY <1>4, <1>5, <1>7, <1>8, SMTT(30) DEF Smaller
<1>13. width \in Nat /\ width <= cfg.RQ_SIZE - Len(L1D.RQ)
  BY <1>4, <1>5 DEF Smaller
<1>14. may \in SUBSET (1 .. N) /\ \A s \in may : lq[s] # NoEntry /\ lq[s].producer = Never
  BY <1>11
<1> HIDE DEF left, width, may
<1>15. w \in 0 .. Len(stores) /\ w <= left /\ \A i \in 1 .. w : stores[i].id < complete_id
  BY <1>11, <1>12, StoreSpans
<1>16. reads \subseteq may /\ Cardinality(reads) \in Nat /\ Cardinality(reads) <= width
  BY <1>3, <1>13, <1>14, FirstOfBounds
<1> HIDE DEF w, reads
<1>17. LQ' \in [1 .. N -> Slot] /\ MemInv(program, num_retired, ROB', LQ', stores)
  <2>1. /\ DOMAIN lq2 = 1 .. N
        /\ \A s \in 1 .. N : lq2[s] = IF s \in reads THEN [lq[s] EXCEPT !.issued = TRUE] ELSE lq[s]
    BY <1>11 DEF lq2
  <2>2. lq2 = [s \in 1 .. N |-> lq2[s]]
    BY <2>1 DEF lq2
  <2>3. reads \in SUBSET {s \in 1 .. N : lq[s] # NoEntry /\ lq[s].producer = Never}
    BY <1>14, <1>16
  <2>4. /\ N \in Nat /\ lq \in [1 .. N -> Slot] /\ MemInv(program, num_retired, ROB', lq, stores)
    BY <1>3, <1>11
  <2>5. lq2 \in [1 .. N -> Slot] /\ MemInv(program, num_retired, ROB', lq2, stores)
    <3>1. Reading(N, lq, reads, lq2)
      BY <2>1, <2>2, <2>3 DEF Reading
    <3>2. QED
      BY ONLY <2>4, <3>1, LoadsIssue
  <2>6. QED
    BY <1>1, <2>5
<1>18. \A j \in 1 .. w : stores[j].id <= num_retired
  <2> SUFFICES ASSUME NEW j \in 1 .. w PROVE stores[j].id <= num_retired
    OBVIOUS
  <2>1. j \in 1 .. Len(SQ) /\ j \in DOMAIN SQ /\ stores[j].id < complete_id /\ stores[j].id = SQ[j].id
    BY <1>3, <1>11, <1>15
  <2>2. /\ DOMAIN ROB = 1 .. Len(ROB) /\ Len(ROB) \in Nat /\ num_retired \in Nat
        /\ \A i \in 1 .. Len(ROB) : ROB[i].id = num_retired + i
        /\ ROB \in Seq(Entry)
    BY RobFollows
  <2>3. SQ[j].id \in 1 .. num_retired + Len(ROB)
    <3>1. MemInv(program, num_retired, ROB, LQ, SQ)
      BY QueueFacts
    <3>2. QED
      BY <2>1, <3>1 DEF MemInv
  <2>4. CASE ROB = << >>
    <3>1. Len(ROB) = 0
      BY <2>4
    <3>2. QED
      BY <2>1, <2>2, <2>3, <3>1
  <2>5. CASE ROB # << >>
    <3>1. Len(ROB) # 0
      BY <2>2, <2>5, EmptySeq
    <3>2. 1 \in 1 .. Len(ROB)
      BY <2>2, <3>1
    <3>3. complete_id = num_retired + 1
      BY <2>2, <2>5, <3>2 DEF complete_id
    <3>4. QED
      BY <2>1, <2>2, <2>3, <3>3
  <2>6. QED
    BY <2>4, <2>5
<1>19. MemInv(program, num_retired, ROB', LQ', SQ')
  <2>1. num_retired \in Nat
    BY QueueFacts
  <2>2. MemInv(program, num_retired, ROB', LQ', SubSeq(stores, w + 1, Len(stores)))
    BY ONLY <1>3, <1>11, <1>15, <1>17, <1>18, <2>1, MemWrite
  <2>3. QED
    BY <1>1, <2>2
<1>20. SQ' \in Seq(Store(N)) /\ Len(SQ') = Len(SQ) - w /\ w \in Nat
  <2>1. /\ SubSeq(stores, w + 1, Len(stores)) \in Seq(Store(N))
        /\ Len(SubSeq(stores, w + 1, Len(stores))) = Len(stores) - w
    BY <1>11, <1>15, CountSplit
  <2>2. QED
    BY <1>1, <1>11, <1>15, <2>1
<1>21. /\ L1D' \in ChannelOf(Addresses, Blocks)
       /\ Len(L1D'.RQ) <= cfg.RQ_SIZE /\ Len(L1D'.WQ) <= cfg.WQ_SIZE
  <2>1. \A j \in 1 .. Len(stores) : stores[j].addr \in Addresses
    <3>1. \A j \in 1 .. Len(stores) : stores[j] \in Store(N)
      BY <1>11, ElementOfSeq
    <3>2. QED
      BY <3>1 DEF Store
  <2>2. reads \in SUBSET (1 .. N) /\ \A s \in reads : lq[s].addr \in Addresses
    <3>1. \A s \in reads : s \in 1 .. N /\ lq[s] # NoEntry
      BY <1>14, <1>16
    <3>2. \A s \in reads : lq[s] \in LoadEntry
      BY <1>11, <3>1 DEF Slot
    <3>3. QED
      BY <3>1, <3>2 DEF LoadEntry
  <2>3. w <= cfg.WQ_SIZE - Len(L1D.WQ) /\ Cardinality(reads) <= cfg.RQ_SIZE - Len(L1D.RQ)
    BY <1>5, <1>11, <1>12, <1>13, <1>15, <1>16, SMTT(30)
  <2>4. QED
    <3>1. Sends(N, stores, w, lq, reads)
      BY <1>1, <1>15, <1>16, <2>1, <2>2, <2>3 DEF Sends
    <3>2. QED
      BY <1>3, <1>11, <3>1, RequestsFit
<1>22. TypeInv'
  BY <1>1, <1>2, <1>11, <1>17, <1>20, <1>21 DEF TypeInv, N
<1>23. SizeInv'
  <2>1. Len(ROB) <= cfg.ROB_SIZE /\ Len(SQ) <= cfg.SQ_SIZE
    BY <1>2 DEF SizeInv
  <2>2. Len(SQ') <= cfg.SQ_SIZE
    BY <1>3, <1>4, <1>20, <2>1
  <2>3. QED
    BY <1>1, <1>11, <1>21, <2>1, <2>2 DEF SizeInv
<1>24. QED
  BY <1>1, <1>2, <1>11, <1>19, <1>22, <1>23 DEF BackendInv

\* What holds of the queues throughout the loop of dispatch_instruction.
Dispatching(x) ==
    /\ x.rob \in Seq(Entry) /\ x.lq \in [1 .. cfg.LQ_SIZE -> Slot] /\ x.sq \in Seq(Store(cfg.LQ_SIZE))
    /\ Len(x.rob) <= cfg.ROB_SIZE /\ Len(x.sq) <= cfg.SQ_SIZE
    /\ num_retired + Len(x.rob) <= arrived
    /\ MemInv(program, num_retired, x.rob, x.lq, x.sq)
    /\ RegInv(program, num_retired, ra, x.rob, cfg.SCHEDULING_LATENCY)

\* The registers that a program names, as the ROB keeps them.
LEMMA RegistersAreNumbers ==
  ASSUME NEW s \in Seq(ArchRegs)
  PROVE  s \in Seq(Int)
<1>1. /\ DOMAIN s = 1 .. Len(s) /\ Len(s) \in Nat /\ s \in [1 .. Len(s) -> ArchRegs]
      /\ \A k \in 1 .. Len(s) : s[k] \in ArchRegs
  BY LenProperties, ElementOfSeq
<1>2. ArchRegs \subseteq Int
  BY RegisterAssumption
<1>3. s \in [1 .. Len(s) -> Int]
  BY <1>1, <1>2
<1>4. QED
  BY <1>1, <1>3, FunctionIsSequence

\* Dispatching one instruction that fits.
LEMMA DispatchIntoKeeps ==
  ASSUME BackendInv, NEW x, Dispatching(x), NEW id, id = num_retired + Len(x.rob) + 1,
         HasRoomFor(x, id)
  PROVE  Dispatching(DispatchInto(x, id))
<1> DEFINE N == cfg.LQ_SIZE
           loads == program[id].loads
           stores == program[id].stores
           m == WithLoads(id, x.lq, x.sq, loads)
           e == [id |-> id, ready |-> cfg.SCHEDULING_LATENCY,
                 scheduled |-> FALSE, executed |-> FALSE, completed |-> FALSE,
                 memops |-> m.memops, srcs |-> program[id].srcs, dsts |-> program[id].dsts]
           news == NewStores(id, stores)
<1>1. /\ x.rob \in Seq(Entry) /\ x.lq \in [1 .. N -> Slot] /\ x.sq \in Seq(Store(N))
      /\ Len(x.rob) <= cfg.ROB_SIZE /\ Len(x.sq) <= cfg.SQ_SIZE
      /\ num_retired + Len(x.rob) <= arrived
      /\ MemInv(program, num_retired, x.rob, x.lq, x.sq)
      /\ RegInv(program, num_retired, ra, x.rob, cfg.SCHEDULING_LATENCY)
  BY DEF Dispatching
<1>2. /\ N \in Nat /\ program \in Programs /\ cfg \in Configs /\ num_retired \in Nat
      /\ Len(program) \in Nat
  BY QueueFacts
<1>3. arrived \in 0 .. Len(program)
  BY DEF BackendInv, TypeInv
<1>4. /\ id <= arrived /\ Len(x.rob) # cfg.ROB_SIZE
      /\ Cardinality(FreeSlots(x.lq)) >= Len(loads)
      /\ Len(stores) + Len(x.sq) <= cfg.SQ_SIZE
  BY DEF HasRoomFor
<1>5. Len(x.rob) \in Nat /\ Len(x.sq) \in Nat
  BY <1>1, LenProperties
<1>6. id \in 1 .. Len(program) /\ id = num_retired + Len(x.rob) + 1 /\ id \in Nat /\ id <= Len(program)
  BY <1>2, <1>3, <1>4, <1>5
<1>7. /\ program \in Seq(Instruction)
      /\ program[id].srcs \in Seq(ArchRegs) /\ program[id].dsts \in Seq(ArchRegs)
      /\ loads \in Seq(Addresses) /\ stores \in Seq(Addresses)
  BY <1>2, <1>6, ProgramFacts
<1>8. /\ cfg.SCHEDULING_LATENCY \in Nat /\ cfg.ROB_SIZE \in Nat /\ cfg.SQ_SIZE \in Nat
  BY <1>2, CoreNumbers
<1>9. Follows(program, num_retired, x.rob)
  <2>1. num_retired + Len(x.rob) <= Len(program) /\ \A i \in DOMAIN x.rob : x.rob[i].id = num_retired + i
    BY <1>1 DEF MemInv
  <2>2. QED
    BY <1>1, <1>2, <1>7, <2>1 DEF Follows
<1>10. DispatchInto(x, id) = [lq |-> m.lq, sq |-> m.sq \o news, rob |-> Append(x.rob, e)]
  BY DEF DispatchInto, NewStore, NewStores, WithLoads
<1>11. Entering(program, num_retired, x.rob, x.lq, id, loads, stores)
  BY <1>4, <1>6, <1>7 DEF Entering
<1> HIDE DEF m, loads, stores, N
<1>12. Adding(program, num_retired, x.rob, N, Len(x.sq), id, Len(loads), m)
  BY ONLY <1>1, <1>2, <1>11, LoadsAdded DEF m
<1>13. m.memops \in Nat
  BY <1>12 DEF Adding
<1>14. e \in Entry
  BY <1>6, <1>7, <1>8, <1>13, RegistersAreNumbers DEF Entry
<1>15. /\ e.id = id /\ e.memops = m.memops /\ ~e.scheduled /\ ~e.executed /\ ~e.completed
       /\ e.ready = cfg.SCHEDULING_LATENCY
       /\ e.srcs = program[id].srcs /\ e.dsts = program[id].dsts
  OBVIOUS
<1> HIDE DEF e
<1>16. /\ MemInv(program, num_retired, Append(x.rob, e), m.lq, m.sq \o news)
       /\ m.lq \in [1 .. N -> Slot] /\ m.sq \o news \in Seq(Store(N))
       /\ Len(m.sq \o news) = Len(x.sq) + Len(stores)
  <2>1. /\ x.rob \in Seq(Entry) /\ x.lq \in [1 .. N -> Slot] /\ x.sq \in Seq(Store(N))
        /\ MemInv(program, num_retired, x.rob, x.lq, x.sq)
        /\ N \in Nat /\ num_retired \in Nat /\ Len(program) \in Nat
    BY <1>1, <1>2
  <2>2. e \in Entry /\ e.id = id /\ e.memops = m.memops /\ ~e.completed
    BY <1>14, <1>15
  <2> DEFINE rob == x.rob
             lq == x.lq
             sq == x.sq
  <2>3. Entering(program, num_retired, rob, lq, id, loads, stores)
    BY <1>11
  <2>4. Adding(program, num_retired, rob, N, Len(sq), id, Len(loads), m)
    BY <1>12
  <2>5. /\ rob \in Seq(Entry) /\ lq \in [1 .. N -> Slot] /\ sq \in Seq(Store(N))
        /\ MemInv(program, num_retired, rob, lq, sq)
        /\ N \in Nat /\ num_retired \in Nat /\ Len(program) \in Nat
    BY <2>1
  <2> HIDE DEF rob, lq, sq
  <2>6. Queued(program, num_retired, N, Len(sq) + Len(stores),
               Append(rob, e), m.lq, m.sq \o NewStores(id, stores))
    BY ONLY <2>2, <2>3, <2>4, <2>5, MemDispatch
  <2>7. QED
    BY <2>6 DEF Queued, news, rob, sq
<1> HIDE DEF news
<1>17. RegInv(program, num_retired, ra, Append(x.rob, e), cfg.SCHEDULING_LATENCY)
  <2>1. /\ e.srcs = program[num_retired + Len(x.rob) + 1].srcs
        /\ e.dsts = program[num_retired + Len(x.rob) + 1].dsts
    BY <1>6, <1>15
  <2>2. QED
    BY ONLY <1>1, <1>8, <1>9, <1>14, <1>15, <2>1, RegAppend
<1>18. Append(x.rob, e) \in Seq(Entry) /\ Len(Append(x.rob, e)) = Len(x.rob) + 1
  BY <1>1, <1>14, AppendProperties
<1>19. /\ Len(x.rob) + 1 <= cfg.ROB_SIZE /\ Len(x.sq) + Len(stores) <= cfg.SQ_SIZE
       /\ num_retired + (Len(x.rob) + 1) <= arrived
  <2>1. Len(stores) \in Nat
    BY <1>7, LenProperties
  <2>2. QED
    BY <1>1, <1>2, <1>4, <1>5, <1>6, <1>8, <2>1, SMTT(30)
<1> DEFINE y == DispatchInto(x, id)
<1>20. y.lq = m.lq /\ y.sq = m.sq \o news /\ y.rob = Append(x.rob, e)
  BY <1>10
<1> HIDE DEF y
<1>21. Dispatching(y)
  BY <1>16, <1>17, <1>18, <1>19, <1>20 DEF Dispatching, N
<1>22. QED
  BY <1>21 DEF y

LEMMA DispatchOneKeeps ==
  ASSUME BackendInv, NEW x, Dispatching(x), NEW k
  PROVE  Dispatching(DispatchOne(x, k))
<1> DEFINE id == num_retired + Len(x.rob) + 1
<1>1. CASE HasRoomFor(x, id)
  <2>1. DispatchOne(x, k) = DispatchInto(x, id)
    BY <1>1 DEF DispatchOne
  <2>2. id = num_retired + Len(x.rob) + 1
    OBVIOUS
  <2> HIDE DEF id
  <2>3. Dispatching(DispatchInto(x, id))
    BY <1>1, <2>2, DispatchIntoKeeps
  <2>4. QED
    BY <2>1, <2>3
<1>2. CASE ~HasRoomFor(x, id)
  BY <1>2 DEF DispatchOne
<1>3. QED
  BY <1>1, <1>2

\* dispatch_instruction keeps the invariant, for any dispatch width.
LEMMA AfterDispatch ==
  ASSUME BackendInv, Dispatch
  PROVE  BackendInv'
<1> DEFINE start == [lq |-> LQ, sq |-> SQ, rob |-> ROB]
           q == [k \in 1 .. cfg.DISPATCH_WIDTH |-> k]
           n == cfg.DISPATCH_WIDTH
           end == FoldLeft(DispatchOne, start, q)
<1>1. /\ TypeInv /\ SizeInv /\ num_retired + Len(ROB) <= arrived
      /\ MemInv(program, num_retired, ROB, LQ, SQ)
      /\ RegInv(program, num_retired, ra, ROB, cfg.SCHEDULING_LATENCY)
  BY DEF BackendInv
<1>2. /\ ROB' = end.rob /\ LQ' = end.lq /\ SQ' = end.sq
      /\ UNCHANGED <<ra, num_retired, L1D, owed, arrived, cfg, program>>
  BY DEF Dispatch, busVars, configVars
<1>3. n \in Nat
  BY <1>1, CoreNumbers DEF TypeInv
<1>4. q \in Seq(Nat) /\ Len(q) = n
  <2>1. q \in [1 .. n -> Nat]
    BY <1>3
  <2> HIDE DEF q
  <2>2. QED
    BY <1>3, <2>1, FunctionIsSequence
<1>5. start.lq = LQ /\ start.sq = SQ /\ start.rob = ROB
  OBVIOUS
<1> HIDE DEF start, q, n
<1>6. Dispatching(start)
  BY <1>1, <1>5 DEF Dispatching, TypeInv, SizeInv
<1>7. DispatchPath(start, q)
  BY <1>4, DispatchFold
<1>8. PICK g : /\ g[0] = start /\ g[n] = end
               /\ \A k \in 1 .. n : g[k] = DispatchOne(g[k - 1], q[k])
  BY <1>4, <1>7 DEF DispatchPath
<1> HIDE DEF end
<1> DEFINE S == {k \in 0 .. n : Dispatching(g[k])}
<1>9. 0 \in S
  BY <1>3, <1>6, <1>8
<1>10. ASSUME NEW k \in 1 .. n, k - 1 \in S
       PROVE  k \in S
  <2>1. Dispatching(g[k - 1])
    BY <1>10
  <2>2. Dispatching(DispatchOne(g[k - 1], q[k]))
    BY <2>1, DispatchOneKeeps
  <2>3. g[k] = DispatchOne(g[k - 1], q[k]) /\ k \in 0 .. n
    BY <1>3, <1>8
  <2>4. QED
    BY <2>2, <2>3
<1> HIDE DEF S
<1>11. \A k \in 0 .. n : k \in S
  BY <1>3, <1>9, <1>10, UpTo
<1>12. n \in S
  BY <1>3, <1>11
<1>13. Dispatching(end)
  BY <1>8, <1>12 DEF S
<1>14. /\ ROB' \in Seq(Entry) /\ LQ' \in [1 .. cfg.LQ_SIZE -> Slot] /\ SQ' \in Seq(Store(cfg.LQ_SIZE))
       /\ Len(ROB') <= cfg.ROB_SIZE /\ Len(SQ') <= cfg.SQ_SIZE
       /\ num_retired + Len(ROB') <= arrived
       /\ MemInv(program, num_retired, ROB', LQ', SQ')
       /\ RegInv(program, num_retired, ra, ROB', cfg.SCHEDULING_LATENCY)
  BY <1>2, <1>13 DEF Dispatching
<1>15. TypeInv' /\ SizeInv'
  BY <1>1, <1>2, <1>14 DEF TypeInv, SizeInv
<1>16. QED
  BY <1>2, <1>14, <1>15 DEF BackendInv

-----------------------------------------------------------------------------
(* The invariant holds. *)

LEMMA BackendInitInv == BackendInit => BackendInv
<1> SUFFICES ASSUME BackendInit PROVE BackendInv
  OBVIOUS
<1> DEFINE N == cfg.LQ_SIZE
<1>1. /\ cfg \in Configs /\ program \in Programs /\ arrived = 0 /\ num_retired = 0
      /\ ROB = << >> /\ SQ = << >> /\ LQ = [i \in 1 .. N |-> NoEntry]
      /\ ra = FreshAllocator /\ L1D = EmptyChannel /\ owed = << >>
  BY DEF BackendInit
<1>2. /\ N \in Nat /\ cfg.ROB_SIZE \in Nat /\ cfg.SQ_SIZE \in Nat
      /\ cfg.RQ_SIZE \in Nat /\ cfg.WQ_SIZE \in Nat /\ Len(program) \in Nat
  BY <1>1, CoreNumbers, ProgramFacts
<1>3. /\ Len(ROB) = 0 /\ DOMAIN ROB = {} /\ Len(SQ) = 0 /\ DOMAIN SQ = {}
      /\ ROB \in Seq(Entry) /\ SQ \in Seq(Store(N)) /\ owed \in Seq(Blocks)
  BY <1>1, EmptySeq
<1>4. L1D \in ChannelOf(Addresses, Blocks) /\ Len(L1D.RQ) = 0 /\ Len(L1D.WQ) = 0
  BY <1>1, EmptySeq DEF EmptyChannel, ChannelOf
<1>5. LQ \in [1 .. N -> Slot] /\ \A s \in DOMAIN LQ : LQ[s] = NoEntry
  BY <1>1 DEF Slot
<1>6. TypeInv
  BY <1>1, <1>2, <1>3, <1>4, <1>5 DEF TypeInv
<1>7. SizeInv /\ num_retired + Len(ROB) <= arrived
  BY <1>1, <1>2, <1>3, <1>4 DEF SizeInv
<1>8. MemInv(program, num_retired, ROB, LQ, SQ)
  <2>1. num_retired + Len(ROB) <= Len(program)
    BY <1>1, <1>2, <1>3
  <2>2. QED
    BY <1>3, <1>5, <2>1 DEF MemInv, StoresOrdered, LoadsWait, StoresKnow
<1>9. RegInv(program, num_retired, ra, ROB, cfg.SCHEDULING_LATENCY)
  <2>1. Results(ROB) = {}
    BY <1>3 DEF Results
  <2>2. ResultsOf(ROB, num_retired) = << >>
    BY <2>1 DEF ResultsOf
  <2>3. Accounted(ra, ResultsOf(ROB, num_retired), Nat)
    BY <1>1, <2>2, FreshKeeps
  <2>4. QED
    BY <1>3, <2>3 DEF RegInv, Ordered
<1>10. QED
  BY <1>6, <1>7, <1>8, <1>9 DEF BackendInv

LEMMA BackendStepInv == BackendInv /\ [BackendNext]_backendVars => BackendInv'
<1> SUFFICES ASSUME BackendInv, [BackendNext]_backendVars PROVE BackendInv'
  OBVIOUS
<1>1. CASE Retire
  BY <1>1, AfterRetire
<1>2. CASE Complete
  BY <1>2, AfterComplete
<1>3. CASE Execute
  BY <1>3, AfterExecute
<1>4. CASE Schedule
  BY <1>4, AfterSchedule
<1>5. CASE MemoryReturn
  BY <1>5, AfterMemoryReturn
<1>6. CASE OperateLSQ
  BY <1>6, AfterOperateLSQ
<1>7. CASE Dispatch
  BY <1>7, AfterDispatch
<1>8. CASE StartCycle
  BY <1>8, AfterStartCycle
<1>9. CASE Arrive
  BY <1>9, AfterArrive
<1>10. CASE L1DTakeRead
  BY <1>10, AfterTakeRead
<1>11. CASE L1DTakeWrite
  BY <1>11, AfterTakeWrite
<1>12. CASE L1DAnswer
  BY <1>12, AfterAnswer
<1>13. CASE UNCHANGED backendVars
  <2>1. UNCHANGED <<cfg, program, arrived, ROB, LQ, SQ, ra, L1D, owed, num_retired>>
    BY <1>13 DEF backendVars, configVars, coreVars, busVars
  <2>2. TypeInv' /\ SizeInv'
    BY <2>1 DEF BackendInv, TypeInv, SizeInv
  <2>3. QED
    BY <2>1, <2>2 DEF BackendInv
<1>14. QED
  BY <1>1, <1>2, <1>3, <1>4, <1>5, <1>6, <1>7, <1>8, <1>9, <1>10, <1>11, <1>12, <1>13
     DEF BackendNext, BackendOperate

LEMMA BackendInvariant == BackendSpec => []BackendInv
BY BackendInitInv, BackendStepInv, PTL DEF BackendSpec

\* For every program, core and schedule of the L1D: every load and store of an
\* instruction in flight is counted once, or is still in a queue (finish), and
\* the queues keep their order and their sizes (do_memory_scheduling).
THEOREM EveryOperationIsCounted == BackendSpec => []MemOpsAccounted
<1>1. BackendInv => MemOpsAccounted
  <2> SUFFICES ASSUME BackendInv PROVE MemOpsAccounted
    OBVIOUS
  <2>1. /\ DOMAIN ROB = 1 .. Len(ROB) /\ \A i \in DOMAIN ROB : ROB[i].id = num_retired + i
    BY RobFollows
  <2>2. /\ \A i \in DOMAIN ROB :
              ROB[i].memops + Cardinality(LoadsFor(LQ, num_retired + i))
                 + Cardinality(StoresFor(SQ, num_retired + i)) = Ops(program, num_retired + i)
        /\ \A s \in DOMAIN LQ :
              LQ[s] # NoEntry => LQ[s].id \in num_retired + 1 .. num_retired + Len(ROB)
        /\ \A j \in DOMAIN SQ : SQ[j].id <= num_retired => SQ[j].issued
    BY DEF BackendInv, MemInv
  <2>3. StoresOrdered(SQ)
    BY QueueFacts
  <2>4. SizeInv
    BY DEF BackendInv
  <2>5. QueuesInOrder
    BY <2>1, <2>2, <2>3, <2>4 DEF QueuesInOrder, SizeInv, StoresOrdered
  <2>6. \A i \in DOMAIN ROB :
           ROB[i].memops
             + Cardinality({s \in DOMAIN LQ : LQ[s] # NoEntry /\ LQ[s].id = ROB[i].id})
             + Cardinality({j \in DOMAIN SQ : SQ[j].id = ROB[i].id /\ ~SQ[j].issued})
           = NumMemOps(ROB[i].id)
    <3> SUFFICES ASSUME NEW i \in DOMAIN ROB
                 PROVE  ROB[i].memops
                          + Cardinality({s \in DOMAIN LQ : LQ[s] # NoEntry /\ LQ[s].id = ROB[i].id})
                          + Cardinality({j \in DOMAIN SQ : SQ[j].id = ROB[i].id /\ ~SQ[j].issued})
                        = NumMemOps(ROB[i].id)
      OBVIOUS
    <3>1. ROB[i].id = num_retired + i
      BY <2>1
    <3>2. {s \in DOMAIN LQ : LQ[s] # NoEntry /\ LQ[s].id = ROB[i].id} = LoadsFor(LQ, num_retired + i)
      BY <3>1 DEF LoadsFor
    <3>3. {j \in DOMAIN SQ : SQ[j].id = ROB[i].id /\ ~SQ[j].issued} = StoresFor(SQ, num_retired + i)
      BY <3>1 DEF StoresFor
    <3>4. NumMemOps(ROB[i].id) = Ops(program, num_retired + i)
      BY <3>1 DEF NumMemOps, Ops
    <3>5. QED
      BY <2>2, <3>2, <3>3, <3>4
  <2>7. QED
    BY <2>2, <2>5, <2>6 DEF MemOpsAccounted
<1>2. QED
  BY <1>1, BackendInvariant, PTL

\* No load goes to memory past an older store of its address, and the wake-up of
\* a load that waits is never lost (do_finish_store).
THEOREM LoadsWaitForStores == BackendSpec => []NoLoadPassesItsStore
<1>1. BackendInv => NoLoadPassesItsStore
  BY QueueFacts DEF LoadsWait, NoLoadPassesItsStore
<1>2. QED
  BY <1>1, BackendInvariant, PTL

\* With the instructions that the core schedules, completes and retires itself,
\* no physical register is lost or given out twice (register_allocator.cc).
THEOREM CoreLosesNoRegister == BackendSpec => []RegistersAreAccounted
<1>1. BackendInv => RegistersAreAccounted
  <2> SUFFICES ASSUME BackendInv PROVE RegistersAreAccounted
    OBVIOUS
  <2>1. Accounted(ra, ResultsOf(ROB, num_retired), Nat)
    BY DEF BackendInv, RegInv
  <2>2. InFlight = ResultsOf(ROB, num_retired)
    BY DEF InFlight, ResultsOf
  <2>3. QED
    BY <2>1, <2>2 DEF Accounted, RegistersAreAccounted
<1>2. QED
  BY <1>1, BackendInvariant, PTL

\* Every source names the result of the youngest older writer of its register, or
\* the committed value, and instructions execute on values that were produced
\* (do_scheduling, execute_instruction).
THEOREM SourcesAreRight == BackendSpec => []SourcesAreLatestWriters
<1>1. BackendInv => SourcesAreLatestWriters
  <2> SUFFICES ASSUME BackendInv, NEW i \in DOMAIN ROB, ROB[i].scheduled
               PROVE  /\ \A j \in 1 .. i : ROB[j].scheduled
                      /\ \A k \in DOMAIN ROB[i].srcs :
                            LET reg == program[ROB[i].id].srcs[k]
                                writers == {w \in DOMAIN InFlight :
                                              /\ w[1] < ROB[i].id
                                              /\ program[w[1]].dsts[w[2]] = reg}
                                last == CHOOSE w \in writers : \A v \in writers : ~Before(w, v)
                            IN  /\ ROB[i].srcs[k] = IF writers = {} THEN ra.backend[reg]
                                                    ELSE InFlight[last]
                                /\ ROB[i].executed => isValid(ra, ROB[i].srcs[k])
    BY DEF SourcesAreLatestWriters
  <2> DEFINE W == InFlight
             id == ROB[i].id
  <2>0. W = ResultsOf(ROB, num_retired)
    BY DEF InFlight, ResultsOf
  <2>1. /\ Follows(program, num_retired, ROB) /\ DOMAIN ROB = 1 .. Len(ROB) /\ Len(ROB) \in Nat
        /\ \A j \in 1 .. Len(ROB) : ROB[j].id = num_retired + j
    BY RobFollows
  <2>2. /\ Ordered(ROB, cfg.SCHEDULING_LATENCY)
        /\ \A j \in DOMAIN ROB : ROB[j].scheduled => Renamed(program, ra, W, ROB[j])
    BY <2>0 DEF BackendInv, RegInv
  <2>3. \A j \in 1 .. i : ROB[j].scheduled
    <3> SUFFICES ASSUME NEW j \in 1 .. i, ~ROB[j].scheduled PROVE FALSE
      OBVIOUS
    <3>1. j \in DOMAIN ROB /\ j < i
      BY <2>1
    <3>2. QED
      BY <2>2, <3>1 DEF Ordered
  <2>4. \A v \in DOMAIN W : /\ v \in Nat \X Nat
                            /\ ra.file[W[v]].arch = program[v[1]].dsts[v[2]]
    <3> SUFFICES ASSUME NEW v \in DOMAIN W
                 PROVE  v \in Nat \X Nat /\ ra.file[W[v]].arch = program[v[1]].dsts[v[2]]
      OBVIOUS
    <3> DEFINE j == v[1] - num_retired
    <3>1. /\ v \in Nat \X Nat /\ j \in DOMAIN ROB /\ v[1] = num_retired + j
          /\ ROB[j].scheduled /\ v[2] \in DOMAIN ROB[j].dsts
          /\ W[v] = ROB[j].dsts[v[2]]
      BY <2>0, <2>1, ResultPlace
    <3> HIDE DEF j, W
    <3>2. ra.file[ROB[j].dsts[v[2]]].arch = program[ROB[j].id].dsts[v[2]]
      BY <2>2, <3>1 DEF Renamed
    <3>3. ROB[j].id = v[1]
      BY <2>1, <3>1
    <3>4. QED
      BY <3>1, <3>2, <3>3
  <2>5. ASSUME NEW k \in DOMAIN ROB[i].srcs
        PROVE  LET reg == program[id].srcs[k]
                   writers == {w \in DOMAIN W : /\ w[1] < id
                                                /\ program[w[1]].dsts[w[2]] = reg}
                   last == CHOOSE w \in writers : \A v \in writers : ~Before(w, v)
               IN  /\ ROB[i].srcs[k] = IF writers = {} THEN ra.backend[reg] ELSE W[last]
                   /\ ROB[i].executed => isValid(ra, ROB[i].srcs[k])
    <3> DEFINE reg == program[id].srcs[k]
               p == ROB[i].srcs[k]
               writers == {w \in DOMAIN W : w[1] < id /\ program[w[1]].dsts[w[2]] = reg}
               last == CHOOSE w \in writers : \A v \in writers : ~Before(w, v)
    <3>1. Resolves(ra, W, id, reg, p) /\ (ROB[i].executed => isValid(ra, p))
      BY <2>2, <2>5 DEF Renamed, isValid
    <3>2. \A w : w \in writers <=> w \in DOMAIN W /\ w[1] < id /\ ra.file[W[w]].arch = reg
      BY <2>4
    <3> HIDE DEF reg, p, W, id
    <3>3. p = IF writers = {} THEN ra.backend[reg] ELSE W[last]
      <4>1. CASE /\ p = ra.backend[reg]
                 /\ \A v \in DOMAIN W : v[1] < id => ra.file[W[v]].arch # reg
        <5>1. writers = {}
          BY <3>2, <4>1
        <5>2. QED
          BY <4>1, <5>1
      <4>2. CASE \E v \in DOMAIN W :
                    /\ v[1] < id /\ p = W[v] /\ ra.file[W[v]].arch = reg
                    /\ \A u \in DOMAIN W : (u[1] < id /\ ra.file[W[u]].arch = reg) => ~Before(v, u)
        <5>1. PICK v \in DOMAIN W :
                 /\ v[1] < id /\ p = W[v] /\ ra.file[W[v]].arch = reg
                 /\ \A u \in DOMAIN W : (u[1] < id /\ ra.file[W[u]].arch = reg) => ~Before(v, u)
          BY <4>2
        <5>2. v \in writers /\ \A u \in writers : ~Before(v, u)
          BY <3>2, <5>1
        <5>3. \A u \in writers : u \in Nat \X Nat
          BY <2>4, <3>2
        <5> HIDE DEF writers
        <5>4. last \in writers /\ \A u \in writers : ~Before(last, u)
          BY <5>2, Zenon
        <5> HIDE DEF last
        <5>5. last = v
          BY <5>2, <5>3, <5>4, ResultOrder
        <5>6. QED
          BY <5>1, <5>2, <5>5
      <4>3. QED
        BY <3>1, <4>1, <4>2 DEF Resolves
    <3>4. QED
      BY <3>1, <3>3 DEF reg, p, W, id
  <2>6. QED
    BY <2>3, <2>5
<1>2. QED
  BY <1>1, BackendInvariant, PTL
=============================================================================

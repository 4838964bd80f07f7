----------------------------- MODULE DRAMProofs -----------------------------
(***************************************************************************)
(* The safety of the DRAM controller, for any number of upper levels,      *)
(* lines, banks and slots, and for all latencies.                          *)
(***************************************************************************)
EXTENDS DRAM, SequenceCounts

\* What an upper level asks for.
Request == [line : Line, response_requested : BOOLEAN]

\* The channel of an upper level.
UpperChannel == ChannelOf(Request, Line)

\* The requests for a line that want an answer, and the packets that owe it to u.
Wants(line) == {r \in Request : r.line = line /\ r.response_requested}
Owes(u, line) == {p \in Packet : p.line = line /\ u \in p.to_return}

\* The packet that add_rq or add_wq makes of a request.
NewPacket(r, to_return) ==
    [line |-> r.line, forward_checked |-> FALSE, scheduled |-> FALSE, age |-> 0,
     to_return |-> to_return]

-----------------------------------------------------------------------------
(* add_rq, add_wq. *)

\* n slots.
SlotsOf(n) == {q \in Seq(SlotType) : Len(q) = n}

\* A function from the places to slots or packets is a sequence of slots.
LEMMA SlotsAreSequence ==
  ASSUME NEW n \in Nat, NEW q
  PROVE  q \in SlotsOf(n) <=> q \in [1 .. n -> SlotType]
<1>1. ASSUME q \in SlotsOf(n)
      PROVE  q \in [1 .. n -> SlotType]
  BY <1>1, LenProperties DEF SlotsOf
<1>2. ASSUME q \in [1 .. n -> SlotType]
      PROVE  q \in SlotsOf(n)
  BY <1>2, FunctionIsSequence DEF SlotsOf
<1>3. QED
  BY <1>1, <1>2

\* The length of the slots, and what is in one.
LEMMA SlotFacts ==
  ASSUME NEW n \in Nat, NEW q \in SlotsOf(n)
  PROVE  /\ q \in Seq(SlotType) /\ Len(q) = n /\ DOMAIN q = 1 .. n
         /\ \A i \in 1 .. n : q[i] \in SlotType
<1>1. q \in Seq(SlotType) /\ Len(q) = n
  BY DEF SlotsOf
<1>2. QED
  BY <1>1, LenProperties

\* x takes the place of what slot i held.
Put(q, i, x) == [q EXCEPT ![i] = x]

\* What Put leaves: the other slots, and the counts but for the two packets.
LEMMA SlotReplaced ==
  ASSUME NEW n \in Nat, NEW q \in SlotsOf(n), NEW i \in 1 .. n, NEW x \in SlotType
  PROVE  /\ Put(q, i, x) \in SlotsOf(n)
         /\ \A j \in 1 .. n : Put(q, i, x)[j] = IF j = i THEN x ELSE q[j]
         /\ \A D : /\ Count(Put(q, i, x), D) \in Nat /\ Count(q, D) \in Nat
                   /\ Count(Put(q, i, x), D) + One(q[i] \in D) = Count(q, D) + One(x \in D)
<1> DEFINE t == [q EXCEPT ![i] = x]
<1>1. q \in Seq(SlotType)
  BY SlotFacts
<1>2. Len(q) = n
  BY SlotFacts
<1>3. i \in 1 .. Len(q)
  BY <1>2
<1>4. /\ t \in Seq(SlotType) /\ Len(t) = Len(q)
      /\ \A j \in 1 .. Len(q) : t[j] = IF j = i THEN x ELSE q[j]
      /\ \A D : Count(t, D) + One(q[i] \in D) = Count(q, D) + One(x \in D)
  BY <1>1, <1>3, CountReplaced
<1> HIDE DEF t
<1>5. \A D : Count(t, D) \in Nat /\ Count(q, D) \in Nat
  BY <1>1, <1>4, CountType
<1>6. t \in SlotsOf(n)
  BY <1>2, <1>4 DEF SlotsOf
<1>7. t = Put(q, i, x)
  BY DEF t, Put
<1>8. QED
  BY <1>2, <1>4, <1>5, <1>6, <1>7

\* A new packet goes to an empty slot.
LEMMA Added ==
  ASSUME NEW n \in Nat, NEW q \in SlotsOf(n), Occupied(q) # DOMAIN q,
         NEW r \in Request, NEW to_return \in SUBSET Upper
  PROVE  /\ NewPacket(r, to_return) \in Packet
         /\ \E i \in 1 .. n : /\ q[i] = NoPacket
                              /\ Add(q, r, to_return) = Put(q, i, NewPacket(r, to_return))
<1> DEFINE empty == DOMAIN q \ Occupied(q)
<1>1. empty \subseteq Nat /\ empty # {} /\ DOMAIN q = 1 .. n
  <2>1. DOMAIN q = 1 .. n
    BY SlotFacts
  <2>2. QED
    BY <2>1 DEF Occupied
<1>2. Smallest(empty) \in empty
  <2> HIDE DEF empty
  <2>1. \E x \in empty : \A y \in empty : x <= y
    BY <1>1, SmallestOf
  <2>2. QED
    BY <2>1 DEF Smallest
<1>3. q[Smallest(empty)] = NoPacket /\ Smallest(empty) \in 1 .. n
  BY <1>1, <1>2 DEF Occupied
<1>4. Add(q, r, to_return) = Put(q, Smallest(empty), NewPacket(r, to_return))
  BY DEF Add, NewPacket, Put
<1>5. NewPacket(r, to_return) \in Packet
  BY DEF NewPacket, Packet, Request
<1>6. QED
  BY <1>3, <1>4, <1>5

\* The slots r are the slots q with some empty ones filled by new packets.
Filled(q, r) ==
    \A i \in DOMAIN q :
       \/ r[i] = q[i]
       \/ q[i] = NoPacket /\ r[i] \in Packet /\ ~r[i].scheduled

\* No packet in the slots has anyone to answer.
Silent(q) == \A i \in DOMAIN q : q[i] # NoPacket => q[i].to_return = {}

\* No slot is taken.
Empty(q) == \A i \in DOMAIN q : q[i] = NoPacket

\* After k of the requests in queue: all of them are in, or no slot is empty.
AddInv(n, slots, u, queue, k, filled, added) ==
    /\ filled \in SlotsOf(n)
    /\ added \in 0 .. k
    /\ added = k \/ Occupied(filled) = DOMAIN filled
    /\ Filled(slots, filled)
    /\ \A v \in Upper, line \in Line :
          Count(filled, Owes(v, line)) =
             Count(slots, Owes(v, line))
               + IF v = u THEN Count(SubSeq(queue, 1, added), Wants(line)) ELSE 0
    /\ Silent(slots) /\ (\A j \in 1 .. Len(queue) : ~queue[j].response_requested)
          => Silent(filled)

\* One request more.
LEMMA AddOneStep ==
  ASSUME NEW n \in Nat, NEW slots \in SlotsOf(n), NEW u \in Upper,
         NEW queue \in Seq(Request), NEW k \in 1 .. Len(queue), NEW filled, NEW added,
         AddInv(n, slots, u, queue, k - 1, filled, added)
  PROVE  LET z == AddOne([slots |-> filled, added |-> added], u, queue[k])
         IN  AddInv(n, slots, u, queue, k, z.slots, z.added)
<1> DEFINE r == queue[k]
           to == IF r.response_requested THEN {u} ELSE {}
           z == AddOne([slots |-> filled, added |-> added], u, r)
<1>1. /\ filled \in SlotsOf(n) /\ added \in 0 .. k - 1
      /\ added = k - 1 \/ Occupied(filled) = DOMAIN filled
      /\ Filled(slots, filled)
  BY DEF AddInv
<1>2. r \in Request /\ to \in SUBSET Upper /\ Len(queue) \in Nat
  BY LenProperties
<1>3. DOMAIN filled = 1 .. n /\ DOMAIN slots = 1 .. n
  BY <1>1, SlotFacts
<1>4. CASE Occupied(filled) = DOMAIN filled
  <2>1. z.slots = filled /\ z.added = added
    BY <1>4 DEF AddOne
  <2>2. added \in 0 .. k
    BY <1>1
  <2> HIDE DEF z
  <2>3. AddInv(n, slots, u, queue, k, filled, added)
    BY <2>2, <1>4 DEF AddInv
  <2>4. QED
    BY <2>1, <2>3 DEF z
<1>5. CASE Occupied(filled) # DOMAIN filled
  <2> DEFINE new == NewPacket(r, to)
  <2>1. PICK i \in 1 .. n : filled[i] = NoPacket /\ Add(filled, r, to) = Put(filled, i, new)
    <3> HIDE DEF r, to
    <3>1. QED
      BY <1>1, <1>2, <1>5, Added
  <2> DEFINE t == Put(filled, i, new)
  <2>2. new \in Packet /\ new \in SlotType /\ new # NoPacket
    <3>1. new \in Packet
      BY <1>2 DEF NewPacket, Packet, Request
    <3>2. QED
      BY <3>1, NoPacketAssumption DEF SlotType
  <2>3. added = k - 1
    BY <1>1, <1>5
  <2>4. z.slots = t /\ z.added = k
    <3>1. z = [slots |-> Add(filled, r, to), added |-> added + 1]
      BY <1>5 DEF AddOne
    <3>2. added + 1 = k
      BY <2>3
    <3> HIDE DEF z, r, to, new
    <3>3. QED
      BY <3>1, <3>2, <2>1
  <2>5. new.line = r.line /\ new.to_return = to /\ ~new.scheduled
    BY DEF NewPacket
  <2> HIDE DEF new, z
  <2>6. /\ t \in SlotsOf(n)
        /\ \A j \in 1 .. n : t[j] = IF j = i THEN new ELSE filled[j]
        /\ \A D : /\ Count(t, D) \in Nat /\ Count(filled, D) \in Nat
                  /\ Count(t, D) + One(filled[i] \in D) = Count(filled, D) + One(new \in D)
    <3>1. filled \in SlotsOf(n) /\ i \in 1 .. n
      BY <1>1, <2>1
    <3>2. QED
      BY <2>2, <3>1, SlotReplaced
  <2> HIDE DEF t
  <2>7. Filled(slots, t)
    <3> SUFFICES ASSUME NEW j \in 1 .. n
                 PROVE  \/ t[j] = slots[j]
                        \/ slots[j] = NoPacket /\ t[j] \in Packet /\ ~t[j].scheduled
      BY <1>3 DEF Filled
    <3>1. CASE j = i
      <4>1. slots[j] = NoPacket
        BY <3>1, <2>1, <1>1, <1>3, NoPacketAssumption DEF Filled
      <4>2. t[j] = new
        BY <3>1, <2>6
      <4>3. QED
        BY <4>1, <4>2, <2>2, <2>5
    <3>2. CASE j # i
      <4>1. t[j] = filled[j]
        BY <3>2, <2>6
      <4>2. QED
        BY <4>1, <1>1, <1>3 DEF Filled
    <3>3. QED
      BY <3>1, <3>2
  <2>8. ASSUME NEW v \in Upper, NEW line \in Line
        PROVE  Count(t, Owes(v, line)) =
                  Count(slots, Owes(v, line))
                    + IF v = u THEN Count(SubSeq(queue, 1, k), Wants(line)) ELSE 0
    <3>1. slots \in Seq(SlotType)
      BY SlotFacts
    <3>2. /\ Count(t, Owes(v, line)) = Count(filled, Owes(v, line)) + One(new \in Owes(v, line))
          /\ Count(filled, Owes(v, line)) \in Nat
      <4>1. /\ Count(t, Owes(v, line)) + One(NoPacket \in Owes(v, line)) =
                 Count(filled, Owes(v, line)) + One(new \in Owes(v, line))
            /\ Count(t, Owes(v, line)) \in Nat /\ Count(filled, Owes(v, line)) \in Nat
        BY <2>1, <2>6
      <4>2. One(NoPacket \in Owes(v, line)) = 0
        BY NoPacketAssumption DEF Owes, One
      <4>3. One(new \in Owes(v, line)) \in Nat
        BY DEF One
      <4>4. QED
        BY <4>1, <4>2, <4>3
    <3>3. Count(filled, Owes(v, line)) = Count(slots, Owes(v, line))
             + IF v = u THEN Count(SubSeq(queue, 1, k - 1), Wants(line)) ELSE 0
      BY <2>3 DEF AddInv
    <3>4. Count(slots, Owes(v, line)) \in Nat
      BY <3>1, CountType
    <3>5. CASE v # u
      <4>1. One(new \in Owes(v, line)) = 0
        BY <3>5, <2>5 DEF Owes, One
      <4>2. QED
        BY <3>2, <3>3, <3>4, <3>5, <4>1
    <3>6. CASE v = u
      <4> DEFINE a == SubSeq(queue, 1, k - 1)
                 b == SubSeq(queue, 1, k)
      <4>1. a \in Seq(Request) /\ Count(b, Wants(line)) = Count(a, Wants(line)) + One(r \in Wants(line))
        BY CountUpTo
      <4>2. One(new \in Owes(v, line)) = One(r \in Wants(line))
        <5>1. new \in Owes(v, line) <=> r \in Wants(line)
          BY <2>2, <2>5, <1>2, <3>6 DEF Owes, Wants
        <5>2. QED
          BY <5>1 DEF One
      <4>3. Count(a, Wants(line)) \in Nat /\ One(r \in Wants(line)) \in Nat
        BY <4>1, CountType DEF One
      <4> HIDE DEF a, b, r
      <4>4. Count(t, Owes(v, line)) = Count(slots, Owes(v, line)) + Count(b, Wants(line))
        BY <3>2, <3>3, <3>4, <3>6, <4>1, <4>2, <4>3 DEF a
      <4>5. QED
        BY <4>4, <3>6 DEF b
    <3>7. QED
      BY <3>5, <3>6
  <2>9. ASSUME Silent(slots), \A j \in 1 .. Len(queue) : ~queue[j].response_requested
        PROVE  Silent(t)
    <3>1. Silent(filled) /\ to = {}
      BY <2>9 DEF AddInv
    <3>2. DOMAIN t = 1 .. n
      BY <2>6, SlotFacts
    <3>3. QED
      BY <3>1, <3>2, <1>3, <2>5, <2>6 DEF Silent
  <2>10. AddInv(n, slots, u, queue, k, t, k)
    <3>1. k \in 0 .. k
      OBVIOUS
    <3>2. QED
      BY <3>1, <2>6, <2>7, <2>8, <2>9 DEF AddInv
  <2>11. QED
    BY <2>4, <2>10 DEF z
<1>6. QED
  BY <1>4, <1>5

\* At the start.
LEMMA AddNone ==
  ASSUME NEW n \in Nat, NEW slots \in SlotsOf(n), NEW u, NEW queue \in Seq(Request)
  PROVE  AddInv(n, slots, u, queue, 0, slots, 0)
<1>1. Filled(slots, slots)
  BY DEF Filled
<1>2. ASSUME NEW v \in Upper, NEW line \in Line
      PROVE  Count(slots, Owes(v, line)) =
                Count(slots, Owes(v, line))
                  + IF v = u THEN Count(SubSeq(queue, 1, 0), Wants(line)) ELSE 0
  <2>1. Count(slots, Owes(v, line)) \in Nat
    <3>1. slots \in Seq(SlotType)
      BY SlotFacts
    <3>2. QED
      BY <3>1, CountType
  <2>2. SubSeq(queue, 1, 0) = << >>
    BY SubSeqEmpty
  <2>3. Count(SubSeq(queue, 1, 0), Wants(line)) = 0
    BY <2>2, CountEmpty
  <2>4. QED
    BY <2>1, <2>3
<1>3. QED
  BY <1>1, <1>2 DEF AddInv

\* A value of the fold: slots, and how many requests are in.
Adding(n) == [slots : SlotsOf(n), added : Nat]

\* A step of add_rq or add_wq leaves as many slots.
LEMMA AddOneType ==
  ASSUME NEW n \in Nat, NEW y \in Adding(n), NEW u \in Upper, NEW r \in Request
  PROVE  AddOne(y, u, r) \in Adding(n)
<1> DEFINE to == IF r.response_requested THEN {u} ELSE {}
           new == NewPacket(r, to)
<1>1. y.slots \in SlotsOf(n) /\ y.added + 1 \in Nat /\ to \in SUBSET Upper
  BY DEF Adding
<1>2. CASE Occupied(y.slots) = DOMAIN y.slots
  BY <1>2 DEF AddOne
<1>3. CASE Occupied(y.slots) # DOMAIN y.slots
  <2> HIDE DEF to
  <2>1. PICK i \in 1 .. n : Add(y.slots, r, to) = Put(y.slots, i, new)
    BY <1>1, <1>3, Added
  <2>2. new \in SlotType
    BY <1>1 DEF NewPacket, Packet, Request, SlotType
  <2> HIDE DEF new
  <2>3. Put(y.slots, i, new) \in SlotsOf(n)
    BY <1>1, <2>2, SlotReplaced
  <2>4. AddOne(y, u, r) = [slots |-> Put(y.slots, i, new), added |-> y.added + 1]
    BY <1>3, <2>1 DEF AddOne, to
  <2>5. QED
    BY <1>1, <2>3, <2>4 DEF Adding
<1>4. QED
  BY <1>2, <1>3

\* add_rq or add_wq for one request after the other.
LEMMA AddAllSteps ==
  ASSUME NEW n \in Nat, NEW slots \in SlotsOf(n), NEW u \in Upper, NEW queue \in Seq(Request)
  PROVE  \E it :
            /\ AddAll(slots, u, queue) = it[1 .. Len(queue)]
            /\ it[1 .. 0] = [slots |-> slots, added |-> 0]
            /\ \A k \in 1 .. Len(queue) : it[1 .. k] = AddOne(it[1 .. k - 1], u, queue[k])
<1> DEFINE m == Len(queue)
           T == Adding(n)
           b == [slots |-> slots, added |-> 0]
           F == [z \in T \X (1 .. m) |-> AddOne(z[1], u, queue[z[2]])]
<1>1. m \in Nat /\ DOMAIN queue = 1 .. m /\ \A k \in 1 .. m : queue[k] \in Request
  BY LenProperties
<1>2. b \in T
  BY DEF Adding
<1> HIDE DEF T, b, m
<1>3. F \in [T \X (1 .. m) -> T]
  BY <1>1, AddOneType DEF T
<1>4. PICK jt \in [SUBSET (1 .. m) -> T] : FoldsTo(jt, m, b, F)
  <2> HIDE DEF F
  <2>1. QED
    BY <1>1, <1>2, <1>3, FoldExists
<1>5. jt = [s \in SUBSET DOMAIN queue |->
               IF s = {} THEN b ELSE AddOne(jt[s \ {Max(s)}], u, queue[Max(s)])]
  <2>1. ASSUME NEW s \in SUBSET (1 .. m), s # {}
        PROVE  F[<<jt[s \ {Top(s)}], Top(s)>>] = AddOne(jt[s \ {Max(s)}], u, queue[Max(s)])
    <3>1. Top(s) \in 1 .. m
      BY <2>1, <1>1, TopOf
    <3>2. jt[s \ {Top(s)}] \in T
      BY <1>4
    <3>3. Max(s) = Top(s)
      BY DEF Max, Top
    <3>4. QED
      BY <3>1, <3>2, <3>3
  <2> HIDE DEF F
  <2>2. \A s \in SUBSET (1 .. m) :
           jt[s] = IF s = {} THEN b ELSE F[<<jt[s \ {Top(s)}], Top(s)>>]
    BY <1>4 DEF FoldsTo
  <2>3. QED
    BY <2>1, <2>2, <1>1, <1>4
<1>6. PICK it : /\ it = [s \in SUBSET DOMAIN queue |->
                            IF s = {} THEN b ELSE AddOne(it[s \ {Max(s)}], u, queue[Max(s)])]
                /\ AddAll(slots, u, queue) = it[DOMAIN queue]
  BY <1>5, Zenon DEF AddAll, FoldLeft, MapThenFoldSet, b
<1>7. it[1 .. 0] = b
  <2>1. 1 .. 0 = {} /\ {} \in SUBSET DOMAIN queue
    OBVIOUS
  <2>2. QED
    BY <1>6, <2>1
<1>8. ASSUME NEW k \in 1 .. m
      PROVE  it[1 .. k] = AddOne(it[1 .. k - 1], u, queue[k])
  <2>1. /\ Top(1 .. k) = k /\ (1 .. k) \ {k} = 1 .. k - 1 /\ 1 .. k # {}
        /\ 1 .. k \in SUBSET DOMAIN queue
    <3>1. k \in Nat \ {0} /\ 1 .. k \in SUBSET (1 .. m)
      BY <1>1
    <3>2. QED
      BY <1>1, <3>1, TopOfFirst
  <2>2. Max(1 .. k) = k
    BY <2>1 DEF Max, Top
  <2>3. it[1 .. k] = AddOne(it[(1 .. k) \ {Max(1 .. k)}], u, queue[Max(1 .. k)])
    BY <1>6, <2>1
  <2>4. QED
    BY <2>1, <2>2, <2>3
<1>9. QED
  BY <1>1, <1>6, <1>7, <1>8 DEF m, b

\* What becomes of the slots, and of the requests.
LEMMA AddAllResult ==
  ASSUME NEW n \in Nat, NEW slots \in SlotsOf(n), NEW u \in Upper, NEW queue \in Seq(Request)
  PROVE  LET end == AddAll(slots, u, queue)
         IN  AddInv(n, slots, u, queue, Len(queue), end.slots, end.added)
<1> DEFINE m == Len(queue)
<1>1. m \in Nat /\ \A k \in 1 .. m : queue[k] \in Request
  BY LenProperties
<1> HIDE DEF m
<1>2. PICK it : /\ AddAll(slots, u, queue) = it[1 .. m]
                /\ it[1 .. 0] = [slots |-> slots, added |-> 0]
                /\ \A k \in 1 .. m : it[1 .. k] = AddOne(it[1 .. k - 1], u, queue[k])
  BY AddAllSteps DEF m
<1> DEFINE S == {k \in 0 .. m : it[1 .. k] \in Adding(n)
                                /\ AddInv(n, slots, u, queue, k, it[1 .. k].slots, it[1 .. k].added)}
<1>3. 0 \in S
  <2>1. it[1 .. 0] \in Adding(n)
    BY <1>2 DEF Adding
  <2>2. AddInv(n, slots, u, queue, 0, it[1 .. 0].slots, it[1 .. 0].added)
    <3>1. it[1 .. 0].slots = slots /\ it[1 .. 0].added = 0
      BY <1>2
    <3>2. QED
      BY <3>1, AddNone
  <2>3. QED
    BY <1>1, <2>1, <2>2
<1>4. ASSUME NEW k \in 1 .. m, k - 1 \in S
      PROVE  k \in S
  <2> DEFINE y == it[1 .. k - 1]
  <2>1. y \in Adding(n) /\ AddInv(n, slots, u, queue, k - 1, y.slots, y.added)
    BY <1>4
  <2>2. it[1 .. k] = AddOne(y, u, queue[k])
    BY <1>2
  <2> HIDE DEF y, S
  <2>3. y = [slots |-> y.slots, added |-> y.added]
    BY <2>1 DEF Adding
  <2>4. it[1 .. k] \in Adding(n)
    BY <1>1, <2>1, <2>2, AddOneType
  <2>5. AddInv(n, slots, u, queue, k, it[1 .. k].slots, it[1 .. k].added)
    <3> DEFINE z == AddOne([slots |-> y.slots, added |-> y.added], u, queue[k])
    <3>1. k \in 1 .. Len(queue)
      BY DEF m
    <3>2. AddInv(n, slots, u, queue, k, z.slots, z.added)
      BY <2>1, <3>1, AddOneStep
    <3>3. it[1 .. k] = z
      BY <2>2, <2>3
    <3>4. QED
      BY <3>2, <3>3
  <2>6. k \in 0 .. m
    BY <1>1
  <2>7. QED
    BY <2>4, <2>5, <2>6 DEF S
<1>5. m \in S
  <2> HIDE DEF S
  <2>1. m \in 0 .. m
    BY <1>1
  <2>2. QED
    BY <1>1, <1>3, <1>4, <2>1, UpTo
<1>6. QED
  BY <1>2, <1>5 DEF m

-----------------------------------------------------------------------------
(* initiate_requests. *)

\* The answers that u is owed for a line: asked for in a queue, in a slot, or on
\* their way back.
Owed(up, rq, u, line) ==
    Count(up[u].RQ, Wants(line)) + Count(up[u].PQ, Wants(line))
      + Count(rq, Owes(u, line)) + Count(up[u].returned, {line})

\* The writes of the upper levels want no answer.
QuietWrites(up) ==
    \A u \in Upper : \A i \in 1 .. Len(up[u].WQ) : ~up[u].WQ[i].response_requested

\* The channels of all upper levels, and their queues of reads.
Uppers == [Upper -> UpperChannel]

ReadQueues == {"RQ", "PQ"}

\* The queues of one upper level.
LEMMA UpperFacts ==
  ASSUME NEW up \in Uppers, NEW u \in Upper
  PROVE  /\ up[u] \in UpperChannel
         /\ \A q \in RequestQueues : up[u][q] \in Seq(Request)
         /\ up[u].RQ \in Seq(Request) /\ up[u].PQ \in Seq(Request) /\ up[u].WQ \in Seq(Request)
         /\ up[u].returned \in Seq(Line)
         /\ up[u]["RQ"] = up[u].RQ /\ up[u]["PQ"] = up[u].PQ /\ up[u].WQ = up[u].WQ
<1>1. up[u] \in UpperChannel
  BY DEF Uppers
<1> DEFINE c == up[u]
<1> HIDE DEF c
<1>2. /\ \A q \in RequestQueues : c[q] \in Seq(Request)
      /\ c.RQ \in Seq(Request) /\ c.PQ \in Seq(Request) /\ c.WQ \in Seq(Request)
      /\ c.returned \in Seq(Line)
      /\ c["RQ"] = c.RQ /\ c["PQ"] = c.PQ /\ c["WQ"] = c.WQ
  BY <1>1 DEF c, UpperChannel, ChannelOf, RequestQueues
<1>3. QED
  BY <1>1, <1>2 DEF c

\* It is a number.
LEMMA OwedIsNumber ==
  ASSUME NEW up \in Uppers, NEW rq \in Seq(SlotType), NEW u \in Upper, NEW line \in Line
  PROVE  Owed(up, rq, u, line) \in Nat
<1> DEFINE a == Count(up[u].RQ, Wants(line))
           b == Count(up[u].PQ, Wants(line))
           c == Count(rq, Owes(u, line))
           d == Count(up[u].returned, {line})
<1>1. a \in Nat /\ b \in Nat /\ c \in Nat /\ d \in Nat
  BY UpperFacts, CountType
<1>2. Owed(up, rq, u, line) = a + b + c + d
  BY DEF Owed
<1> HIDE DEF a, b, c, d
<1>3. QED
  BY <1>1, <1>2

\* Only the queue that requests leave is changed.
LEMMA RestFacts ==
  ASSUME NEW up \in Uppers, NEW u \in Upper, NEW q \in RequestQueues,
         NEW n \in 0 .. Len(up[u][q])
  PROVE  /\ Rest(up, u, q, n) \in Uppers
         /\ \A v \in Upper, p \in RequestQueues :
               Rest(up, u, q, n)[v][p] =
                  IF v = u /\ p = q THEN SubSeq(up[u][q], n + 1, Len(up[u][q])) ELSE up[v][p]
         /\ \A v \in Upper : Rest(up, u, q, n)[v].returned = up[v].returned
<1> DEFINE s == SubSeq(up[u][q], n + 1, Len(up[u][q]))
           c == [up[u] EXCEPT ![q] = s]
           r == Rest(up, u, q, n)
<1>1. up[u] \in UpperChannel /\ up[u][q] \in Seq(Request)
  BY UpperFacts
<1>2. s \in Seq(Request)
  BY <1>1, CountSplit
<1> HIDE DEF s
<1>3. /\ c \in UpperChannel /\ c.returned = up[u].returned
      /\ \A p \in RequestQueues : c[p] = IF p = q THEN s ELSE up[u][p]
  BY <1>1, <1>2, QueueAssigned DEF UpperChannel
<1>4. r = [up EXCEPT ![u] = c]
  BY DEF Rest, s, Uppers
<1> HIDE DEF c, r
<1>5. r \in Uppers /\ \A v \in Upper : r[v] = IF v = u THEN c ELSE up[v]
  BY <1>3, <1>4 DEF Uppers
<1>6. QED
  BY <1>3, <1>5 DEF r, s

\* Reads or prefetches of u move into the read slots.
LEMMA MovedReads ==
  ASSUME NEW n \in Nat, NEW up \in Uppers, NEW rq \in SlotsOf(n), NEW u \in Upper, NEW q \in ReadQueues
  PROVE  LET end == AddAll(rq, u, up[u][q])
             r == Rest(up, u, q, end.added)
         IN  /\ r \in Uppers /\ end.slots \in SlotsOf(n) /\ Filled(rq, end.slots)
             /\ QuietWrites(up) => QuietWrites(r)
             /\ \A v \in Upper, line \in Line : Owed(r, end.slots, v, line) = Owed(up, rq, v, line)
<1> DEFINE end == AddAll(rq, u, up[u][q])
           new == end.slots
           k == end.added
           r == Rest(up, u, q, k)
<1>1. up[u][q] \in Seq(Request) /\ q \in RequestQueues
  BY UpperFacts DEF RequestQueues, ReadQueues
<1>2. AddInv(n, rq, u, up[u][q], Len(up[u][q]), new, k)
  BY <1>1, AddAllResult
<1> HIDE DEF end
<1>3. k \in 0 .. Len(up[u][q]) /\ new \in SlotsOf(n) /\ Filled(rq, new)
  BY <1>2 DEF AddInv
<1> HIDE DEF new, k, r
<1>4. /\ r \in Uppers
      /\ \A v \in Upper, p \in RequestQueues :
            r[v][p] = IF v = u /\ p = q THEN SubSeq(up[u][q], k + 1, Len(up[u][q])) ELSE up[v][p]
      /\ \A v \in Upper : r[v].returned = up[v].returned
  BY <1>1, <1>3, RestFacts DEF r
<1>5. ASSUME QuietWrites(up)
      PROVE  QuietWrites(r)
  <2>1. \A v \in Upper : r[v].WQ = up[v].WQ
    <3> SUFFICES ASSUME NEW v \in Upper PROVE r[v].WQ = up[v].WQ
      OBVIOUS
    <3>1. r[v]["WQ"] = up[v]["WQ"]
      BY <1>4 DEF RequestQueues, ReadQueues
    <3>2. r[v]["WQ"] = r[v].WQ /\ up[v]["WQ"] = up[v].WQ
      BY <1>4, UpperFacts
    <3>3. QED
      BY <3>1, <3>2
  <2>2. QED
    BY <2>1, <1>5 DEF QuietWrites
<1>6. ASSUME NEW v \in Upper, NEW line \in Line
      PROVE  Owed(r, new, v, line) = Owed(up, rq, v, line)
  <2> DEFINE a == Count(up[u][q], Wants(line))
             b == Count(SubSeq(up[u][q], k + 1, Len(up[u][q])), Wants(line))
             front == Count(SubSeq(up[u][q], 1, k), Wants(line))
  <2>1. a = front + b /\ front \in Nat /\ b \in Nat /\ a \in Nat
    <3>1. /\ SubSeq(up[u][q], 1, k) \in Seq(Request)
          /\ SubSeq(up[u][q], k + 1, Len(up[u][q])) \in Seq(Request)
          /\ a = front + b
      BY <1>1, <1>3, CountSplit
    <3>2. QED
      BY <3>1, <1>1, CountType
  <2>2. Count(new, Owes(v, line)) = Count(rq, Owes(v, line)) + IF v = u THEN front ELSE 0
    BY <1>2 DEF AddInv
  <2>3. Count(rq, Owes(v, line)) \in Nat
    <3>1. rq \in Seq(SlotType)
      BY SlotFacts
    <3>2. QED
      BY <3>1, CountType
  <2>4. /\ up[v].RQ \in Seq(Request) /\ up[v].PQ \in Seq(Request) /\ up[v].returned \in Seq(Line)
        /\ up[v]["RQ"] = up[v].RQ /\ up[v]["PQ"] = up[v].PQ
    BY UpperFacts
  <2>5. r[v]["RQ"] = r[v].RQ /\ r[v]["PQ"] = r[v].PQ
    BY <1>4, UpperFacts
  <2>6. /\ Count(up[v].RQ, Wants(line)) \in Nat /\ Count(up[v].PQ, Wants(line)) \in Nat
        /\ Count(up[v].returned, {line}) \in Nat
    BY <2>4, CountType
  <2>7. r[v].returned = up[v].returned
    BY <1>4
  <2>8. CASE v # u
    <3>1. r[v].RQ = up[v].RQ /\ r[v].PQ = up[v].PQ
      BY <2>8, <2>4, <2>5, <1>4 DEF RequestQueues
    <3>2. Count(new, Owes(v, line)) = Count(rq, Owes(v, line))
      BY <2>2, <2>3, <2>8
    <3>3. QED
      BY <3>1, <3>2, <2>7 DEF Owed
  <2>9. CASE v = u /\ q = "RQ"
    <3>1. r[v].RQ = SubSeq(up[u][q], k + 1, Len(up[u][q])) /\ r[v].PQ = up[v].PQ
      BY <2>9, <2>4, <2>5, <1>4 DEF RequestQueues
    <3>2. Count(r[v].RQ, Wants(line)) = b /\ Count(up[v].RQ, Wants(line)) = a
      BY <3>1, <2>4, <2>9
    <3> HIDE DEF a, b, front
    <3>3. QED
      BY <3>1, <3>2, <2>1, <2>2, <2>3, <2>6, <2>7, <2>9 DEF Owed
  <2>10. CASE v = u /\ q = "PQ"
    <3>1. r[v].PQ = SubSeq(up[u][q], k + 1, Len(up[u][q])) /\ r[v].RQ = up[v].RQ
      BY <2>10, <2>4, <2>5, <1>4 DEF RequestQueues
    <3>2. Count(r[v].PQ, Wants(line)) = b /\ Count(up[v].PQ, Wants(line)) = a
      BY <3>1, <2>4, <2>10
    <3> HIDE DEF a, b, front
    <3>3. QED
      BY <3>1, <3>2, <2>1, <2>2, <2>3, <2>6, <2>7, <2>10 DEF Owed
  <2>11. QED
    BY <2>8, <2>9, <2>10 DEF ReadQueues
<1>7. QED
  BY <1>3, <1>4, <1>5, <1>6 DEF end, new, k, r

\* Writes of u move into the write slots; nobody waits for them.
LEMMA MovedWrites ==
  ASSUME NEW n \in Nat, NEW up \in Uppers, NEW wq \in SlotsOf(n), NEW u \in Upper,
         QuietWrites(up), Silent(wq)
  PROVE  LET end == AddAll(wq, u, up[u].WQ)
             r == Rest(up, u, "WQ", end.added)
         IN  /\ r \in Uppers /\ end.slots \in SlotsOf(n) /\ Filled(wq, end.slots)
             /\ QuietWrites(r) /\ Silent(end.slots)
             /\ \A any : \A v \in Upper, line \in Line : Owed(r, any, v, line) = Owed(up, any, v, line)
<1> DEFINE end == AddAll(wq, u, up[u].WQ)
           new == end.slots
           k == end.added
           r == Rest(up, u, "WQ", k)
<1>1. up[u].WQ \in Seq(Request) /\ "WQ" \in RequestQueues /\ up[u]["WQ"] = up[u].WQ
  BY UpperFacts DEF RequestQueues
<1>2. AddInv(n, wq, u, up[u].WQ, Len(up[u].WQ), new, k)
  BY <1>1, AddAllResult
<1> HIDE DEF end
<1>3. /\ k \in 0 .. Len(up[u].WQ) /\ new \in SlotsOf(n) /\ Filled(wq, new)
      /\ Silent(new)
  BY <1>1, <1>2 DEF AddInv, QuietWrites
<1> HIDE DEF new, k, r
<1>4. /\ r \in Uppers
      /\ \A v \in Upper, p \in RequestQueues :
            r[v][p] = IF v = u /\ p = "WQ" THEN SubSeq(up[u].WQ, k + 1, Len(up[u].WQ)) ELSE up[v][p]
      /\ \A v \in Upper : r[v].returned = up[v].returned
  BY <1>1, <1>3, RestFacts DEF r
<1>5. QuietWrites(r)
  <2> SUFFICES ASSUME NEW v \in Upper, NEW i \in 1 .. Len(r[v].WQ)
               PROVE  ~r[v].WQ[i].response_requested
    BY DEF QuietWrites
  <2>1. r[v]["WQ"] = r[v].WQ /\ up[v]["WQ"] = up[v].WQ
    BY <1>4, UpperFacts
  <2>2. CASE v # u
    <3>1. r[v].WQ = up[v].WQ
      BY <2>1, <2>2, <1>4 DEF RequestQueues
    <3>2. QED
      BY <3>1 DEF QuietWrites
  <2>3. CASE v = u
    <3> DEFINE s == up[u].WQ
               t == SubSeq(s, k + 1, Len(s))
    <3>1. r[v].WQ = t
      BY <2>1, <2>3, <1>1, <1>4
    <3>2. Len(t) = Len(s) - k /\ \A j \in 1 .. Len(s) - k : t[j] = s[k + j]
      BY <1>1, <1>3, CountSplit
    <3>3. Len(s) \in Nat
      BY <1>1, LenProperties
    <3> HIDE DEF t
    <3>4. i \in 1 .. Len(s) - k
      BY <3>1, <3>2
    <3>5. k + i \in 1 .. Len(s)
      BY <3>3, <3>4, <1>1, <1>3
    <3>6. r[v].WQ[i] = s[k + i]
      BY <3>1, <3>2, <3>4
    <3>7. QED
      BY <3>5, <3>6 DEF QuietWrites
  <2>4. QED
    BY <2>2, <2>3
<1>6. ASSUME NEW rq, NEW v \in Upper, NEW line \in Line
      PROVE  Owed(r, rq, v, line) = Owed(up, rq, v, line)
  <2>1. /\ up[v]["RQ"] = up[v].RQ /\ up[v]["PQ"] = up[v].PQ
        /\ r[v]["RQ"] = r[v].RQ /\ r[v]["PQ"] = r[v].PQ
    BY <1>4, UpperFacts
  <2>2. r[v]["RQ"] = up[v]["RQ"] /\ r[v]["PQ"] = up[v]["PQ"] /\ r[v].returned = up[v].returned
    BY <1>4 DEF RequestQueues
  <2>3. QED
    BY <2>1, <2>2 DEF Owed
<1>7. QED
  BY <1>3, <1>4, <1>5, <1>6 DEF end, new, k, r

\* The queues and slots that initiate_requests passes on.
Moving == [up : Uppers, RQ : SlotsOf(RQ_SIZE), WQ : SlotsOf(WQ_SIZE)]

\* What has moved since the channels were up and the slots rq and wq.
MoveInv(up, rq, wq, x) ==
    /\ x \in Moving
    /\ Filled(rq, x.RQ) /\ Filled(wq, x.WQ)
    /\ QuietWrites(x.up) /\ Silent(x.WQ)
    /\ \A v \in Upper, line \in Line : Owed(x.up, x.RQ, v, line) = Owed(up, rq, v, line)

\* The numbers of slots are numbers.
LEMMA SizesAreNumbers == RQ_SIZE \in Nat \ {0} /\ WQ_SIZE \in Nat \ {0}
BY DRAMAssumption

\* Slots filled twice.
LEMMA FilledTwice ==
  ASSUME NEW n \in Nat, NEW a \in SlotsOf(n), NEW b \in SlotsOf(n), NEW c \in SlotsOf(n),
         Filled(a, b), Filled(b, c)
  PROVE  Filled(a, c)
<1>1. DOMAIN a = 1 .. n /\ DOMAIN b = 1 .. n
  BY SlotFacts
<1>2. QED
  BY <1>1, NoPacketAssumption DEF Filled

\* Moves for reads, prefetches and writes.
LEMMA MoveReadsKeeps ==
  ASSUME NEW up \in Uppers, NEW rq \in SlotsOf(RQ_SIZE), NEW wq, NEW x, MoveInv(up, rq, wq, x),
         NEW u \in Upper, NEW q \in ReadQueues
  PROVE  MoveInv(up, rq, wq, MoveReads(x, u, q))
<1> DEFINE ups == x.up
           old == x.RQ
           end == AddAll(old, u, ups[u][q])
           r == Rest(ups, u, q, end.added)
           z == [up |-> r, RQ |-> end.slots, WQ |-> x.WQ]
<1>1. x \in Moving /\ ups \in Uppers /\ x.RQ \in SlotsOf(RQ_SIZE) /\ x.WQ \in SlotsOf(WQ_SIZE)
      /\ old \in SlotsOf(RQ_SIZE)
  BY DEF MoveInv, Moving
<1>2. MoveReads(x, u, q) = z
  <2>1. MoveReads(x, u, q) = [x EXCEPT !.RQ = end.slots, !.up = r]
    BY DEF MoveReads
  <2> HIDE DEF end, r
  <2>2. QED
    BY <1>1, <2>1 DEF Moving
<1>3. RQ_SIZE \in Nat /\ QuietWrites(ups) /\ Silent(x.WQ) /\ Filled(rq, old) /\ Filled(wq, x.WQ)
      /\ \A v \in Upper, line \in Line : Owed(ups, old, v, line) = Owed(up, rq, v, line)
  BY SizesAreNumbers DEF MoveInv
<1> HIDE DEF ups, old
<1>4. /\ r \in Uppers /\ end.slots \in SlotsOf(RQ_SIZE) /\ Filled(old, end.slots)
      /\ QuietWrites(ups) => QuietWrites(r)
      /\ \A v \in Upper, line \in Line : Owed(r, end.slots, v, line) = Owed(ups, old, v, line)
  <2>1. RQ_SIZE \in Nat /\ ups \in Uppers /\ old \in SlotsOf(RQ_SIZE)
    BY <1>1, <1>3
  <2>2. QED
    BY <2>1, MovedReads
<1> HIDE DEF end, r
<1>5. Filled(rq, end.slots)
  BY <1>1, <1>3, <1>4, FilledTwice
<1>6. z \in Moving /\ z.up = r /\ z.RQ = end.slots /\ z.WQ = x.WQ
  BY <1>1, <1>4 DEF Moving
<1> HIDE DEF z
<1>7. MoveInv(up, rq, wq, z)
  BY <1>1, <1>3, <1>4, <1>5, <1>6 DEF MoveInv
<1>8. QED
  BY <1>2, <1>7

\* MoveWrites keeps what holds of the queues and slots under way.
LEMMA MoveWritesKeeps ==
  ASSUME NEW up, NEW rq, NEW wq \in SlotsOf(WQ_SIZE), NEW x, MoveInv(up, rq, wq, x), NEW u \in Upper
  PROVE  MoveInv(up, rq, wq, MoveWrites(x, u))
<1> DEFINE ups == x.up
           old == x.WQ
           end == AddAll(old, u, ups[u].WQ)
           r == Rest(ups, u, "WQ", end.added)
           z == [up |-> r, RQ |-> x.RQ, WQ |-> end.slots]
<1>1. x \in Moving /\ ups \in Uppers /\ x.RQ \in SlotsOf(RQ_SIZE) /\ x.WQ \in SlotsOf(WQ_SIZE)
      /\ old \in SlotsOf(WQ_SIZE)
  BY DEF MoveInv, Moving
<1>2. MoveWrites(x, u) = z
  <2>1. MoveWrites(x, u) = [x EXCEPT !.WQ = end.slots, !.up = r]
    BY DEF MoveWrites
  <2> HIDE DEF end, r
  <2>2. QED
    BY <1>1, <2>1 DEF Moving
<1>3. WQ_SIZE \in Nat /\ QuietWrites(ups) /\ Silent(old) /\ Filled(rq, x.RQ) /\ Filled(wq, old)
      /\ \A v \in Upper, line \in Line : Owed(ups, x.RQ, v, line) = Owed(up, rq, v, line)
  BY SizesAreNumbers DEF MoveInv
<1> HIDE DEF ups, old
<1>4. /\ r \in Uppers /\ end.slots \in SlotsOf(WQ_SIZE) /\ Filled(old, end.slots)
      /\ QuietWrites(r) /\ Silent(end.slots)
      /\ \A any : \A v \in Upper, line \in Line : Owed(r, any, v, line) = Owed(ups, any, v, line)
  BY <1>1, <1>3, MovedWrites
<1> HIDE DEF end, r
<1>5. Filled(wq, end.slots)
  BY <1>1, <1>3, <1>4, FilledTwice
<1>6. z \in Moving /\ z.up = r /\ z.RQ = x.RQ /\ z.WQ = end.slots
  BY <1>1, <1>4 DEF Moving
<1> HIDE DEF z
<1>7. MoveInv(up, rq, wq, z)
  <2>1. \A v \in Upper, line \in Line : Owed(r, x.RQ, v, line) = Owed(up, rq, v, line)
    BY <1>3, <1>4
  <2>2. QED
    BY <2>1, <1>3, <1>4, <1>5, <1>6 DEF MoveInv
<1>8. QED
  BY <1>2, <1>7

\* One upper level after the other.
LEMMA MoveUpperKeeps ==
  ASSUME NEW up \in Uppers, NEW rq \in SlotsOf(RQ_SIZE), NEW wq \in SlotsOf(WQ_SIZE),
         NEW x, MoveInv(up, rq, wq, x), NEW u \in Upper
  PROVE  MoveInv(up, rq, wq, MoveUpper(x, u))
<1> DEFINE x1 == MoveReads(x, u, "RQ")
           x2 == MoveReads(x1, u, "PQ")
           x3 == MoveWrites(x2, u)
<1>1. MoveInv(up, rq, wq, x1)
  BY MoveReadsKeeps DEF ReadQueues
<1> HIDE DEF x1
<1>2. MoveInv(up, rq, wq, x2)
  BY <1>1, MoveReadsKeeps DEF ReadQueues
<1> HIDE DEF x2
<1>3. MoveInv(up, rq, wq, x3)
  BY <1>2, MoveWritesKeeps
<1>4. MoveUpper(x, u) = x3
  BY DEF MoveUpper, x1, x2
<1>5. QED
  BY <1>3, <1>4

\* The order of the uppers: SetToSeq chooses one.
LEMMA UpperOrder ==
  /\ SetToSeq(Upper) \in Seq(Upper)
  /\ Len(SetToSeq(Upper)) \in Nat
<1> DEFINE n == Cardinality(Upper)
<1>1. n \in Nat /\ ExistsBijection(1 .. n, Upper)
  BY DRAMAssumption, FS_CardinalityType
<1>2. PICK f : f \in [1 .. n -> Upper] /\ \A i, j \in 1 .. n : f[i] = f[j] => i = j
  BY <1>1 DEF ExistsBijection, Bijection, Injection, IsInjective
<1>3. SetToSeq(Upper) \in [1 .. n -> Upper]
  <2>1. \E g \in [1 .. n -> Upper] : IsInjective(g)
    BY <1>2 DEF IsInjective
  <2>2. QED
    BY <2>1 DEF SetToSeq
<1>4. QED
  BY <1>1, <1>3, FunctionIsSequence, LenProperties

\* MoveUpper of any upper keeps the type of the fold's value.
LEMMA MoveUpperType ==
  ASSUME NEW x \in Moving, QuietWrites(x.up), Silent(x.WQ), NEW u \in Upper
  PROVE  /\ MoveUpper(x, u) \in Moving
         /\ QuietWrites(MoveUpper(x, u).up) /\ Silent(MoveUpper(x, u).WQ)
<1>1. x.up \in Uppers /\ x.RQ \in SlotsOf(RQ_SIZE) /\ x.WQ \in SlotsOf(WQ_SIZE)
  BY DEF Moving
<1>2. MoveInv(x.up, x.RQ, x.WQ, x)
  BY DEF MoveInv, Filled
<1>3. MoveInv(x.up, x.RQ, x.WQ, MoveUpper(x, u))
  BY <1>1, <1>2, MoveUpperKeeps
<1>4. QED
  BY <1>3 DEF MoveInv

MovingQuietly == {x \in Moving : QuietWrites(x.up) /\ Silent(x.WQ)}

\* All of initiate_requests: the slots are filled, and nothing that was owed is lost
\* or owed twice.
LEMMA InitiateResult ==
  ASSUME NEW up \in Uppers, NEW rq \in SlotsOf(RQ_SIZE), NEW wq \in SlotsOf(WQ_SIZE),
         QuietWrites(up), Silent(wq)
  PROVE  MoveInv(up, rq, wq,
                 FoldLeft(MoveUpper, [up |-> up, RQ |-> rq, WQ |-> wq], SetToSeq(Upper)))
<1> DEFINE order == SetToSeq(Upper)
           m == Len(order)
           T == MovingQuietly
           b == [up |-> up, RQ |-> rq, WQ |-> wq]
           F == [z \in T \X (1 .. m) |-> MoveUpper(z[1], order[z[2]])]
<1>1. m \in Nat /\ DOMAIN order = 1 .. m /\ \A k \in 1 .. m : order[k] \in Upper
  <2> HIDE DEF order
  <2>1. order \in Seq(Upper) /\ m \in Nat
    BY UpperOrder DEF order
  <2>2. QED
    BY <2>1, LenProperties
<1> HIDE DEF order, m
<1>2. b \in T
  <2>1. b \in Moving /\ b.up = up /\ b.WQ = wq
    BY DEF Moving
  <2> HIDE DEF b
  <2>2. QED
    BY <2>1 DEF MovingQuietly
<1> HIDE DEF b
<1>3. F \in [T \X (1 .. m) -> T]
  <2>1. ASSUME NEW x \in T, NEW u \in Upper
        PROVE  MoveUpper(x, u) \in T
    BY MoveUpperType DEF MovingQuietly
  <2>2. QED
    BY <1>1, <2>1
<1>4. PICK jt \in [SUBSET (1 .. m) -> T] : FoldsTo(jt, m, b, F)
  <2> HIDE DEF F, T
  <2>1. QED
    BY <1>1, <1>2, <1>3, FoldExists
<1>5. jt = [s \in SUBSET DOMAIN order |->
               IF s = {} THEN b ELSE MoveUpper(jt[s \ {Max(s)}], order[Max(s)])]
  <2>1. ASSUME NEW s \in SUBSET (1 .. m), s # {}
        PROVE  F[<<jt[s \ {Top(s)}], Top(s)>>] = MoveUpper(jt[s \ {Max(s)}], order[Max(s)])
    <3>1. Top(s) \in 1 .. m
      BY <2>1, <1>1, TopOf
    <3>2. jt[s \ {Top(s)}] \in T
      BY <1>4
    <3>3. Max(s) = Top(s)
      BY DEF Max, Top
    <3>4. QED
      BY <3>1, <3>2, <3>3
  <2> HIDE DEF F
  <2>2. \A s \in SUBSET (1 .. m) :
           jt[s] = IF s = {} THEN b ELSE F[<<jt[s \ {Top(s)}], Top(s)>>]
    BY <1>4 DEF FoldsTo
  <2>3. QED
    BY <2>1, <2>2, <1>1, <1>4
<1>6. PICK it : /\ it = [s \in SUBSET DOMAIN order |->
                            IF s = {} THEN b ELSE MoveUpper(it[s \ {Max(s)}], order[Max(s)])]
                /\ FoldLeft(MoveUpper, b, order) = it[DOMAIN order]
  BY <1>5, Zenon DEF FoldLeft, MapThenFoldSet
<1>7. it[1 .. 0] = b
  <2>1. 1 .. 0 = {} /\ {} \in SUBSET DOMAIN order
    OBVIOUS
  <2>2. QED
    BY <1>6, <2>1
<1>8. ASSUME NEW k \in 1 .. m
      PROVE  it[1 .. k] = MoveUpper(it[1 .. k - 1], order[k])
  <2>1. /\ Top(1 .. k) = k /\ (1 .. k) \ {k} = 1 .. k - 1 /\ 1 .. k # {}
        /\ 1 .. k \in SUBSET DOMAIN order
    <3>1. k \in Nat \ {0} /\ 1 .. k \in SUBSET (1 .. m)
      BY <1>1
    <3>2. QED
      BY <1>1, <3>1, TopOfFirst
  <2>2. Max(1 .. k) = k
    BY <2>1 DEF Max, Top
  <2>3. it[1 .. k] = MoveUpper(it[(1 .. k) \ {Max(1 .. k)}], order[Max(1 .. k)])
    BY <1>6, <2>1
  <2>4. QED
    BY <2>1, <2>2, <2>3
<1> DEFINE S == {k \in 0 .. m : MoveInv(up, rq, wq, it[1 .. k])}
<1>9. 0 \in S
  <2>1. MoveInv(up, rq, wq, b)
    <3>1. b \in Moving /\ b.up = up /\ b.RQ = rq /\ b.WQ = wq
      BY DEF Moving, b
    <3>2. QED
      BY <3>1 DEF MoveInv, Filled
  <2>2. QED
    BY <2>1, <1>1, <1>7
<1>10. ASSUME NEW k \in 1 .. m, k - 1 \in S
       PROVE  k \in S
  <2>1. MoveInv(up, rq, wq, it[1 .. k - 1]) /\ order[k] \in Upper /\ k \in 0 .. m
    BY <1>1, <1>10
  <2>2. MoveInv(up, rq, wq, MoveUpper(it[1 .. k - 1], order[k]))
    BY <2>1, MoveUpperKeeps
  <2>3. QED
    BY <2>1, <2>2, <1>8
<1>11. m \in S
  <2> HIDE DEF S
  <2>1. m \in 0 .. m
    BY <1>1
  <2>2. QED
    BY <1>1, <1>9, <1>10, <2>1, UpTo
<1>12. QED
  BY <1>1, <1>6, <1>11 DEF b, order

-----------------------------------------------------------------------------
(* Responses. *)

\* A response goes to the uppers of the packet, and to no other.
LEMMA ReturnFacts ==
  ASSUME NEW up \in Uppers, NEW p \in Packet
  PROVE  /\ Return(up, p) \in Uppers
         /\ QuietWrites(up) => QuietWrites(Return(up, p))
         /\ \A any \in Seq(SlotType), u \in Upper, line \in Line :
               /\ Owed(up, any, u, line) \in Nat
               /\ Owed(Return(up, p), any, u, line) =
                     Owed(up, any, u, line) + One(p \in Owes(u, line))
<1> DEFINE r == Return(up, p)
<1>1. p.line \in Line /\ p.to_return \in SUBSET Upper
  BY DEF Packet
<1>2. ASSUME NEW u \in Upper
      PROVE  /\ r[u] \in UpperChannel
             /\ r[u].RQ = up[u].RQ /\ r[u].PQ = up[u].PQ /\ r[u].WQ = up[u].WQ
             /\ r[u].returned = IF u \in p.to_return THEN Append(up[u].returned, p.line)
                                ELSE up[u].returned
  <2> DEFINE c == up[u]
             d == Push(c, "returned", p.line)
  <2>1. c \in ChannelOf(Request, Line)
    BY UpperFacts DEF UpperChannel
  <2>2. r[u] = IF u \in p.to_return THEN d ELSE c
    BY DEF Return
  <2> HIDE DEF c, r
  <2>3. /\ d \in ChannelOf(Request, Line) /\ d.returned = Append(c.returned, p.line)
        /\ \A q \in RequestQueues : d[q] = c[q]
    BY <1>1, <2>1, Answered
  <2> HIDE DEF d
  <2>4. d.RQ = c.RQ /\ d.PQ = c.PQ /\ d.WQ = c.WQ
    <3>1. d["RQ"] = c["RQ"] /\ d["PQ"] = c["PQ"] /\ d["WQ"] = c["WQ"]
      BY <2>3 DEF RequestQueues
    <3>2. QED
      BY <3>1, <2>1, <2>3 DEF ChannelOf
  <2>5. CASE u \in p.to_return
    BY <2>1, <2>2, <2>3, <2>4, <2>5 DEF UpperChannel, c
  <2>6. CASE u \notin p.to_return
    BY <2>1, <2>2, <2>6 DEF UpperChannel, c
  <2>7. QED
    BY <2>5, <2>6
<1>3. r \in Uppers
  <2>1. r = [u \in Upper |-> r[u]]
    BY DEF Return
  <2> HIDE DEF r
  <2>2. QED
    BY <2>1, <1>2 DEF Uppers
<1> HIDE DEF r
<1>4. QuietWrites(up) => QuietWrites(r)
  BY <1>2 DEF QuietWrites
<1>5. ASSUME NEW any \in Seq(SlotType), NEW u \in Upper, NEW line \in Line
      PROVE  /\ Owed(up, any, u, line) \in Nat
             /\ Owed(r, any, u, line) = Owed(up, any, u, line) + One(p \in Owes(u, line))
  <2>1. /\ up[u].RQ \in Seq(Request) /\ up[u].PQ \in Seq(Request) /\ up[u].returned \in Seq(Line)
    BY UpperFacts
  <2>2. /\ Count(up[u].RQ, Wants(line)) \in Nat /\ Count(up[u].PQ, Wants(line)) \in Nat
        /\ Count(up[u].returned, {line}) \in Nat
    BY <2>1, CountType
  <2>3. Count(r[u].returned, {line}) = Count(up[u].returned, {line}) + One(p \in Owes(u, line))
    <3>1. CASE u \in p.to_return
      <4>1. Count(r[u].returned, {line}) = Count(up[u].returned, {line}) + One(p.line \in {line})
        BY <3>1, <1>1, <1>2, <2>1, CountAppend
      <4>2. p.line \in {line} <=> p \in Owes(u, line)
        BY <3>1 DEF Owes
      <4>3. One(p.line \in {line}) = One(p \in Owes(u, line))
        BY <4>2 DEF One
      <4>4. QED
        BY <4>1, <4>3
    <3>2. CASE u \notin p.to_return
      <4>1. One(p \in Owes(u, line)) = 0
        BY <3>2 DEF Owes, One
      <4>2. QED
        BY <4>1, <3>2, <1>2, <2>2
    <3>3. QED
      BY <3>1, <3>2
  <2> DEFINE a == Count(up[u].RQ, Wants(line))
             b == Count(up[u].PQ, Wants(line))
             c == Count(any, Owes(u, line))
             d == Count(up[u].returned, {line})
             e == One(p \in Owes(u, line))
  <2>4. Owed(r, any, u, line) = a + b + c + (d + e)
    BY <2>3, <1>2 DEF Owed
  <2>5. Owed(up, any, u, line) = a + b + c + d
    BY DEF Owed
  <2>6. a \in Nat /\ b \in Nat /\ c \in Nat /\ d \in Nat /\ e \in Nat
    BY <2>2, CountType DEF One
  <2> HIDE DEF a, b, c, d, e
  <2>7. a + b + c + (d + e) = (a + b + c + d) + e /\ a + b + c + d \in Nat
    BY <2>6
  <2>8. QED
    BY <2>4, <2>5, <2>7 DEF e
<1>6. QED
  BY <1>3, <1>4, <1>5 DEF r

\* The fold over slots visits one slot after the other.
LEMMA AnswerSlotSteps ==
  ASSUME NEW up \in Uppers, NEW n \in Nat, NEW rq \in SlotsOf(n)
  PROVE  \E it :
            /\ FoldLeft(AnswerSlot, up, rq) = it[1 .. n]
            /\ it[1 .. 0] = up
            /\ \A k \in 1 .. n : it[1 .. k] = AnswerSlot(it[1 .. k - 1], rq[k])
<1> DEFINE F == [z \in Uppers \X (1 .. n) |-> AnswerSlot(z[1], rq[z[2]])]
<1>1. DOMAIN rq = 1 .. n /\ \A k \in 1 .. n : rq[k] \in SlotType
  BY SlotFacts
<1>2. F \in [Uppers \X (1 .. n) -> Uppers]
  <2>1. ASSUME NEW x \in Uppers, NEW k \in 1 .. n
        PROVE  AnswerSlot(x, rq[k]) \in Uppers
    <3>1. CASE rq[k] = NoPacket
      BY <3>1 DEF AnswerSlot
    <3>2. CASE rq[k] # NoPacket
      <4>1. rq[k] \in Packet
        BY <3>2, <1>1 DEF SlotType
      <4>2. QED
        BY <3>2, <4>1, ReturnFacts DEF AnswerSlot
    <3>3. QED
      BY <3>1, <3>2
  <2>2. QED
    BY <2>1
<1>3. PICK jt \in [SUBSET (1 .. n) -> Uppers] : FoldsTo(jt, n, up, F)
  <2> HIDE DEF F
  <2>1. QED
    BY <1>2, FoldExists
<1>4. jt = [s \in SUBSET DOMAIN rq |->
               IF s = {} THEN up ELSE AnswerSlot(jt[s \ {Max(s)}], rq[Max(s)])]
  <2>1. ASSUME NEW s \in SUBSET (1 .. n), s # {}
        PROVE  F[<<jt[s \ {Top(s)}], Top(s)>>] = AnswerSlot(jt[s \ {Max(s)}], rq[Max(s)])
    <3>1. Top(s) \in 1 .. n
      BY <2>1, TopOf
    <3>2. jt[s \ {Top(s)}] \in Uppers
      BY <1>3
    <3>3. Max(s) = Top(s)
      BY DEF Max, Top
    <3>4. QED
      BY <3>1, <3>2, <3>3
  <2> HIDE DEF F
  <2>2. \A s \in SUBSET (1 .. n) :
           jt[s] = IF s = {} THEN up ELSE F[<<jt[s \ {Top(s)}], Top(s)>>]
    BY <1>3 DEF FoldsTo
  <2>3. QED
    BY <2>1, <2>2, <1>1, <1>3
<1>5. PICK it : /\ it = [s \in SUBSET DOMAIN rq |->
                            IF s = {} THEN up ELSE AnswerSlot(it[s \ {Max(s)}], rq[Max(s)])]
                /\ FoldLeft(AnswerSlot, up, rq) = it[DOMAIN rq]
  BY <1>4, Zenon DEF FoldLeft, MapThenFoldSet
<1>6. it[1 .. 0] = up
  <2>1. 1 .. 0 = {} /\ {} \in SUBSET DOMAIN rq
    OBVIOUS
  <2>2. QED
    BY <1>5, <2>1
<1>7. ASSUME NEW k \in 1 .. n
      PROVE  it[1 .. k] = AnswerSlot(it[1 .. k - 1], rq[k])
  <2>1. /\ Top(1 .. k) = k /\ (1 .. k) \ {k} = 1 .. k - 1 /\ 1 .. k # {}
        /\ 1 .. k \in SUBSET DOMAIN rq
    <3>1. k \in Nat \ {0} /\ 1 .. k \in SUBSET (1 .. n)
      OBVIOUS
    <3>2. QED
      BY <1>1, <3>1, TopOfFirst
  <2>2. Max(1 .. k) = k
    BY <2>1 DEF Max, Top
  <2>3. it[1 .. k] = AnswerSlot(it[(1 .. k) \ {Max(1 .. k)}], rq[Max(1 .. k)])
    BY <1>5, <2>1
  <2>4. QED
    BY <2>1, <2>2, <2>3
<1>8. QED
  BY <1>1, <1>5, <1>6, <1>7

\* The reads of the first k slots are answered.
AnswerInv(up, rq, k, x) ==
    /\ x \in Uppers /\ QuietWrites(x)
    /\ \A any \in Seq(SlotType), u \in Upper, line \in Line :
          Owed(x, any, u, line) = Owed(up, any, u, line) + Count(SubSeq(rq, 1, k), Owes(u, line))

\* An answer given in the warmup phase is not owed by its slot any more.
LEMMA AnswerSlotKeeps ==
  ASSUME NEW up \in Uppers, NEW rq \in Seq(SlotType), NEW k \in 1 .. Len(rq), NEW x,
         AnswerInv(up, rq, k - 1, x)
  PROVE  AnswerInv(up, rq, k, AnswerSlot(x, rq[k]))
<1> DEFINE p == rq[k]
           y == AnswerSlot(x, p)
<1>1. x \in Uppers /\ QuietWrites(x) /\ p \in SlotType
  BY LenProperties DEF AnswerInv
<1>2. /\ y \in Uppers /\ QuietWrites(y)
      /\ \A any \in Seq(SlotType), u \in Upper, line \in Line :
            Owed(x, any, u, line) \in Nat
               => Owed(y, any, u, line) = Owed(x, any, u, line) + One(p \in Owes(u, line))
  <2>1. CASE p = NoPacket
    <3>1. y = x
      BY <2>1 DEF AnswerSlot
    <3>2. \A u \in Upper, line \in Line : One(p \in Owes(u, line)) = 0
      BY <2>1, NoPacketAssumption DEF Owes, One
    <3> HIDE DEF y, p
    <3>3. QED
      BY <1>1, <3>1, <3>2
  <2>2. CASE p # NoPacket
    <3>1. p \in Packet /\ y = Return(x, p)
      BY <1>1, <2>2 DEF AnswerSlot, SlotType
    <3> HIDE DEF y, p
    <3>2. QED
      BY <1>1, <3>1, ReturnFacts
  <2>3. QED
    BY <2>1, <2>2
<1> HIDE DEF y
<1>3. ASSUME NEW any \in Seq(SlotType), NEW u \in Upper, NEW line \in Line
      PROVE  Owed(y, any, u, line) =
                Owed(up, any, u, line) + Count(SubSeq(rq, 1, k), Owes(u, line))
  <2> DEFINE before == Count(SubSeq(rq, 1, k - 1), Owes(u, line))
             e == One(p \in Owes(u, line))
             o == Owed(up, any, u, line)
  <2>1. SubSeq(rq, 1, k - 1) \in Seq(SlotType)
        /\ Count(SubSeq(rq, 1, k), Owes(u, line)) = before + e
    BY CountUpTo
  <2>2. before \in Nat /\ e \in Nat
    BY <2>1, CountType DEF One
  <2>3. Owed(x, any, u, line) = o + before
    BY DEF AnswerInv
  <2>4. o \in Nat
    BY OwedIsNumber
  <2> HIDE DEF before, e, o
  <2>5. Owed(x, any, u, line) \in Nat /\ (o + before) + e = o + (before + e)
    BY <2>2, <2>3, <2>4
  <2>6. Owed(y, any, u, line) = Owed(x, any, u, line) + e
    BY <2>5, <1>2 DEF e
  <2>7. QED
    BY <2>1, <2>3, <2>5, <2>6 DEF o
<1>4. QED
  BY <1>2, <1>3 DEF AnswerInv, y

\* In a warmup phase all the reads are answered: what was owed in the slots is on its
\* way back.
LEMMA WarmupResult ==
  ASSUME NEW n \in Nat, NEW up \in Uppers, NEW rq \in SlotsOf(n), NEW none \in SlotsOf(n),
         Empty(none), QuietWrites(up)
  PROVE  LET end == FoldLeft(AnswerSlot, up, rq)
         IN  /\ end \in Uppers /\ QuietWrites(end)
             /\ \A u \in Upper, line \in Line : Owed(end, none, u, line) = Owed(up, rq, u, line)
<1>1. rq \in Seq(SlotType) /\ Len(rq) = n /\ none \in Seq(SlotType) /\ Len(none) = n /\ DOMAIN none = 1 .. n
  BY SlotFacts
<1>2. PICK it : /\ FoldLeft(AnswerSlot, up, rq) = it[1 .. n]
                /\ it[1 .. 0] = up
                /\ \A k \in 1 .. n : it[1 .. k] = AnswerSlot(it[1 .. k - 1], rq[k])
  BY AnswerSlotSteps
<1> DEFINE S == {k \in 0 .. n : AnswerInv(up, rq, k, it[1 .. k])}
<1>3. 0 \in S
  <2>1. AnswerInv(up, rq, 0, up)
    <3>1. SubSeq(rq, 1, 0) = << >>
      BY SubSeqEmpty
    <3>2. ASSUME NEW any \in Seq(SlotType), NEW u \in Upper, NEW line \in Line
          PROVE  Owed(up, any, u, line) =
                    Owed(up, any, u, line) + Count(SubSeq(rq, 1, 0), Owes(u, line))
      <4>1. Owed(up, any, u, line) \in Nat
        BY OwedIsNumber
      <4>2. Count(SubSeq(rq, 1, 0), Owes(u, line)) = 0
        BY <3>1, CountEmpty
      <4>3. QED
        BY <4>1, <4>2
    <3>3. QED
      BY <3>2 DEF AnswerInv
  <2>2. 0 \in 0 .. n
    OBVIOUS
  <2>3. QED
    BY <1>2, <2>1, <2>2
<1>4. ASSUME NEW k \in 1 .. n, k - 1 \in S
      PROVE  k \in S
  <2>1. AnswerInv(up, rq, k - 1, it[1 .. k - 1]) /\ k \in 1 .. Len(rq) /\ k \in 0 .. n
    BY <1>1, <1>4
  <2>2. AnswerInv(up, rq, k, AnswerSlot(it[1 .. k - 1], rq[k]))
    BY <1>1, <2>1, AnswerSlotKeeps
  <2>3. QED
    BY <2>1, <2>2, <1>2
<1>5. n \in S
  <2> HIDE DEF S
  <2>1. n \in 0 .. n
    OBVIOUS
  <2>2. QED
    BY <1>3, <1>4, <2>1, UpTo
<1> DEFINE end == it[1 .. n]
<1>6. AnswerInv(up, rq, n, end)
  BY <1>5
<1>7. ASSUME NEW u \in Upper, NEW line \in Line
      PROVE  Owed(end, none, u, line) = Owed(up, rq, u, line)
  <2> DEFINE a == Count(up[u].RQ, Wants(line))
             b == Count(up[u].PQ, Wants(line))
             c == Count(rq, Owes(u, line))
             d == Count(up[u].returned, {line})
  <2>1. a \in Nat /\ b \in Nat /\ c \in Nat /\ d \in Nat
    BY <1>1, UpperFacts, CountType
  <2>2. SubSeq(rq, 1, n) = rq
    BY <1>1, SubSeqFull
  <2>3. Owed(end, none, u, line) = Owed(up, none, u, line) + c
    BY <1>1, <1>6, <2>2 DEF AnswerInv
  <2>4. Count(none, Owes(u, line)) = 0
    <3>1. \A i \in 1 .. n : none[i] \notin Owes(u, line)
      BY <1>1, NoPacketAssumption DEF Empty, Owes
    <3>2. QED
      BY <1>1, <3>1, CountZero
  <2>5. Owed(up, none, u, line) = a + b + 0 + d
    BY <2>4 DEF Owed
  <2>6. Owed(up, rq, u, line) = a + b + c + d
    BY DEF Owed
  <2> HIDE DEF a, b, c, d, end
  <2>7. a + b + 0 + d + c = a + b + c + d
    BY <2>1
  <2>8. QED
    BY <2>3, <2>5, <2>6, <2>7
<1>8. QED
  BY <1>2, <1>6, <1>7 DEF AnswerInv

-----------------------------------------------------------------------------
(* check_write_collision. *)

\* All packets have been through the collision checks.
AllChecked(q) == \A i \in DOMAIN q : q[i] # NoPacket => q[i].forward_checked

\* The slots r are the slots q after checks: what had been checked before is there,
\* and what is there is for the same line and scheduled as before.
Sifted(q, r) ==
    \A j \in DOMAIN q :
       \/ r[j] = NoPacket /\ (q[j] # NoPacket => ~q[j].forward_checked)
       \/ /\ q[j] # NoPacket /\ r[j] \in Packet
          /\ r[j].line = q[j].line /\ r[j].scheduled = q[j].scheduled
          /\ q[j].forward_checked => r[j].forward_checked

\* A packet after its check.
Marked(p) == [p EXCEPT !.forward_checked = TRUE]

\* Checks after checks.
LEMMA SiftedTwice ==
  ASSUME NEW n \in Nat, NEW a \in SlotsOf(n), NEW b \in SlotsOf(n), NEW c \in SlotsOf(n),
         Sifted(a, b), Sifted(b, c)
  PROVE  Sifted(a, c)
<1>1. DOMAIN a = 1 .. n /\ DOMAIN b = 1 .. n
  BY SlotFacts
<1>2. QED
  BY <1>1, NoPacketAssumption DEF Sifted

\* A checked packet is one that is there.
LEMMA SiftedSelf ==
  ASSUME NEW n \in Nat, NEW q \in SlotsOf(n)
  PROVE  Sifted(q, q)
<1>1. DOMAIN q = 1 .. n /\ \A i \in 1 .. n : q[i] \in SlotType
  BY SlotFacts
<1>2. QED
  BY <1>1 DEF Sifted, SlotType

\* Only forward_checked differs.
LEMMA MarkedType ==
  ASSUME NEW p \in Packet
  PROVE  /\ Marked(p) \in Packet /\ Marked(p).forward_checked
         /\ Marked(p).line = p.line /\ Marked(p).scheduled = p.scheduled
         /\ Marked(p).to_return = p.to_return
BY DEF Marked, Packet

\* A slot is emptied or marked.
LEMMA CheckWriteCases ==
  ASSUME NEW n \in Nat, NEW q \in SlotsOf(n), NEW k \in 1 .. n
  PROVE  \/ /\ CheckWrite(q, k) = q
            /\ q[k] # NoPacket => q[k].forward_checked
         \/ /\ q[k] \in Packet /\ ~q[k].forward_checked
            /\ \/ CheckWrite(q, k) = Put(q, k, NoPacket)
               \/ CheckWrite(q, k) = Put(q, k, Marked(q[k]))
<1>1. q[k] \in SlotType
  BY SlotFacts
<1>2. CASE q[k] = NoPacket \/ q[k].forward_checked
  BY <1>2 DEF CheckWrite
<1>3. CASE q[k] # NoPacket /\ ~q[k].forward_checked
  <2>1. q[k] \in Packet
    BY <1>1, <1>3 DEF SlotType
  <2>2. \/ CheckWrite(q, k) = [q EXCEPT ![k] = NoPacket]
        \/ CheckWrite(q, k) = [q EXCEPT ![k].forward_checked = TRUE]
    BY <1>3 DEF CheckWrite
  <2>3. QED
    BY <2>1, <2>2, <1>3 DEF Put, Marked
<1>4. QED
  BY <1>2, <1>3

\* A check does not leave the slots.
LEMMA CheckWriteType ==
  ASSUME NEW n \in Nat, NEW q \in SlotsOf(n), NEW k \in 1 .. n
  PROVE  CheckWrite(q, k) \in SlotsOf(n)
<1>1. CASE CheckWrite(q, k) = q
  BY <1>1
<1>2. CASE CheckWrite(q, k) = Put(q, k, NoPacket)
  <2>1. NoPacket \in SlotType
    BY DEF SlotType
  <2>2. QED
    BY <1>2, <2>1, SlotReplaced
<1>3. CASE q[k] \in Packet /\ CheckWrite(q, k) = Put(q, k, Marked(q[k]))
  <2>1. Marked(q[k]) \in SlotType
    BY <1>3, MarkedType DEF SlotType
  <2>2. QED
    BY <1>3, <2>1, SlotReplaced
<1>4. QED
  BY <1>1, <1>2, <1>3, CheckWriteCases

\* One slot is sifted.
LEMMA PutSifts ==
  ASSUME NEW n \in Nat, NEW q \in SlotsOf(n), NEW k \in 1 .. n, NEW x \in SlotType,
         \/ x = NoPacket /\ ~q[k].forward_checked
         \/ /\ x \in Packet /\ x.line = q[k].line /\ x.scheduled = q[k].scheduled
            /\ q[k].forward_checked => x.forward_checked,
         q[k] \in Packet
  PROVE  Sifted(q, Put(q, k, x))
<1> DEFINE r == Put(q, k, x)
<1>1. /\ DOMAIN q = 1 .. n /\ \A j \in 1 .. n : q[j] \in SlotType
      /\ \A j \in 1 .. n : r[j] = IF j = k THEN x ELSE q[j]
  <2>1. DOMAIN q = 1 .. n /\ \A j \in 1 .. n : q[j] \in SlotType
    BY SlotFacts
  <2>2. \A j \in 1 .. n : r[j] = IF j = k THEN x ELSE q[j]
    BY SlotReplaced, SMT
  <2>3. QED
    BY <2>1, <2>2
<1> HIDE DEF r
<1>2. ASSUME NEW j \in 1 .. n
      PROVE  \/ r[j] = NoPacket /\ (q[j] # NoPacket => ~q[j].forward_checked)
             \/ /\ q[j] # NoPacket /\ r[j] \in Packet
                /\ r[j].line = q[j].line /\ r[j].scheduled = q[j].scheduled
                /\ q[j].forward_checked => r[j].forward_checked
  <2>1. CASE j = k
    <3>1. r[j] = x /\ q[j] = q[k] /\ q[k] # NoPacket
      BY <2>1, <1>1, NoPacketAssumption
    <3>2. QED
      BY <3>1
  <2>2. CASE j # k
    <3>1. r[j] = q[j] /\ q[j] \in SlotType
      BY <2>2, <1>1
    <3>2. QED
      BY <3>1 DEF SlotType
  <2>3. QED
    BY <2>1, <2>2
<1>3. QED
  BY <1>1, <1>2 DEF Sifted, r

\* After the checks of the first k slots.
CheckWriteInv(n, wq, k, q) ==
    /\ q \in SlotsOf(n) /\ Sifted(wq, q)
    /\ Silent(wq) => Silent(q)
    /\ \A j \in 1 .. k : q[j] # NoPacket => q[j].forward_checked

\* One step of check_write_collision keeps what holds of the slots checked so far.
LEMMA CheckWriteKeeps ==
  ASSUME NEW n \in Nat, NEW wq \in SlotsOf(n), NEW k \in 1 .. n, NEW q,
         CheckWriteInv(n, wq, k - 1, q)
  PROVE  CheckWriteInv(n, wq, k, CheckWrite(q, k))
<1>1. /\ q \in SlotsOf(n) /\ Sifted(wq, q)
      /\ Silent(wq) => Silent(q)
      /\ \A j \in 1 .. k - 1 : q[j] # NoPacket => q[j].forward_checked
  BY DEF CheckWriteInv
<1>2. \A j \in 1 .. k : j = k \/ j \in 1 .. k - 1
  OBVIOUS
<1>3. CASE CheckWrite(q, k) = q /\ (q[k] # NoPacket => q[k].forward_checked)
  BY <1>1, <1>2, <1>3 DEF CheckWriteInv
<1>4. ASSUME NEW x \in SlotType, CheckWrite(q, k) = Put(q, k, x), q[k] \in Packet,
             \/ x = NoPacket /\ ~q[k].forward_checked
             \/ /\ x \in Packet /\ x.line = q[k].line /\ x.scheduled = q[k].scheduled
                /\ x.forward_checked /\ x.to_return = q[k].to_return
      PROVE  CheckWriteInv(n, wq, k, CheckWrite(q, k))
  <2> DEFINE r == Put(q, k, x)
  <2>1. r \in SlotsOf(n) /\ \A j \in 1 .. n : r[j] = IF j = k THEN x ELSE q[j]
    BY <1>1, SlotReplaced
  <2>2. Sifted(q, r)
    BY <1>1, <1>4, PutSifts
  <2> HIDE DEF r
  <2>3. Sifted(wq, r)
    BY <1>1, <2>1, <2>2, SiftedTwice
  <2>4. DOMAIN q = 1 .. n /\ DOMAIN r = 1 .. n
    BY <1>1, <2>1, SlotFacts
  <2>5. Silent(q) => Silent(r)
    BY <1>4, <2>1, <2>4, NoPacketAssumption DEF Silent
  <2>6. ASSUME NEW j \in 1 .. k, r[j] # NoPacket
        PROVE  r[j].forward_checked
    <3>1. j \in 1 .. n
      OBVIOUS
    <3>2. QED
      BY <3>1, <2>6, <1>1, <1>2, <1>4, <2>1
  <2>7. CheckWriteInv(n, wq, k, r)
    BY <1>1, <2>1, <2>3, <2>5, <2>6 DEF CheckWriteInv
  <2>8. QED
    BY <2>7, <1>4 DEF r
<1>5. CASE q[k] \in Packet /\ ~q[k].forward_checked /\ CheckWrite(q, k) = Put(q, k, NoPacket)
  <2>1. NoPacket \in SlotType
    BY DEF SlotType
  <2>2. QED
    BY <2>1, <1>4, <1>5
<1>6. CASE q[k] \in Packet /\ CheckWrite(q, k) = Put(q, k, Marked(q[k]))
  <2> DEFINE x == Marked(q[k])
  <2>1. /\ x \in Packet /\ x.forward_checked /\ x.line = q[k].line
        /\ x.scheduled = q[k].scheduled /\ x.to_return = q[k].to_return
    BY <1>6, MarkedType
  <2>2. x \in SlotType /\ CheckWrite(q, k) = Put(q, k, x) /\ q[k] \in Packet
    BY <2>1, <1>6 DEF SlotType
  <2> HIDE DEF x
  <2>3. QED
    BY <2>1, <2>2, <1>4
<1>7. QED
  BY <1>1, <1>3, <1>5, <1>6, CheckWriteCases

\* The slots from first to last.
LEMMA SlotsInOrder ==
  ASSUME NEW n \in Nat, NEW q \in SlotsOf(n)
  PROVE  DOMAIN Slots(q) = 1 .. n /\ \A k \in 1 .. n : Slots(q)[k] = k
<1>1. Len(q) = n
  BY SlotFacts
<1>2. QED
  BY <1>1 DEF Slots

\* check_write_collision for one slot after the other.
LEMMA CheckWriteSteps ==
  ASSUME NEW n \in Nat, NEW wq \in SlotsOf(n)
  PROVE  \E it :
            /\ CheckWrites(wq) = it[1 .. n]
            /\ it[1 .. 0] = wq
            /\ \A k \in 1 .. n : it[1 .. k] = CheckWrite(it[1 .. k - 1], k)
<1> DEFINE order == Slots(wq)
           T == SlotsOf(n)
           F == [z \in T \X (1 .. n) |-> CheckWrite(z[1], order[z[2]])]
<1>1. DOMAIN order = 1 .. n /\ \A k \in 1 .. n : order[k] = k
  BY SlotsInOrder
<1> HIDE DEF order
<1>2. F \in [T \X (1 .. n) -> T]
  <2>1. \A x \in T, k \in 1 .. n : CheckWrite(x, order[k]) \in T
    BY <1>1, CheckWriteType
  <2>2. QED
    BY <2>1
<1>3. PICK jt \in [SUBSET (1 .. n) -> T] : FoldsTo(jt, n, wq, F)
  <2> HIDE DEF F, T
  <2>1. wq \in T
    BY DEF T
  <2>2. QED
    BY <1>2, <2>1, FoldExists
<1>4. jt = [s \in SUBSET DOMAIN order |->
               IF s = {} THEN wq ELSE CheckWrite(jt[s \ {Max(s)}], order[Max(s)])]
  <2>1. ASSUME NEW s \in SUBSET (1 .. n), s # {}
        PROVE  F[<<jt[s \ {Top(s)}], Top(s)>>] = CheckWrite(jt[s \ {Max(s)}], order[Max(s)])
    <3>1. Top(s) \in 1 .. n
      BY <2>1, TopOf
    <3>2. jt[s \ {Top(s)}] \in T
      BY <1>3
    <3>3. Max(s) = Top(s)
      BY DEF Max, Top
    <3>4. QED
      BY <3>1, <3>2, <3>3
  <2> HIDE DEF F
  <2>2. \A s \in SUBSET (1 .. n) :
           jt[s] = IF s = {} THEN wq ELSE F[<<jt[s \ {Top(s)}], Top(s)>>]
    BY <1>3 DEF FoldsTo
  <2>3. QED
    BY <2>1, <2>2, <1>1, <1>3
<1>5. PICK it : /\ it = [s \in SUBSET DOMAIN order |->
                            IF s = {} THEN wq ELSE CheckWrite(it[s \ {Max(s)}], order[Max(s)])]
                /\ CheckWrites(wq) = it[DOMAIN order]
  BY <1>4, Zenon DEF FoldLeft, MapThenFoldSet, CheckWrites, order
<1>6. it[1 .. 0] = wq
  <2>1. 1 .. 0 = {} /\ {} \in SUBSET DOMAIN order
    OBVIOUS
  <2>2. QED
    BY <1>5, <2>1
<1>7. ASSUME NEW k \in 1 .. n
      PROVE  it[1 .. k] = CheckWrite(it[1 .. k - 1], k)
  <2>1. /\ Top(1 .. k) = k /\ (1 .. k) \ {k} = 1 .. k - 1 /\ 1 .. k # {}
        /\ 1 .. k \in SUBSET DOMAIN order
    <3>1. k \in Nat \ {0} /\ 1 .. k \in SUBSET (1 .. n)
      OBVIOUS
    <3>2. QED
      BY <1>1, <3>1, TopOfFirst
  <2>2. Max(1 .. k) = k
    BY <2>1 DEF Max, Top
  <2>3. it[1 .. k] = CheckWrite(it[(1 .. k) \ {Max(1 .. k)}], order[Max(1 .. k)])
    BY <1>5, <2>1
  <2>4. QED
    BY <1>1, <2>1, <2>2, <2>3
<1>8. QED
  BY <1>1, <1>5, <1>6, <1>7

\* All writes are checked; those that had been are still there.
LEMMA CheckWritesResult ==
  ASSUME NEW n \in Nat, NEW wq \in SlotsOf(n)
  PROVE  /\ CheckWrites(wq) \in SlotsOf(n) /\ Sifted(wq, CheckWrites(wq))
         /\ Silent(wq) => Silent(CheckWrites(wq))
         /\ AllChecked(CheckWrites(wq))
<1>1. PICK it : /\ CheckWrites(wq) = it[1 .. n]
                /\ it[1 .. 0] = wq
                /\ \A k \in 1 .. n : it[1 .. k] = CheckWrite(it[1 .. k - 1], k)
  BY CheckWriteSteps
<1> DEFINE S == {k \in 0 .. n : CheckWriteInv(n, wq, k, it[1 .. k])}
<1>2. 0 \in S
  <2>1. CheckWriteInv(n, wq, 0, wq)
    BY SiftedSelf DEF CheckWriteInv
  <2>2. QED
    BY <1>1, <2>1
<1>3. ASSUME NEW k \in 1 .. n, k - 1 \in S
      PROVE  k \in S
  <2>1. CheckWriteInv(n, wq, k - 1, it[1 .. k - 1]) /\ k \in 0 .. n
    BY <1>3
  <2>2. CheckWriteInv(n, wq, k, CheckWrite(it[1 .. k - 1], k))
    BY <2>1, CheckWriteKeeps
  <2>3. QED
    BY <2>1, <2>2, <1>1
<1>4. n \in S
  <2> HIDE DEF S
  <2>1. n \in 0 .. n
    OBVIOUS
  <2>2. QED
    BY <1>2, <1>3, <2>1, UpTo
<1>5. CheckWriteInv(n, wq, n, CheckWrites(wq))
  BY <1>1, <1>4
<1>6. DOMAIN CheckWrites(wq) = 1 .. n
  BY <1>5, SlotFacts DEF CheckWriteInv
<1>7. QED
  BY <1>5, <1>6 DEF CheckWriteInv, AllChecked

-----------------------------------------------------------------------------
(* check_read_collision. *)

\* The slots and the channels, which hold the answers.
Reading(n) == [rq : SlotsOf(n), up : Uppers]

\* A packet that answers for another too.
Joined(p, other) == [p EXCEPT !.to_return = @ \cup other.to_return]

\* Only to_return differs.
LEMMA JoinedType ==
  ASSUME NEW p \in Packet, NEW other \in Packet
  PROVE  /\ Joined(p, other) \in Packet
         /\ Joined(p, other).line = p.line /\ Joined(p, other).scheduled = p.scheduled
         /\ Joined(p, other).forward_checked = p.forward_checked
         /\ Joined(p, other).to_return = p.to_return \cup other.to_return
BY DEF Joined, Packet

\* A slot is as it should be, forwarded, joined to another or marked.
LEMMA CheckReadCases ==
  ASSUME NEW n \in Nat, NEW q \in SlotsOf(n), NEW up \in Uppers, NEW k \in 1 .. n, NEW wq
  PROVE  LET x == [rq |-> q, up |-> up]
             y == CheckRead(x, k, wq)
         IN  \/ y = x /\ (q[k] # NoPacket => q[k].forward_checked)
             \/ /\ q[k] \in Packet /\ ~q[k].forward_checked
                /\ \/ y = [rq |-> Put(q, k, NoPacket), up |-> Return(up, q[k])]
                   \/ \E m \in 1 .. n :
                         /\ m # k /\ q[m] \in Packet /\ q[m].line = q[k].line
                         /\ y = [rq |-> Put(Put(q, k, NoPacket), m, Joined(q[m], q[k])), up |-> up]
                   \/ y = [rq |-> Put(q, k, Marked(q[k])), up |-> up]
<1> DEFINE x == [rq |-> q, up |-> up]
           y == CheckRead(x, k, wq)
           p == q[k]
           others == Same(q, p.line) \ {k}
           m == Smallest(others)
<1>1. x.rq = q /\ x.up = up /\ DOMAIN q = 1 .. n /\ \A i \in 1 .. n : q[i] \in SlotType
  BY SlotFacts
<1>2. \/ y = x /\ (p = NoPacket \/ p.forward_checked)
      \/ /\ p # NoPacket /\ ~p.forward_checked
         /\ \/ y = [rq |-> [x.rq EXCEPT ![k] = NoPacket], up |-> Return(x.up, x.rq[k])]
            \/ /\ others # {}
               /\ y = [x EXCEPT !.rq = Merge(q, k, m)]
            \/ y = [x EXCEPT !.rq = [@ EXCEPT ![k].forward_checked = TRUE]]
  <2>1. CASE p = NoPacket \/ p.forward_checked
    BY <2>1, <1>1 DEF CheckRead
  <2>2. CASE p # NoPacket /\ ~p.forward_checked /\ Same(wq, p.line) # {}
    BY <2>2, <1>1 DEF CheckRead
  <2>3. CASE p # NoPacket /\ ~p.forward_checked /\ Same(wq, p.line) = {} /\ others # {}
    <3> DEFINE there == Same(x.rq, x.rq[k].line) \ {k}
    <3>1. there = others /\ x.rq = q
      OBVIOUS
    <3>2. y = [x EXCEPT !.rq = Merge(x.rq, k, Smallest(there))]
      <4>1. x.rq[k] = p
        OBVIOUS
      <4>2. ~(x.rq[k] = NoPacket \/ x.rq[k].forward_checked) /\ Same(wq, x.rq[k].line) = {}
            /\ there # {}
        BY <2>3, <3>1, <4>1
      <4> HIDE DEF x, p, others
      <4>3. QED
        BY <4>2, Zenon DEF CheckRead
    <3>3. y = [x EXCEPT !.rq = Merge(q, k, m)]
      BY <3>1, <3>2, Zenon
    <3> HIDE DEF y
    <3>4. QED
      BY <2>3, <3>3
  <2>4. CASE p # NoPacket /\ ~p.forward_checked /\ Same(wq, p.line) = {} /\ others = {}
    BY <2>4, <1>1 DEF CheckRead
  <2>5. QED
    BY <2>1, <2>2, <2>3, <2>4
<1>3. CASE y = x /\ (p = NoPacket \/ p.forward_checked)
  BY <1>3
<1>4. ASSUME p # NoPacket, ~p.forward_checked,
             y = [rq |-> [x.rq EXCEPT ![k] = NoPacket], up |-> Return(x.up, x.rq[k])]
      PROVE  /\ p \in Packet /\ ~p.forward_checked
             /\ y = [rq |-> Put(q, k, NoPacket), up |-> Return(up, p)]
  BY <1>1, <1>4 DEF Put, SlotType
<1>5. ASSUME p # NoPacket, ~p.forward_checked, others # {},
             y = [x EXCEPT !.rq = Merge(q, k, m)]
      PROVE  /\ p \in Packet /\ ~p.forward_checked
             /\ m \in 1 .. n /\ m # k /\ q[m] \in Packet /\ q[m].line = p.line
             /\ y = [rq |-> Put(Put(q, k, NoPacket), m, Joined(q[m], p)), up |-> up]
  <2>1. others \subseteq 1 .. n /\ others \subseteq Nat
    BY <1>1 DEF Same, Occupied
  <2>2. m \in others
    <3> HIDE DEF others
    <3>1. \E i \in others : \A j \in others : i <= j
      BY <1>5, <2>1, SmallestOf
    <3>2. QED
      BY <3>1 DEF Smallest
  <2>3. m \in 1 .. n /\ m # k /\ q[m] \in Packet /\ q[m].line = p.line
    <3> HIDE DEF m
    <3>1. m # k /\ q[m] # NoPacket /\ q[m].line = p.line /\ m \in 1 .. n
      BY <2>1, <2>2, <1>1 DEF Same, Occupied
    <3>2. QED
      BY <3>1, <1>1 DEF SlotType
  <2> HIDE DEF m, others
  <2>4. p \in Packet
    BY <1>1, <1>5 DEF SlotType
  <2>5. Merge(q, k, m) = Put(Put(q, k, NoPacket), m, Joined(q[m], p))
    BY <1>1, <2>3 DEF Put, Joined, Merge
  <2>6. y = [rq |-> Put(Put(q, k, NoPacket), m, Joined(q[m], p)), up |-> up]
    <3> DEFINE t == Merge(q, k, m)
    <3>1. y = [rq |-> t, up |-> up]
      <4>1. y = [x EXCEPT !.rq = t]
        BY <1>5
      <4> HIDE DEF t, y
      <4>2. QED
        BY <4>1
    <3>2. QED
      BY <3>1, <2>5
  <2>7. QED
    BY <1>5, <2>3, <2>4, <2>6
<1>6. ASSUME p # NoPacket, ~p.forward_checked,
             y = [x EXCEPT !.rq = [@ EXCEPT ![k].forward_checked = TRUE]]
      PROVE  /\ p \in Packet /\ ~p.forward_checked
             /\ y = [rq |-> Put(q, k, Marked(p)), up |-> up]
  <2>1. [q EXCEPT ![k].forward_checked = TRUE] = Put(q, k, Marked(p))
    BY <1>1 DEF Put, Marked
  <2>2. y = [rq |-> Put(q, k, Marked(p)), up |-> up]
    <3> DEFINE t == [q EXCEPT ![k].forward_checked = TRUE]
    <3>1. y = [x EXCEPT !.rq = t]
      BY <1>1, <1>6
    <3> HIDE DEF t, y
    <3>2. y = [rq |-> t, up |-> up]
      BY <3>1
    <3>3. QED
      BY <3>2, <2>1 DEF t
  <2>3. QED
    BY <2>2, <1>1, <1>6 DEF SlotType
<1>7. \/ y = x /\ (p # NoPacket => p.forward_checked)
      \/ /\ p \in Packet /\ ~p.forward_checked
         /\ \/ y = [rq |-> Put(q, k, NoPacket), up |-> Return(up, p)]
            \/ \E i \in 1 .. n :
                  /\ i # k /\ q[i] \in Packet /\ q[i].line = p.line
                  /\ y = [rq |-> Put(Put(q, k, NoPacket), i, Joined(q[i], p)), up |-> up]
            \/ y = [rq |-> Put(q, k, Marked(p)), up |-> up]
  <2> HIDE DEF y, m, others, p
  <2>1. QED
    BY <1>2, <1>3, <1>4, <1>5, <1>6
<1>8. QED
  BY <1>7

\* A check does not leave the slots and the channels.
LEMMA CheckReadType ==
  ASSUME NEW n \in Nat, NEW x \in Reading(n), NEW k \in 1 .. n, NEW wq
  PROVE  CheckRead(x, k, wq) \in Reading(n)
<1> DEFINE q == x.rq
           up == x.up
           y == CheckRead(x, k, wq)
<1>1. q \in SlotsOf(n) /\ up \in Uppers /\ x = [rq |-> q, up |-> up]
  BY DEF Reading
<1> HIDE DEF q, up
<1>a. \A a \in SlotsOf(n), b \in Uppers : [rq |-> a, up |-> b] \in Reading(n)
  BY DEF Reading
<1>2. \/ y = x
      \/ /\ q[k] \in Packet
         /\ \/ y = [rq |-> Put(q, k, NoPacket), up |-> Return(up, q[k])]
            \/ \E m \in 1 .. n :
                  /\ q[m] \in Packet
                  /\ y = [rq |-> Put(Put(q, k, NoPacket), m, Joined(q[m], q[k])), up |-> up]
            \/ y = [rq |-> Put(q, k, Marked(q[k])), up |-> up]
  BY <1>1, CheckReadCases
<1> HIDE DEF y
<1>3. NoPacket \in SlotType /\ Put(q, k, NoPacket) \in SlotsOf(n)
  <2>1. NoPacket \in SlotType
    BY DEF SlotType
  <2>2. QED
    BY <1>1, <2>1, SlotReplaced
<1>4. CASE q[k] \in Packet /\ y = [rq |-> Put(q, k, NoPacket), up |-> Return(up, q[k])]
  <2>1. Return(up, q[k]) \in Uppers
    BY <1>1, <1>4, ReturnFacts
  <2>2. QED
    BY <1>a, <1>3, <1>4, <2>1 DEF y
<1>5. ASSUME NEW m \in 1 .. n, q[k] \in Packet, q[m] \in Packet,
             y = [rq |-> Put(Put(q, k, NoPacket), m, Joined(q[m], q[k])), up |-> up]
      PROVE  y \in Reading(n)
  <2> DEFINE w == Joined(q[m], q[k])
             r == Put(q, k, NoPacket)
  <2>1. w \in SlotType
    BY <1>5, JoinedType DEF SlotType
  <2>2. r \in SlotsOf(n)
    BY <1>3
  <2> HIDE DEF w, r
  <2>3. Put(r, m, w) \in SlotsOf(n)
    BY <2>1, <2>2, SlotReplaced
  <2>4. QED
    BY <1>a, <1>1, <1>5, <2>3 DEF w, r
<1>6. CASE q[k] \in Packet /\ y = [rq |-> Put(q, k, Marked(q[k])), up |-> up]
  <2> DEFINE w == Marked(q[k])
  <2>1. w \in SlotType
    BY <1>6, MarkedType DEF SlotType
  <2> HIDE DEF w
  <2>2. Put(q, k, w) \in SlotsOf(n)
    BY <1>1, <2>1, SlotReplaced
  <2>3. QED
    BY <1>a, <1>1, <1>6, <2>2 DEF w, y
<1>7. CASE y = x
  BY <1>7 DEF y
<1>8. QED
  BY <1>2, <1>4, <1>5, <1>6, <1>7 DEF y

\* Other slots, as many packets that owe: as many answers are owed.
LEMMA OwedBySlots ==
  ASSUME NEW up \in Uppers, NEW q \in Seq(SlotType), NEW r \in Seq(SlotType),
         NEW u \in Upper, NEW line \in Line
  PROVE  /\ Owed(up, r, u, line) + Count(q, Owes(u, line)) =
               Owed(up, q, u, line) + Count(r, Owes(u, line))
         /\ Count(q, Owes(u, line)) \in Nat /\ Count(q, Owes(u, line)) <= Owed(up, q, u, line)
         /\ Count(r, Owes(u, line)) \in Nat
         /\ Owed(up, q, u, line) \in Nat /\ Owed(up, r, u, line) \in Nat
<1> DEFINE a == Count(up[u].RQ, Wants(line))
           b == Count(up[u].PQ, Wants(line))
           c == Count(q, Owes(u, line))
           e == Count(r, Owes(u, line))
           d == Count(up[u].returned, {line})
<1>1. a \in Nat /\ b \in Nat /\ c \in Nat /\ d \in Nat /\ e \in Nat
  BY UpperFacts, CountType
<1>2. Owed(up, q, u, line) = a + b + c + d /\ Owed(up, r, u, line) = a + b + e + d
  BY DEF Owed
<1> HIDE DEF a, b, c, d, e
<1>3. QED
  BY <1>1, <1>2 DEF c, e

\* After the checks of the first k slots.
CheckReadInv(n, up, rq, k, x) ==
    /\ x \in Reading(n) /\ Sifted(rq, x.rq) /\ QuietWrites(x.up)
    /\ \A j \in 1 .. k : x.rq[j] # NoPacket => x.rq[j].forward_checked
    /\ \A u \in Upper, line \in Line : Owed(x.up, x.rq, u, line) = Owed(up, rq, u, line)

\* What keeps it.
LEMMA CheckReadFits ==
  ASSUME NEW n \in Nat, NEW up, NEW rq \in SlotsOf(n), NEW k \in 1 .. n,
         NEW q \in SlotsOf(n), NEW u1 \in Uppers,
         CheckReadInv(n, up, rq, k - 1, [rq |-> q, up |-> u1]),
         NEW r \in SlotsOf(n), NEW u2 \in Uppers,
         Sifted(q, r), QuietWrites(u2),
         \A j \in 1 .. n : r[j] # NoPacket /\ (j = k \/ (q[j] # NoPacket /\ q[j].forward_checked))
                              => r[j].forward_checked,
         \A j \in 1 .. n : j # k /\ q[j] = NoPacket => r[j] = NoPacket,
         \A u \in Upper, line \in Line : Owed(u2, r, u, line) = Owed(u1, q, u, line)
  PROVE  CheckReadInv(n, up, rq, k, [rq |-> r, up |-> u2])
<1> DEFINE x == [rq |-> q, up |-> u1]
           y == [rq |-> r, up |-> u2]
<1>1. x.rq = q /\ x.up = u1 /\ y.rq = r /\ y.up = u2 /\ y \in Reading(n)
  BY DEF Reading
<1> HIDE DEF x, y
<1>2. CheckReadInv(n, up, rq, k - 1, x)
  BY DEF x
<1>3. Sifted(rq, r)
  <2>1. Sifted(rq, q)
    BY <1>1, <1>2 DEF CheckReadInv
  <2>2. QED
    BY <2>1, SiftedTwice
<1>4. ASSUME NEW j \in 1 .. k, r[j] # NoPacket
      PROVE  r[j].forward_checked
  <2>1. j \in 1 .. n /\ (j = k \/ j \in 1 .. k - 1)
    OBVIOUS
  <2>2. j # k => (q[j] # NoPacket /\ q[j].forward_checked)
    BY <2>1, <1>1, <1>2, <1>4 DEF CheckReadInv
  <2>3. QED
    BY <2>1, <2>2, <1>4
<1>5. ASSUME NEW u \in Upper, NEW line \in Line
      PROVE  Owed(u2, r, u, line) = Owed(up, rq, u, line)
  BY <1>1, <1>2 DEF CheckReadInv
<1>6. CheckReadInv(n, up, rq, k, y)
  BY <1>1, <1>3, <1>4, <1>5 DEF CheckReadInv
<1>7. QED
  BY <1>6 DEF y

\* One read is checked.
LEMMA CheckReadKeeps ==
  ASSUME NEW n \in Nat, NEW up \in Uppers, NEW rq \in SlotsOf(n), NEW k \in 1 .. n, NEW x, NEW wq,
         CheckReadInv(n, up, rq, k - 1, x),
         \A u \in Upper, line \in Line : Owed(up, rq, u, line) <= 1
  PROVE  CheckReadInv(n, up, rq, k, CheckRead(x, k, wq))
<1> DEFINE q == x.rq
           u1 == x.up
           p == q[k]
           y == CheckRead(x, k, wq)
<1>1. q \in SlotsOf(n) /\ u1 \in Uppers /\ x = [rq |-> q, up |-> u1]
  BY DEF CheckReadInv, Reading
<1>2. QuietWrites(u1) /\ \A u \in Upper, line \in Line : Owed(u1, q, u, line) <= 1
  BY DEF CheckReadInv
<1> HIDE DEF q, u1
<1>3. CheckReadInv(n, up, rq, k - 1, [rq |-> q, up |-> u1])
  BY <1>1
<1>4. /\ DOMAIN q = 1 .. n /\ q \in Seq(SlotType) /\ Len(q) = n
      /\ \A j \in 1 .. n : q[j] \in SlotType
  BY <1>1, SlotFacts
<1>5. \/ y = x /\ (p # NoPacket => p.forward_checked)
      \/ /\ p \in Packet /\ ~p.forward_checked
         /\ \/ y = [rq |-> Put(q, k, NoPacket), up |-> Return(u1, p)]
            \/ \E m \in 1 .. n :
                  /\ m # k /\ q[m] \in Packet /\ q[m].line = p.line
                  /\ y = [rq |-> Put(Put(q, k, NoPacket), m, Joined(q[m], p)), up |-> u1]
            \/ y = [rq |-> Put(q, k, Marked(p)), up |-> u1]
  BY <1>1, CheckReadCases
<1> HIDE DEF y
<1>6. CASE y = x /\ (p # NoPacket => p.forward_checked)
  <2>1. Sifted(q, q)
    BY <1>1, SiftedSelf
  <2>2. CheckReadInv(n, up, rq, k, [rq |-> q, up |-> u1])
    BY <2>1, <1>1, <1>2, <1>3, <1>6, CheckReadFits
  <2>3. QED
    BY <2>2, <1>1, <1>6 DEF y
<1> DEFINE r1 == Put(q, k, NoPacket)
<1>7. /\ r1 \in SlotsOf(n) /\ r1 \in Seq(SlotType) /\ Len(r1) = n
      /\ \A j \in 1 .. n : r1[j] = IF j = k THEN NoPacket ELSE q[j]
      /\ \A u \in Upper, line \in Line :
            /\ Count(r1, Owes(u, line)) \in Nat /\ Count(q, Owes(u, line)) \in Nat
            /\ Count(r1, Owes(u, line)) + One(p \in Owes(u, line)) = Count(q, Owes(u, line))
  <2>1. NoPacket \in SlotType
    BY DEF SlotType
  <2>2. /\ r1 \in SlotsOf(n)
        /\ \A j \in 1 .. n : r1[j] = IF j = k THEN NoPacket ELSE q[j]
        /\ \A D : /\ Count(r1, D) \in Nat /\ Count(q, D) \in Nat
                  /\ Count(r1, D) + One(q[k] \in D) = Count(q, D) + One(NoPacket \in D)
    BY <1>1, <2>1, SlotReplaced
  <2>3. \A u \in Upper, line \in Line : One(NoPacket \in Owes(u, line)) = 0
    BY NoPacketAssumption DEF Owes, One
  <2> HIDE DEF r1
  <2>4. r1 \in Seq(SlotType) /\ Len(r1) = n
    BY <2>2, SlotFacts
  <2>5. \A u \in Upper, line \in Line :
            /\ Count(r1, Owes(u, line)) \in Nat /\ Count(q, Owes(u, line)) \in Nat
            /\ Count(r1, Owes(u, line)) + One(p \in Owes(u, line)) = Count(q, Owes(u, line))
    BY <2>2, <2>3
  <2>6. QED
    BY <2>2, <2>4, <2>5
<1> HIDE DEF r1
<1>8. ASSUME p \in Packet, ~p.forward_checked
      PROVE  Sifted(q, r1)
  <2>1. NoPacket \in SlotType
    BY DEF SlotType
  <2>2. QED
    BY <1>1, <1>8, <2>1, PutSifts DEF r1
<1>9. CASE p \in Packet /\ ~p.forward_checked /\ y = [rq |-> r1, up |-> Return(u1, p)]
  <2> DEFINE u2 == Return(u1, p)
  <2>1. /\ u2 \in Uppers /\ QuietWrites(u2)
        /\ \A u \in Upper, line \in Line :
              Owed(u2, r1, u, line) = Owed(u1, r1, u, line) + One(p \in Owes(u, line))
    BY <1>1, <1>2, <1>7, <1>9, ReturnFacts
  <2> HIDE DEF u2
  <2>2. ASSUME NEW u \in Upper, NEW line \in Line
        PROVE  Owed(u2, r1, u, line) = Owed(u1, q, u, line)
    <3> DEFINE a == Owed(u1, r1, u, line)
               b == Count(q, Owes(u, line))
               c == Owed(u1, q, u, line)
               d == Count(r1, Owes(u, line))
               e == One(p \in Owes(u, line))
    <3>1. a + b = c + d /\ a \in Nat /\ b \in Nat /\ c \in Nat /\ d \in Nat
      BY <1>1, <1>4, <1>7, OwedBySlots
    <3>2. d + e = b /\ e \in Nat
      BY <1>7 DEF One
    <3>3. Owed(u2, r1, u, line) = a + e
      BY <2>1
    <3> HIDE DEF a, b, c, d, e
    <3>4. a + e = c
      BY <3>1, <3>2
    <3>5. QED
      BY <3>3, <3>4 DEF c
  <2>3. CheckReadInv(n, up, rq, k, [rq |-> r1, up |-> u2])
    <3>1. \A j \in 1 .. n : r1[j] # NoPacket /\ (j = k \/ (q[j] # NoPacket /\ q[j].forward_checked))
                               => r1[j].forward_checked
      BY <1>7
    <3>2. \A j \in 1 .. n : j # k /\ q[j] = NoPacket => r1[j] = NoPacket
      BY <1>7
    <3>3. r1 \in SlotsOf(n) /\ u2 \in Uppers /\ Sifted(q, r1) /\ QuietWrites(u2)
      BY <2>1, <1>7, <1>8, <1>9
    <3>4. QED
      BY <3>1, <3>2, <3>3, <2>2, <1>1, <1>3, CheckReadFits
  <2>4. QED
    BY <2>3, <1>9 DEF u2, y
<1>10. ASSUME NEW m \in 1 .. n, m # k, q[m] \in Packet, q[m].line = p.line,
              p \in Packet, ~p.forward_checked
       PROVE  CheckReadInv(n, up, rq, k, [rq |-> Put(r1, m, Joined(q[m], p)), up |-> u1])
  <2> DEFINE pm == q[m]
             w == Joined(pm, p)
             r == Put(r1, m, w)
  <2>1. /\ w \in Packet /\ w \in SlotType /\ w.line = pm.line /\ w.scheduled = pm.scheduled
        /\ w.forward_checked = pm.forward_checked /\ w.to_return = pm.to_return \cup p.to_return
    BY <1>10, JoinedType DEF SlotType
  <2>2. r1[m] = pm /\ pm # NoPacket
    BY <1>7, <1>10, NoPacketAssumption
  <2> HIDE DEF w
  <2>3. /\ r \in SlotsOf(n) /\ \A j \in 1 .. n : r[j] = IF j = m THEN w ELSE r1[j]
        /\ \A D : /\ Count(r, D) \in Nat /\ Count(r1, D) \in Nat
                  /\ Count(r, D) + One(r1[m] \in D) = Count(r1, D) + One(w \in D)
    <3>1. r1 \in SlotsOf(n) /\ w \in SlotType
      BY <1>7, <2>1
    <3>2. QED
      BY <3>1, SlotReplaced
  <2>4. Sifted(r1, r)
    BY <1>7, <1>10, <2>1, <2>2, PutSifts
  <2> HIDE DEF r
  <2>5. Sifted(q, r)
    BY <1>1, <1>7, <1>8, <1>10, <2>3, <2>4, SiftedTwice
  <2>6. r \in Seq(SlotType)
    BY <2>3, SlotFacts
  <2>7. ASSUME NEW u \in Upper, NEW line \in Line
        PROVE  Owed(u1, r, u, line) = Owed(u1, q, u, line)
    <3> DEFINE D == Owes(u, line)
               a == Owed(u1, r, u, line)
               b == Count(q, D)
               c == Owed(u1, q, u, line)
               d == Count(r, D)
               d1 == Count(r1, D)
               e == One(p \in D)
               em == One(pm \in D)
               ew == One(w \in D)
    <3>1. a + b = c + d /\ a \in Nat /\ b \in Nat /\ c \in Nat /\ d \in Nat /\ b <= c
      BY <1>1, <1>4, <2>6, OwedBySlots
    <3>2. d1 + e = b /\ d + em = d1 + ew /\ d1 \in Nat
      BY <1>7, <2>2, <2>3
    <3>3. c <= 1
      BY <1>2
    <3>4. (w \in D <=> p \in D \/ pm \in D)
      BY <1>10, <2>1 DEF Owes
    <3>5. pm \in D => d1 # 0
      BY <1>7, <1>10, <2>2, CountZero
    <3>6. e \in {0, 1} /\ em \in {0, 1} /\ ew \in {0, 1}
          /\ (e = 1 <=> p \in D) /\ (em = 1 <=> pm \in D) /\ (ew = 1 <=> w \in D)
      BY DEF One
    <3> HIDE DEF D, a, b, c, d, d1, e, em, ew, w, pm
    <3>7. a = c
      <4>1. em = 1 => d1 # 0
        BY <3>5, <3>6
      <4>2. ew = 1 <=> (e = 1 \/ em = 1)
        BY <3>4, <3>6
      <4>3. QED
        BY <4>1, <4>2, <3>1, <3>2, <3>3, <3>6
    <3>8. QED
      BY <3>7 DEF a, c
  <2>8. \A j \in 1 .. n : r[j] # NoPacket /\ (j = k \/ (q[j] # NoPacket /\ q[j].forward_checked))
                              => r[j].forward_checked
    BY <1>7, <1>10, <2>1, <2>3
  <2>9. \A j \in 1 .. n : j # k /\ q[j] = NoPacket => r[j] = NoPacket
    BY <1>7, <2>2, <2>3
  <2>10. CheckReadInv(n, up, rq, k, [rq |-> r, up |-> u1])
    BY <2>3, <2>5, <2>7, <2>8, <2>9, <1>1, <1>2, <1>3, CheckReadFits
  <2>11. QED
    BY <2>10 DEF r, w
<1>11. CASE p \in Packet /\ ~p.forward_checked /\ y = [rq |-> Put(q, k, Marked(p)), up |-> u1]
  <2> DEFINE w == Marked(p)
             r == Put(q, k, w)
  <2>1. /\ w \in Packet /\ w \in SlotType /\ w.line = p.line /\ w.scheduled = p.scheduled
        /\ w.forward_checked /\ w.to_return = p.to_return
    BY <1>11, MarkedType DEF SlotType
  <2> HIDE DEF w
  <2>2. /\ r \in SlotsOf(n) /\ \A j \in 1 .. n : r[j] = IF j = k THEN w ELSE q[j]
        /\ \A D : /\ Count(r, D) \in Nat /\ Count(q, D) \in Nat
                  /\ Count(r, D) + One(q[k] \in D) = Count(q, D) + One(w \in D)
    BY <1>1, <2>1, SlotReplaced
  <2>3. Sifted(q, r)
    BY <1>1, <1>11, <2>1, PutSifts
  <2> HIDE DEF r
  <2>4. r \in Seq(SlotType)
    BY <2>2, SlotFacts
  <2>5. ASSUME NEW u \in Upper, NEW line \in Line
        PROVE  Owed(u1, r, u, line) = Owed(u1, q, u, line)
    <3> DEFINE D == Owes(u, line)
               a == Owed(u1, r, u, line)
               b == Count(q, D)
               c == Owed(u1, q, u, line)
               d == Count(r, D)
    <3>1. a + b = c + d /\ a \in Nat /\ b \in Nat /\ c \in Nat /\ d \in Nat
      BY <1>1, <1>4, <2>4, OwedBySlots
    <3>2. p \in D <=> w \in D
      BY <1>11, <2>1 DEF Owes
    <3>3. d + One(p \in D) = b + One(w \in D)
      BY <2>2
    <3>4. One(p \in D) = One(w \in D) /\ One(p \in D) \in Nat
      BY <3>2 DEF One
    <3> HIDE DEF D, a, b, c, d, p
    <3>5. d = b
      BY <3>1, <3>3, <3>4
    <3>6. a = c
      BY <3>1, <3>5
    <3>7. QED
      BY <3>6 DEF a, c
  <2>6. \A j \in 1 .. n : r[j] # NoPacket /\ (j = k \/ (q[j] # NoPacket /\ q[j].forward_checked))
                              => r[j].forward_checked
    BY <2>1, <2>2
  <2>7. \A j \in 1 .. n : j # k /\ q[j] = NoPacket => r[j] = NoPacket
    BY <2>2
  <2>8. CheckReadInv(n, up, rq, k, [rq |-> r, up |-> u1])
    BY <2>2, <2>3, <2>5, <2>6, <2>7, <1>1, <1>2, <1>3, CheckReadFits
  <2>9. QED
    BY <2>8, <1>11 DEF r, w, y
<1>12. CASE /\ p \in Packet /\ ~p.forward_checked
            /\ \E m \in 1 .. n :
                  /\ m # k /\ q[m] \in Packet /\ q[m].line = p.line
                  /\ y = [rq |-> Put(r1, m, Joined(q[m], p)), up |-> u1]
  BY <1>10, <1>12 DEF y
<1>13. QED
  BY <1>5, <1>6, <1>9, <1>11, <1>12 DEF r1, y

\* check_read_collision for one slot after the other.
LEMMA CheckReadSteps ==
  ASSUME NEW n \in Nat, NEW rq \in SlotsOf(n), NEW up \in Uppers, NEW wq
  PROVE  \E it :
            /\ CheckReads(rq, up, wq) = it[1 .. n]
            /\ it[1 .. 0] = [rq |-> rq, up |-> up]
            /\ \A k \in 1 .. n : it[1 .. k] = CheckRead(it[1 .. k - 1], k, wq)
<1> DEFINE order == Slots(rq)
           T == Reading(n)
           b == [rq |-> rq, up |-> up]
           F == [z \in T \X (1 .. n) |-> CheckRead(z[1], order[z[2]], wq)]
<1>1. DOMAIN order = 1 .. n /\ \A k \in 1 .. n : order[k] = k
  BY SlotsInOrder
<1> HIDE DEF order
<1>a. b \in T
  BY DEF Reading
<1> HIDE DEF b
<1>2. F \in [T \X (1 .. n) -> T]
  <2>1. \A x \in T, k \in 1 .. n : CheckRead(x, order[k], wq) \in T
    BY <1>1, CheckReadType
  <2>2. QED
    BY <2>1
<1>3. PICK jt \in [SUBSET (1 .. n) -> T] : FoldsTo(jt, n, b, F)
  <2> HIDE DEF F, T
  <2>1. QED
    BY <1>2, <1>a, FoldExists
<1>4. jt = [s \in SUBSET DOMAIN order |->
               IF s = {} THEN b ELSE CheckRead(jt[s \ {Max(s)}], order[Max(s)], wq)]
  <2>1. ASSUME NEW s \in SUBSET (1 .. n), s # {}
        PROVE  F[<<jt[s \ {Top(s)}], Top(s)>>] = CheckRead(jt[s \ {Max(s)}], order[Max(s)], wq)
    <3>1. Top(s) \in 1 .. n
      BY <2>1, TopOf
    <3>2. jt[s \ {Top(s)}] \in T
      BY <1>3
    <3>3. Max(s) = Top(s)
      BY DEF Max, Top
    <3>4. QED
      BY <3>1, <3>2, <3>3
  <2> HIDE DEF F
  <2>2. \A s \in SUBSET (1 .. n) :
           jt[s] = IF s = {} THEN b ELSE F[<<jt[s \ {Top(s)}], Top(s)>>]
    BY <1>3 DEF FoldsTo
  <2>3. QED
    BY <2>1, <2>2, <1>1, <1>3
<1>5. PICK it : /\ it = [s \in SUBSET DOMAIN order |->
                            IF s = {} THEN b ELSE CheckRead(it[s \ {Max(s)}], order[Max(s)], wq)]
                /\ CheckReads(rq, up, wq) = it[DOMAIN order]
  BY <1>4, Zenon DEF FoldLeft, MapThenFoldSet, CheckReads, order, b
<1>6. it[1 .. 0] = b
  <2>1. 1 .. 0 = {} /\ {} \in SUBSET DOMAIN order
    OBVIOUS
  <2>2. QED
    BY <1>5, <2>1
<1>7. ASSUME NEW k \in 1 .. n
      PROVE  it[1 .. k] = CheckRead(it[1 .. k - 1], k, wq)
  <2>1. /\ Top(1 .. k) = k /\ (1 .. k) \ {k} = 1 .. k - 1 /\ 1 .. k # {}
        /\ 1 .. k \in SUBSET DOMAIN order
    <3>1. k \in Nat \ {0} /\ 1 .. k \in SUBSET (1 .. n)
      OBVIOUS
    <3>2. QED
      BY <1>1, <3>1, TopOfFirst
  <2>2. Max(1 .. k) = k
    BY <2>1 DEF Max, Top
  <2>3. it[1 .. k] = CheckRead(it[(1 .. k) \ {Max(1 .. k)}], order[Max(1 .. k)], wq)
    BY <1>5, <2>1
  <2>4. QED
    BY <1>1, <2>1, <2>2, <2>3
<1>8. QED
  BY <1>1, <1>5, <1>6, <1>7 DEF b

\* All reads are checked; those that had been are still there, and nothing that was
\* owed is lost or owed twice.
LEMMA CheckReadsResult ==
  ASSUME NEW n \in Nat, NEW rq \in SlotsOf(n), NEW up \in Uppers, NEW wq, QuietWrites(up),
         \A u \in Upper, line \in Line : Owed(up, rq, u, line) <= 1
  PROVE  LET end == CheckReads(rq, up, wq)
         IN  /\ end.rq \in SlotsOf(n) /\ end.up \in Uppers
             /\ Sifted(rq, end.rq) /\ AllChecked(end.rq) /\ QuietWrites(end.up)
             /\ \A u \in Upper, line \in Line : Owed(end.up, end.rq, u, line) = Owed(up, rq, u, line)
<1>1. PICK it : /\ CheckReads(rq, up, wq) = it[1 .. n]
                /\ it[1 .. 0] = [rq |-> rq, up |-> up]
                /\ \A k \in 1 .. n : it[1 .. k] = CheckRead(it[1 .. k - 1], k, wq)
  BY CheckReadSteps, SMTT(60)
<1> DEFINE b == [rq |-> rq, up |-> up]
           end == CheckReads(rq, up, wq)
<1> HIDE DEF end
<1> DEFINE S == {k \in 0 .. n : CheckReadInv(n, up, rq, k, it[1 .. k])}
<1>2. 0 \in S
  <2>1. b.rq = rq /\ b.up = up /\ b \in Reading(n) /\ Sifted(rq, rq)
    BY SiftedSelf DEF Reading
  <2> HIDE DEF b
  <2>2. CheckReadInv(n, up, rq, 0, b)
    BY <2>1 DEF CheckReadInv
  <2>3. QED
    BY <1>1, <2>2 DEF b
<1>3. ASSUME NEW k \in 1 .. n, k - 1 \in S
      PROVE  k \in S
  <2>1. CheckReadInv(n, up, rq, k - 1, it[1 .. k - 1]) /\ k \in 0 .. n
    BY <1>3
  <2>2. CheckReadInv(n, up, rq, k, CheckRead(it[1 .. k - 1], k, wq))
    BY <2>1, CheckReadKeeps
  <2>3. QED
    BY <2>1, <2>2, <1>1
<1>4. n \in S
  <2> HIDE DEF S
  <2>1. n \in 0 .. n
    OBVIOUS
  <2>2. QED
    BY <1>2, <1>3, <2>1, UpTo
<1>5. CheckReadInv(n, up, rq, n, end)
  BY <1>1, <1>4 DEF end
<1>6. end.rq \in SlotsOf(n) /\ end.up \in Uppers
  BY <1>5 DEF CheckReadInv, Reading
<1>7. DOMAIN end.rq = 1 .. n
  BY <1>6, SlotFacts
<1>8. AllChecked(end.rq)
  BY <1>5, <1>7 DEF CheckReadInv, AllChecked
<1>9. QED
  BY <1>5, <1>6, <1>8 DEF CheckReadInv, end

-----------------------------------------------------------------------------
(* Banks and packets. *)

\* The busy banks that serve from these slots (w: the write slots) and the scheduled
\* packets in them are paired, by bank_request's iterator and the packet's address.
Paired(bank, w, q) ==
    /\ \A b \in Banks : bank[b].valid /\ bank[b].write = w =>
          /\ bank[b].pkt \in DOMAIN q /\ q[bank[b].pkt] # NoPacket
          /\ q[bank[b].pkt].scheduled /\ BankOf[q[bank[b].pkt].line] = b
    /\ \A i \in DOMAIN q : q[i] # NoPacket /\ q[i].scheduled =>
          /\ bank[BankOf[q[i].line]].valid /\ bank[BankOf[q[i].line]].write = w
          /\ bank[BankOf[q[i].line]].pkt = i

\* Only checked packets are scheduled.
ScheduledChecked(q) ==
    \A i \in DOMAIN q : q[i] # NoPacket /\ q[i].scheduled => q[i].forward_checked

\* The bank of a packet is a bank.
LEMMA BankOfLine ==
  ASSUME NEW p \in Packet
  PROVE  p.line \in Line /\ BankOf[p.line] \in Banks
BY DRAMAssumption DEF Packet

\* New packets do not disturb the pairs.
LEMMA PairedWhenFilled ==
  ASSUME NEW n \in Nat, NEW q \in SlotsOf(n), NEW r \in SlotsOf(n), Filled(q, r),
         NEW bank, NEW w, Paired(bank, w, q)
  PROVE  /\ Paired(bank, w, r)
         /\ ScheduledChecked(q) => ScheduledChecked(r)
<1>1. /\ DOMAIN q = 1 .. n /\ DOMAIN r = 1 .. n
      /\ \A i \in 1 .. n : q[i] # NoPacket => r[i] = q[i]
      /\ \A i \in 1 .. n : r[i] # NoPacket /\ r[i].scheduled => r[i] = q[i]
  <2>1. DOMAIN q = 1 .. n /\ DOMAIN r = 1 .. n
    BY SlotFacts
  <2>2. QED
    BY <2>1 DEF Filled
<1>2. Paired(bank, w, r)
  BY <1>1 DEF Paired
<1>3. ScheduledChecked(q) => ScheduledChecked(r)
  BY <1>1 DEF ScheduledChecked
<1>4. QED
  BY <1>2, <1>3

\* Nor do the collision checks, which leave the scheduled packets alone.
LEMMA PairedWhenSifted ==
  ASSUME NEW n \in Nat, NEW q \in SlotsOf(n), NEW r \in SlotsOf(n), Sifted(q, r),
         ScheduledChecked(q), NEW bank, NEW w, Paired(bank, w, q)
  PROVE  Paired(bank, w, r)
<1>1. DOMAIN q = 1 .. n /\ DOMAIN r = 1 .. n
  BY SlotFacts
<1>2. \A i \in 1 .. n : q[i] # NoPacket /\ q[i].scheduled =>
         r[i] # NoPacket /\ r[i].line = q[i].line /\ r[i].scheduled = q[i].scheduled
  BY <1>1, NoPacketAssumption DEF Sifted, ScheduledChecked
<1>3. \A i \in 1 .. n : r[i] # NoPacket =>
         q[i] # NoPacket /\ r[i].line = q[i].line /\ r[i].scheduled = q[i].scheduled
  BY <1>1 DEF Sifted
<1>4. ASSUME NEW b \in Banks, bank[b].valid, bank[b].write = w
      PROVE  /\ bank[b].pkt \in DOMAIN r /\ r[bank[b].pkt] # NoPacket
             /\ r[bank[b].pkt].scheduled /\ BankOf[r[bank[b].pkt].line] = b
  BY <1>1, <1>2, <1>4 DEF Paired
<1>5. ASSUME NEW i \in DOMAIN r, r[i] # NoPacket, r[i].scheduled
      PROVE  /\ bank[BankOf[r[i].line]].valid /\ bank[BankOf[r[i].line]].write = w
             /\ bank[BankOf[r[i].line]].pkt = i
  BY <1>1, <1>3, <1>5 DEF Paired
<1>6. QED
  BY <1>4, <1>5 DEF Paired

\* Banks that change in other respects.
LEMMA PairedAlike ==
  ASSUME NEW bank, NEW other, NEW w, NEW n \in Nat, NEW q \in SlotsOf(n), Paired(bank, w, q),
         \A b \in Banks : /\ other[b].valid = bank[b].valid
                          /\ other[b].write = bank[b].write /\ other[b].pkt = bank[b].pkt
  PROVE  Paired(other, w, q)
<1>1. DOMAIN q = 1 .. n /\ \A i \in 1 .. n : q[i] \in SlotType
  BY SlotFacts
<1>2. \A i \in DOMAIN q : q[i] # NoPacket => BankOf[q[i].line] \in Banks
  BY <1>1, BankOfLine DEF SlotType
<1>3. ASSUME NEW b \in Banks, other[b].valid, other[b].write = w
      PROVE  /\ other[b].pkt \in DOMAIN q /\ q[other[b].pkt] # NoPacket
             /\ q[other[b].pkt].scheduled /\ BankOf[q[other[b].pkt].line] = b
  <2>1. bank[b].valid /\ bank[b].write = w /\ other[b].pkt = bank[b].pkt
    BY <1>3
  <2>2. QED
    BY <2>1 DEF Paired
<1>4. ASSUME NEW i \in DOMAIN q, q[i] # NoPacket, q[i].scheduled
      PROVE  /\ other[BankOf[q[i].line]].valid /\ other[BankOf[q[i].line]].write = w
             /\ other[BankOf[q[i].line]].pkt = i
  <2>1. /\ bank[BankOf[q[i].line]].valid /\ bank[BankOf[q[i].line]].write = w
        /\ bank[BankOf[q[i].line]].pkt = i /\ BankOf[q[i].line] \in Banks
    BY <1>2, <1>4 DEF Paired
  <2>2. QED
    BY <2>1
<1>5. QED
  BY <1>3, <1>4 DEF Paired

\* Packets that change in other respects than line, uppers and forward_checked.
Kept(q, r) ==
    \A i \in DOMAIN q :
       \/ q[i] = NoPacket /\ r[i] = NoPacket
       \/ /\ q[i] \in Packet /\ r[i] \in Packet /\ r[i].line = q[i].line
          /\ r[i].to_return = q[i].to_return /\ r[i].forward_checked = q[i].forward_checked

\* They are as checked, as many and as much owed as before.
LEMMA KeptFacts ==
  ASSUME NEW n \in Nat, NEW q \in SlotsOf(n), NEW r \in SlotsOf(n), Kept(q, r)
  PROVE  /\ AllChecked(q) => AllChecked(r)
         /\ Empty(q) => Empty(r)
         /\ Silent(q) => Silent(r)
         /\ \A up \in Uppers, u \in Upper, line \in Line : Owed(up, r, u, line) = Owed(up, q, u, line)
<1>1. /\ DOMAIN q = 1 .. n /\ DOMAIN r = 1 .. n /\ Len(q) = n /\ Len(r) = n
      /\ q \in Seq(SlotType) /\ r \in Seq(SlotType)
  BY SlotFacts
<1>2. AllChecked(q) => AllChecked(r)
  BY <1>1, NoPacketAssumption DEF AllChecked, Kept
<1>3. Empty(q) => Empty(r)
  BY <1>1, NoPacketAssumption DEF Empty, Kept
<1>4. Silent(q) => Silent(r)
  BY <1>1, NoPacketAssumption DEF Silent, Kept
<1>5. ASSUME NEW up \in Uppers, NEW u \in Upper, NEW line \in Line
      PROVE  Owed(up, r, u, line) = Owed(up, q, u, line)
  <2>1. \A i \in 1 .. n : r[i] \in Owes(u, line) <=> q[i] \in Owes(u, line)
    BY <1>1, NoPacketAssumption DEF Kept, Owes
  <2>2. Count(r, Owes(u, line)) = Count(q, Owes(u, line))
    BY <1>1, <2>1, CountAlike
  <2>3. QED
    BY <2>2 DEF Owed
<1>6. QED
  BY <1>2, <1>3, <1>4, <1>5

\* And those that keep scheduled too.
LEMMA PairedWhenKept ==
  ASSUME NEW n \in Nat, NEW q \in SlotsOf(n), NEW r \in SlotsOf(n), Kept(q, r),
         \A i \in 1 .. n : q[i] # NoPacket => r[i].scheduled = q[i].scheduled,
         NEW bank, NEW w, Paired(bank, w, q)
  PROVE  Paired(bank, w, r)
<1>1. DOMAIN q = 1 .. n /\ DOMAIN r = 1 .. n
  BY SlotFacts
<1>2. \A i \in 1 .. n : /\ q[i] # NoPacket <=> r[i] # NoPacket
                        /\ q[i] # NoPacket => r[i].line = q[i].line
  BY <1>1, NoPacketAssumption DEF Kept
<1>3. ASSUME NEW b \in Banks, bank[b].valid, bank[b].write = w
      PROVE  /\ bank[b].pkt \in DOMAIN r /\ r[bank[b].pkt] # NoPacket
             /\ r[bank[b].pkt].scheduled /\ BankOf[r[bank[b].pkt].line] = b
  BY <1>1, <1>2, <1>3 DEF Paired
<1>4. ASSUME NEW i \in DOMAIN r, r[i] # NoPacket, r[i].scheduled
      PROVE  /\ bank[BankOf[r[i].line]].valid /\ bank[BankOf[r[i].line]].write = w
             /\ bank[BankOf[r[i].line]].pkt = i
  BY <1>1, <1>2, <1>4 DEF Paired
<1>5. QED
  BY <1>3, <1>4 DEF Paired

\* The longest wait of a bank.
Latest == tRFC + tCAS + tRP + tRCD + 2 * RETURN + STALL

\* The record of a bank.
Bank == [valid : BOOLEAN, need_refresh : BOOLEAN, under_refresh : BOOLEAN,
         open_row : {RowOf[l] : l \in Line} \cup {NoRow},
         ready : {t \in Int : t <= Latest}, write : BOOLEAN, pkt : Nat]

BankArray == [Banks -> Bank]

\* bank b is given the record x.
Assign(bank, b, x) == [bank EXCEPT ![b] = x]

\* The other banks are the same.
LEMMA BankAssigned ==
  ASSUME NEW bank \in BankArray, NEW b \in Banks, NEW x \in Bank
  PROVE  /\ Assign(bank, b, x) \in BankArray
         /\ \A c \in Banks : Assign(bank, b, x)[c] = IF c = b THEN x ELSE bank[c]
         /\ bank[b] \in Bank
BY DEF BankArray, Assign

\* finish_dbus_request: the packet leaves with its bank's request.
LEMMA PairedWhenFinished ==
  ASSUME NEW bank \in BankArray, NEW b \in Banks, bank[b].valid, NEW x \in Bank, ~x.valid,
         NEW n \in Nat, NEW q \in SlotsOf(n), NEW w \in BOOLEAN, Paired(bank, w, q)
  PROVE  /\ bank[b].write = w =>
               /\ bank[b].pkt \in 1 .. n /\ q[bank[b].pkt] \in Packet
               /\ Paired(Assign(bank, b, x), w, Put(q, bank[b].pkt, NoPacket))
         /\ bank[b].write # w => Paired(Assign(bank, b, x), w, q)
<1> DEFINE other == Assign(bank, b, x)
           k == bank[b].pkt
           r == Put(q, k, NoPacket)
<1>1. \A c \in Banks : other[c] = IF c = b THEN x ELSE bank[c]
  BY BankAssigned
<1>2. DOMAIN q = 1 .. n /\ \A i \in 1 .. n : q[i] \in SlotType
  BY SlotFacts
<1>3. \A i \in 1 .. n : q[i] # NoPacket => BankOf[q[i].line] \in Banks
  BY <1>2, BankOfLine DEF SlotType
<1> HIDE DEF other
<1>4. ASSUME bank[b].write = w
      PROVE  k \in 1 .. n /\ q[k] \in Packet /\ Paired(other, w, r)
  <2>1. k \in 1 .. n /\ q[k] # NoPacket /\ q[k].scheduled /\ BankOf[q[k].line] = b
    BY <1>2, <1>4 DEF Paired
  <2> HIDE DEF k
  <2>2. q[k] \in Packet /\ NoPacket \in SlotType
    BY <1>2, <2>1 DEF SlotType
  <2>3. r \in SlotsOf(n) /\ \A i \in 1 .. n : r[i] = IF i = k THEN NoPacket ELSE q[i]
    <3>1. r \in SlotsOf(n)
      BY <2>1, <2>2, SlotReplaced
    <3>2. \A i \in 1 .. n : r[i] = IF i = k THEN NoPacket ELSE q[i]
      BY <2>1, <2>2, SlotReplaced
    <3>3. QED
      BY <3>1, <3>2
  <2> HIDE DEF r
  <2>4. DOMAIN r = 1 .. n
    BY <2>3, SlotFacts
  <2>5. ASSUME NEW c \in Banks, other[c].valid, other[c].write = w
        PROVE  /\ other[c].pkt \in DOMAIN r /\ r[other[c].pkt] # NoPacket
               /\ r[other[c].pkt].scheduled /\ BankOf[r[other[c].pkt].line] = c
    <3>1. c # b /\ other[c] = bank[c]
      BY <1>1, <2>5
    <3>2. /\ bank[c].pkt \in 1 .. n /\ q[bank[c].pkt] # NoPacket
          /\ q[bank[c].pkt].scheduled /\ BankOf[q[bank[c].pkt].line] = c
      BY <1>2, <2>5, <3>1 DEF Paired
    <3>3. bank[c].pkt # k
      BY <2>1, <3>1, <3>2
    <3>4. r[bank[c].pkt] = q[bank[c].pkt]
      BY <2>3, <3>2, <3>3
    <3>5. QED
      BY <2>4, <3>1, <3>2, <3>4
  <2>6. ASSUME NEW i \in DOMAIN r, r[i] # NoPacket, r[i].scheduled
        PROVE  /\ other[BankOf[r[i].line]].valid /\ other[BankOf[r[i].line]].write = w
               /\ other[BankOf[r[i].line]].pkt = i
    <3>1. i # k /\ r[i] = q[i] /\ i \in 1 .. n
      BY <2>3, <2>4, <2>6
    <3> DEFINE c == BankOf[q[i].line]
    <3>2. bank[c].valid /\ bank[c].write = w /\ bank[c].pkt = i /\ c \in Banks
      BY <1>2, <1>3, <2>6, <3>1 DEF Paired
    <3>3. c # b
      BY <3>1, <3>2 DEF k
    <3>4. other[c] = bank[c]
      BY <1>1, <3>2, <3>3
    <3>5. QED
      BY <3>1, <3>2, <3>4
  <2>7. QED
    BY <2>1, <2>2, <2>5, <2>6 DEF Paired
<1>5. ASSUME bank[b].write # w
      PROVE  Paired(other, w, q)
  <2>1. ASSUME NEW c \in Banks, other[c].valid, other[c].write = w
        PROVE  /\ other[c].pkt \in DOMAIN q /\ q[other[c].pkt] # NoPacket
               /\ q[other[c].pkt].scheduled /\ BankOf[q[other[c].pkt].line] = c
    <3>1. other[c] = bank[c]
      BY <1>1, <2>1
    <3>2. QED
      BY <2>1, <3>1 DEF Paired
  <2>2. ASSUME NEW i \in DOMAIN q, q[i] # NoPacket, q[i].scheduled
        PROVE  /\ other[BankOf[q[i].line]].valid /\ other[BankOf[q[i].line]].write = w
               /\ other[BankOf[q[i].line]].pkt = i
    <3> DEFINE c == BankOf[q[i].line]
    <3>1. bank[c].valid /\ bank[c].write = w /\ bank[c].pkt = i /\ c \in Banks
      BY <1>2, <1>3, <2>2 DEF Paired
    <3>2. c # b
      BY <1>5, <3>1
    <3>3. other[c] = bank[c]
      BY <1>1, <3>1, <3>2
    <3>4. QED
      BY <3>1, <3>3
  <2>3. QED
    BY <2>1, <2>2 DEF Paired
<1>6. QED
  BY <1>4, <1>5 DEF other

\* service_packet: a packet of a free bank is scheduled.
LEMMA PairedWhenServed ==
  ASSUME NEW bank \in BankArray, NEW n \in Nat, NEW q \in SlotsOf(n), NEW w \in BOOLEAN,
         NEW i \in 1 .. n, q[i] # NoPacket, ~q[i].scheduled, NEW p \in Packet, p.line = q[i].line,
         p.scheduled, NEW b \in Banks, b = BankOf[q[i].line], ~bank[b].valid,
         NEW x \in Bank, x.valid, x.write = w, x.pkt = i, Paired(bank, w, q)
  PROVE  /\ Paired(Assign(bank, b, x), w, Put(q, i, p))
         /\ \A m \in Nat : \A q2 \in SlotsOf(m) :
               Paired(bank, ~w, q2) => Paired(Assign(bank, b, x), ~w, q2)
<1> DEFINE other == Assign(bank, b, x)
           r == Put(q, i, p)
<1>1. \A c \in Banks : other[c] = IF c = b THEN x ELSE bank[c]
  BY BankAssigned
<1>2. DOMAIN q = 1 .. n /\ \A j \in 1 .. n : q[j] \in SlotType
  BY SlotFacts
<1>3. \A j \in 1 .. n : q[j] # NoPacket => BankOf[q[j].line] \in Banks
  BY <1>2, BankOfLine DEF SlotType
<1> HIDE DEF other
<1>4. p \in SlotType /\ p # NoPacket
  BY NoPacketAssumption DEF SlotType
<1>5. r \in SlotsOf(n) /\ \A j \in 1 .. n : r[j] = IF j = i THEN p ELSE q[j]
  <2>1. r \in SlotsOf(n)
    BY <1>4, SlotReplaced, SMT
  <2>2. \A j \in 1 .. n : r[j] = IF j = i THEN p ELSE q[j]
    BY <1>4, SlotReplaced, SMT
  <2>3. QED
    BY <2>1, <2>2
<1> HIDE DEF r
<1>6. DOMAIN r = 1 .. n
  BY <1>5, SlotFacts
<1>7. ASSUME NEW c \in Banks, other[c].valid, other[c].write = w
      PROVE  /\ other[c].pkt \in DOMAIN r /\ r[other[c].pkt] # NoPacket
             /\ r[other[c].pkt].scheduled /\ BankOf[r[other[c].pkt].line] = c
  <2>1. CASE c = b
    <3>1. other[c].pkt = i /\ r[i] = p
      BY <2>1, <1>1, <1>5
    <3>2. QED
      BY <2>1, <3>1, <1>4, <1>6
  <2>2. CASE c # b
    <3>1. other[c] = bank[c]
      BY <2>2, <1>1
    <3>2. /\ bank[c].pkt \in 1 .. n /\ q[bank[c].pkt] # NoPacket
          /\ q[bank[c].pkt].scheduled /\ BankOf[q[bank[c].pkt].line] = c
      BY <1>2, <1>7, <3>1 DEF Paired
    <3>3. r[bank[c].pkt] = q[bank[c].pkt]
      BY <1>5, <3>2
    <3>4. QED
      BY <1>6, <3>1, <3>2, <3>3
  <2>3. QED
    BY <2>1, <2>2
<1>8. ASSUME NEW j \in DOMAIN r, r[j] # NoPacket, r[j].scheduled
      PROVE  /\ other[BankOf[r[j].line]].valid /\ other[BankOf[r[j].line]].write = w
             /\ other[BankOf[r[j].line]].pkt = j
  <2>1. CASE j = i
    <3>1. r[j] = p /\ other[b] = x
      BY <2>1, <1>1, <1>5, <1>6
    <3>2. QED
      BY <2>1, <3>1
  <2>2. CASE j # i
    <3>1. r[j] = q[j] /\ j \in 1 .. n
      BY <2>2, <1>5, <1>6, <1>8
    <3> DEFINE c == BankOf[q[j].line]
    <3>2. bank[c].valid /\ bank[c].write = w /\ bank[c].pkt = j /\ c \in Banks
      BY <1>2, <1>3, <1>8, <3>1 DEF Paired
    <3>3. other[c] = bank[c]
      BY <1>1, <3>2
    <3>4. QED
      BY <3>1, <3>2, <3>3
  <2>3. QED
    BY <2>1, <2>2
<1>9. ASSUME NEW m \in Nat, NEW q2 \in SlotsOf(m), Paired(bank, ~w, q2)
      PROVE  Paired(other, ~w, q2)
  <2>1. DOMAIN q2 = 1 .. m /\ \A j \in 1 .. m : q2[j] # NoPacket => BankOf[q2[j].line] \in Banks
    <3>1. DOMAIN q2 = 1 .. m /\ \A j \in 1 .. m : q2[j] \in SlotType
      BY SlotFacts
    <3>2. QED
      BY <3>1, BankOfLine DEF SlotType
  <2>2. ASSUME NEW c \in Banks, other[c].valid, other[c].write = ~w
        PROVE  /\ other[c].pkt \in DOMAIN q2 /\ q2[other[c].pkt] # NoPacket
               /\ q2[other[c].pkt].scheduled /\ BankOf[q2[other[c].pkt].line] = c
    <3>1. other[c] = bank[c]
      BY <1>1, <2>2
    <3>2. QED
      BY <1>9, <2>2, <3>1 DEF Paired
  <2>3. ASSUME NEW j \in DOMAIN q2, q2[j] # NoPacket, q2[j].scheduled
        PROVE  /\ other[BankOf[q2[j].line]].valid /\ other[BankOf[q2[j].line]].write = ~w
               /\ other[BankOf[q2[j].line]].pkt = j
    <3> DEFINE c == BankOf[q2[j].line]
    <3>1. bank[c].valid /\ bank[c].write = ~w /\ bank[c].pkt = j /\ c \in Banks
      BY <1>9, <2>1, <2>3 DEF Paired
    <3>2. other[c] = bank[c]
      BY <1>1, <3>1
    <3>3. QED
      BY <3>1, <3>2
  <2>4. QED
    BY <2>2, <2>3 DEF Paired
<1>10. QED
  BY <1>7, <1>8, <1>9 DEF Paired, other, r

\* A packet is taken back.
LEMMA Rescheduled ==
  ASSUME NEW p \in Packet
  PROVE  LET x == [p EXCEPT !.scheduled = FALSE, !.age = 0]
         IN  /\ x \in Packet /\ ~x.scheduled /\ x.line = p.line
             /\ x.to_return = p.to_return /\ x.forward_checked = p.forward_checked
BY DEF Packet

\* The places from which packets are taken back.
BackPlaces(bank, active, w) ==
    {bank[b].pkt : b \in {c \in Banks \ {active} : bank[c].valid /\ bank[c].write = w}}

\* swap_write_mode: those packets are not scheduled any more.
LEMMA PairedWhenRecalled ==
  ASSUME NEW bank \in BankArray, NEW active, NEW other \in BankArray,
         \A b \in Banks :
            IF b # active /\ bank[b].valid THEN ~other[b].valid ELSE other[b] = bank[b],
         NEW n \in Nat, NEW q \in SlotsOf(n), NEW w \in BOOLEAN, Paired(bank, w, q)
  PROVE  LET r == Unschedule(q, BackPlaces(bank, active, w))
         IN  r \in SlotsOf(n) /\ Kept(q, r) /\ Paired(other, w, r)
<1> DEFINE back == BackPlaces(bank, active, w)
           r == Unschedule(q, back)
<1>1. DOMAIN q = 1 .. n /\ \A i \in 1 .. n : q[i] \in SlotType
  BY SlotFacts
<1>2. \A i \in 1 .. n : q[i] # NoPacket => BankOf[q[i].line] \in Banks
  BY <1>1, BankOfLine DEF SlotType
<1>3. ASSUME NEW i \in back
      PROVE  i \in 1 .. n /\ q[i] \in Packet /\ q[i].scheduled
  <2>1. PICK b \in Banks : b # active /\ bank[b].valid /\ bank[b].write = w /\ i = bank[b].pkt
    BY DEF BackPlaces
  <2>2. i \in 1 .. n /\ q[i] # NoPacket /\ q[i].scheduled
    BY <1>1, <2>1 DEF Paired
  <2>3. QED
    BY <1>1, <2>2 DEF SlotType
<1>4. DOMAIN r = 1 .. n /\ r = [i \in 1 .. n |-> r[i]]
  BY <1>1 DEF Unschedule
<1>5. \A i \in 1 .. n : r[i] = IF i \in back THEN [q[i] EXCEPT !.scheduled = FALSE, !.age = 0] ELSE q[i]
  BY <1>1 DEF Unschedule
<1> HIDE DEF back, r
<1>6. ASSUME NEW i \in back
      PROVE  /\ r[i] \in Packet /\ ~r[i].scheduled /\ r[i].line = q[i].line
             /\ r[i].to_return = q[i].to_return /\ r[i].forward_checked = q[i].forward_checked
  <2>1. i \in 1 .. n /\ q[i] \in Packet /\ r[i] = [q[i] EXCEPT !.scheduled = FALSE, !.age = 0]
    BY <1>3, <1>5
  <2>2. QED
    BY <2>1, Rescheduled
<1>7. r \in SlotsOf(n)
  <2>1. \A i \in 1 .. n : r[i] \in SlotType
    BY <1>1, <1>5, <1>6 DEF SlotType
  <2>2. r \in [1 .. n -> SlotType]
    BY <1>4, <2>1
  <2>3. QED
    BY <2>2, SlotsAreSequence
<1>8. Kept(q, r)
  <2> SUFFICES ASSUME NEW i \in 1 .. n
               PROVE  \/ q[i] = NoPacket /\ r[i] = NoPacket
                      \/ /\ q[i] \in Packet /\ r[i] \in Packet /\ r[i].line = q[i].line
                         /\ r[i].to_return = q[i].to_return
                         /\ r[i].forward_checked = q[i].forward_checked
    BY <1>1 DEF Kept
  <2>1. CASE i \in back
    BY <2>1, <1>3, <1>6
  <2>2. CASE i \notin back
    BY <2>2, <1>1, <1>5 DEF SlotType
  <2>3. QED
    BY <2>1, <2>2
<1>9. ASSUME NEW b \in Banks, other[b].valid, other[b].write = w
      PROVE  /\ other[b].pkt \in DOMAIN r /\ r[other[b].pkt] # NoPacket
             /\ r[other[b].pkt].scheduled /\ BankOf[r[other[b].pkt].line] = b
  <2>1. other[b] = bank[b] /\ ~(b # active /\ bank[b].valid)
    BY <1>9
  <2>2. /\ bank[b].pkt \in 1 .. n /\ q[bank[b].pkt] # NoPacket
        /\ q[bank[b].pkt].scheduled /\ BankOf[q[bank[b].pkt].line] = b
    BY <1>1, <1>9, <2>1 DEF Paired
  <2>3. bank[b].pkt \notin back
    <3>1. SUFFICES ASSUME bank[b].pkt \in back PROVE FALSE
      OBVIOUS
    <3>2. PICK c \in Banks : c # active /\ bank[c].valid /\ bank[c].write = w /\ bank[b].pkt = bank[c].pkt
      BY <3>1 DEF back, BackPlaces
    <3>3. BankOf[q[bank[c].pkt].line] = c
      BY <3>2 DEF Paired
    <3>4. b = c
      BY <2>2, <3>2, <3>3
    <3>5. QED
      BY <2>1, <3>2, <3>4
  <2>4. r[bank[b].pkt] = q[bank[b].pkt]
    BY <1>5, <2>2, <2>3
  <2>5. QED
    BY <1>4, <2>1, <2>2, <2>4
<1>10. ASSUME NEW i \in DOMAIN r, r[i] # NoPacket, r[i].scheduled
       PROVE  /\ other[BankOf[r[i].line]].valid /\ other[BankOf[r[i].line]].write = w
              /\ other[BankOf[r[i].line]].pkt = i
  <2>1. i \in 1 .. n /\ i \notin back
    BY <1>4, <1>6, <1>10
  <2>2. r[i] = q[i]
    BY <1>5, <2>1
  <2> DEFINE c == BankOf[q[i].line]
  <2>3. bank[c].valid /\ bank[c].write = w /\ bank[c].pkt = i /\ c \in Banks
    BY <1>1, <1>2, <1>10, <2>1, <2>2 DEF Paired
  <2>4. c = active
    <3>1. SUFFICES ASSUME c # active PROVE FALSE
      OBVIOUS
    <3>2. i \in back
      BY <2>3, <3>1 DEF back, BackPlaces
    <3>3. QED
      BY <2>1, <3>2
  <2>5. other[c] = bank[c]
    BY <2>3, <2>4
  <2>6. QED
    BY <2>2, <2>3, <2>5
<1>11. QED
  BY <1>7, <1>8, <1>9, <1>10 DEF Paired, back, r

-----------------------------------------------------------------------------
(* The inductive invariant. *)

\* The types of the variables.
StateTypes ==
    /\ upper \in Uppers /\ RQ \in SlotsOf(RQ_SIZE) /\ WQ \in SlotsOf(WQ_SIZE)
    /\ bank_request \in BankArray
    /\ active_request \in Banks \cup {NoBank}
    /\ write_mode \in BOOLEAN /\ warmup \in BOOLEAN
    /\ bankgroup_readytime \in [Groups -> 0 .. RETURN + STALL]
    /\ refresh_in \in 0 .. tREF
    /\ wait \in [Upper -> SUBSET Line]

\* Both kinds of slots are paired with their banks; the bus serves a busy bank.
BanksArePaired ==
    /\ Paired(bank_request, FALSE, RQ) /\ Paired(bank_request, TRUE, WQ)
    /\ active_request # NoBank => bank_request[active_request].valid
    /\ \A b \in Banks : ~(bank_request[b].valid /\ bank_request[b].under_refresh)

\* Only between initiate_requests and the collision checks are there unchecked
\* packets, and packets in a warmup phase; in a warmup phase no bank is busy.
ChecksAreDone ==
    /\ stage = "collide" => ScheduledChecked(RQ) /\ ScheduledChecked(WQ)
    /\ stage # "collide" => AllChecked(RQ) /\ AllChecked(WQ)
    /\ warmup => \A b \in Banks : ~bank_request[b].valid
    /\ warmup /\ stage # "collide" => Empty(RQ) /\ Empty(WQ)

\* What is owed to an upper level is what it waits for, once.
OwedAsAwaited(up, rq, waiting) ==
    \A u \in Upper, line \in Line : Owed(up, rq, u, line) = One(line \in waiting[u])

\* Reads are owed once and writes are not.
ReadsAreOwed ==
    /\ QuietWrites(upper) /\ Silent(WQ)
    /\ OwedAsAwaited(upper, RQ, wait)

\* After schedule_refresh only a busy bank still needs a refresh.
NeedyIsBusy ==
    stage \in {"populate", "service"} =>
       \A b \in Banks : bank_request[b].need_refresh => bank_request[b].valid

DRAMInv == StateTypes /\ BanksArePaired /\ ChecksAreDone /\ ReadsAreOwed /\ NeedyIsBusy

\* The sizes and latencies are numbers.
LEMMA LatenciesAreNumbers ==
  /\ RQ_SIZE \in Nat /\ WQ_SIZE \in Nat
  /\ tCAS \in Nat /\ tRP \in Nat /\ tRCD \in Nat /\ tRFC \in Nat /\ tREF \in Nat
  /\ RETURN \in Nat /\ STALL \in Nat /\ NumBanks \in Nat /\ Latest \in Nat
BY DRAMAssumption DEF Latest

\* Nothing is in the slots, no bank is busy.
LEMMA PairedWhenIdle ==
  ASSUME NEW n \in Nat, NEW q \in SlotsOf(n), Empty(q), NEW bank, NEW w,
         \A b \in Banks : ~bank[b].valid
  PROVE  Paired(bank, w, q) /\ ScheduledChecked(q) /\ AllChecked(q) /\ Silent(q)
<1>1. DOMAIN q = 1 .. n
  BY SlotFacts
<1>2. QED
  BY <1>1 DEF Paired, Empty, ScheduledChecked, AllChecked, Silent

\* The slots of reset are empty.
LEMMA NoSlots ==
  ASSUME NEW n \in Nat
  PROVE  [i \in 1 .. n |-> NoPacket] \in SlotsOf(n) /\ Empty([i \in 1 .. n |-> NoPacket])
<1> DEFINE q == [i \in 1 .. n |-> NoPacket]
<1>1. q \in [1 .. n -> SlotType]
  BY DEF SlotType
<1>2. Empty(q)
  BY DEF Empty
<1> HIDE DEF q
<1>3. q \in SlotsOf(n)
  BY <1>1, SlotsAreSequence
<1>4. QED
  BY <1>2, <1>3 DEF q

\* It holds at the start.
LEMMA InitInv ==
  ASSUME DRAMInit
  PROVE  DRAMInv
<1>1. /\ upper = [u \in Upper |-> EmptyChannel]
      /\ RQ = [i \in 1 .. RQ_SIZE |-> NoPacket] /\ WQ = [i \in 1 .. WQ_SIZE |-> NoPacket]
      /\ bank_request = [b \in Banks |-> IdleBank] /\ active_request = NoBank
      /\ write_mode = FALSE
      /\ bankgroup_readytime = [g \in Groups |-> 0]
      /\ refresh_in = tREF /\ warmup \in BOOLEAN /\ stage = "outside"
      /\ wait = [u \in Upper |-> {}]
  BY DEF DRAMInit
<1>2. /\ RQ \in SlotsOf(RQ_SIZE) /\ Empty(RQ) /\ WQ \in SlotsOf(WQ_SIZE) /\ Empty(WQ)
  BY <1>1, NoSlots, LatenciesAreNumbers
<1>3. \A b \in Banks : /\ ~bank_request[b].valid /\ ~bank_request[b].need_refresh
                       /\ ~bank_request[b].under_refresh
  BY <1>1 DEF IdleBank
<1>4. /\ Paired(bank_request, FALSE, RQ) /\ AllChecked(RQ)
      /\ Paired(bank_request, TRUE, WQ) /\ AllChecked(WQ) /\ Silent(WQ)
  BY <1>2, <1>3, PairedWhenIdle, LatenciesAreNumbers
<1>5. StateTypes
  <2>1. EmptyChannel \in UpperChannel
    BY DEF EmptyChannel, UpperChannel, ChannelOf
  <2>2. IdleBank \in Bank
    BY LatenciesAreNumbers DEF IdleBank, Bank
  <2>3. upper \in Uppers /\ bank_request \in BankArray
    BY <1>1, <2>1, <2>2 DEF Uppers, BankArray
  <2>4. bankgroup_readytime \in [Groups -> 0 .. RETURN + STALL] /\ refresh_in \in 0 .. tREF
    BY <1>1, LatenciesAreNumbers
  <2>5. QED
    BY <1>1, <1>2, <2>3, <2>4 DEF StateTypes
<1>6. \A u \in Upper : /\ upper[u].RQ = << >> /\ upper[u].PQ = << >> /\ upper[u].WQ = << >>
                       /\ upper[u].returned = << >>
  BY <1>1 DEF EmptyChannel
<1>7. QuietWrites(upper)
  BY <1>6 DEF QuietWrites
<1>8. ASSUME NEW u \in Upper, NEW line \in Line
      PROVE  Owed(upper, RQ, u, line) = One(line \in wait[u])
  <2>1. Count(RQ, Owes(u, line)) = 0
    <3>1. RQ \in Seq(SlotType) /\ Len(RQ) = RQ_SIZE /\ DOMAIN RQ = 1 .. RQ_SIZE
      BY <1>2, SlotFacts, LatenciesAreNumbers
    <3>2. \A i \in 1 .. Len(RQ) : RQ[i] \notin Owes(u, line)
      BY <1>2, <3>1, NoPacketAssumption DEF Empty, Owes
    <3>3. QED
      BY <3>1, <3>2, CountZero
  <2>2. /\ Count(upper[u].RQ, Wants(line)) = 0 /\ Count(upper[u].PQ, Wants(line)) = 0
        /\ Count(upper[u].returned, {line}) = 0
    BY <1>6, CountEmpty
  <2>3. One(line \in wait[u]) = 0
    BY <1>1 DEF One
  <2>4. QED
    BY <2>1, <2>2, <2>3 DEF Owed
<1>9. QED
  BY <1>1, <1>2, <1>3, <1>4, <1>5, <1>7, <1>8
     DEF DRAMInv, BanksArePaired, ChecksAreDone, ReadsAreOwed, OwedAsAwaited, NeedyIsBusy

\* initiate_requests.
LEMMA InitiateStep ==
  ASSUME DRAMInv, Initiate
  PROVE  DRAMInv'
<1> DEFINE end == FoldLeft(MoveUpper, [up |-> upper, RQ |-> RQ, WQ |-> WQ], SetToSeq(Upper))
<1>1. /\ stage = "initiate" /\ stage' = "collide"
      /\ upper' = end.up /\ RQ' = end.RQ /\ WQ' = end.WQ
      /\ bank_request' = bank_request /\ active_request' = active_request
      /\ write_mode' = write_mode /\ bankgroup_readytime' = bankgroup_readytime
      /\ refresh_in' = refresh_in /\ warmup' = warmup /\ wait' = wait
  BY DEF Initiate, Go, bankVars, externalVars
<1>2. StateTypes /\ BanksArePaired /\ ChecksAreDone /\ ReadsAreOwed
  BY DEF DRAMInv
<1>3. RQ_SIZE \in Nat /\ WQ_SIZE \in Nat
  BY LatenciesAreNumbers
<1>4. upper \in Uppers /\ RQ \in SlotsOf(RQ_SIZE) /\ WQ \in SlotsOf(WQ_SIZE)
  BY <1>2 DEF StateTypes
<1>5. MoveInv(upper, RQ, WQ, end)
  BY <1>2, <1>4, InitiateResult DEF ReadsAreOwed
<1> HIDE DEF end
<1>6. /\ upper' \in Uppers /\ RQ' \in SlotsOf(RQ_SIZE) /\ WQ' \in SlotsOf(WQ_SIZE)
      /\ Filled(RQ, RQ') /\ Filled(WQ, WQ') /\ QuietWrites(upper') /\ Silent(WQ')
      /\ \A u \in Upper, line \in Line : Owed(upper', RQ', u, line) = Owed(upper, RQ, u, line)
  BY <1>1, <1>5 DEF MoveInv, Moving
<1>7. ScheduledChecked(RQ) /\ ScheduledChecked(WQ)
  BY <1>1, <1>2 DEF ChecksAreDone, AllChecked, ScheduledChecked
<1>8. /\ Paired(bank_request, FALSE, RQ') /\ ScheduledChecked(RQ')
      /\ Paired(bank_request, TRUE, WQ') /\ ScheduledChecked(WQ')
  BY <1>2, <1>3, <1>4, <1>6, <1>7, PairedWhenFilled DEF BanksArePaired
<1>9. StateTypes'
  BY <1>1, <1>2, <1>6 DEF StateTypes
<1>10. BanksArePaired'
  BY <1>1, <1>2, <1>8 DEF BanksArePaired
<1>11. ChecksAreDone'
  BY <1>1, <1>2, <1>8 DEF ChecksAreDone
<1>12. ReadsAreOwed'
  BY <1>1, <1>2, <1>6 DEF ReadsAreOwed, OwedAsAwaited
<1>13. NeedyIsBusy'
  BY <1>1 DEF NeedyIsBusy
<1>14. QED
  BY <1>9, <1>10, <1>11, <1>12, <1>13 DEF DRAMInv

\* The collision checks, after the answers of a warmup phase.
LEMMA CollideStep ==
  ASSUME DRAMInv, Collide
  PROVE  DRAMInv'
<1> DEFINE up == IF warmup THEN FoldLeft(AnswerSlot, upper, RQ) ELSE upper
           rq == IF warmup THEN [i \in DOMAIN RQ |-> NoPacket] ELSE RQ
           wq0 == IF warmup THEN [i \in DOMAIN WQ |-> NoPacket] ELSE WQ
           wq == CheckWrites(wq0)
           end == CheckReads(rq, up, wq)
<1>1. /\ stage = "collide" /\ stage' = "finish"
      /\ upper' = end.up /\ RQ' = end.rq /\ WQ' = wq
      /\ bank_request' = bank_request /\ active_request' = active_request
      /\ write_mode' = write_mode /\ bankgroup_readytime' = bankgroup_readytime
      /\ refresh_in' = refresh_in /\ warmup' = warmup /\ wait' = wait
  BY DEF Collide, Go, bankVars, externalVars
<1>2. StateTypes /\ BanksArePaired /\ ChecksAreDone /\ ReadsAreOwed
  BY DEF DRAMInv
<1>3. RQ_SIZE \in Nat /\ WQ_SIZE \in Nat
  BY LatenciesAreNumbers
<1>4. upper \in Uppers /\ RQ \in SlotsOf(RQ_SIZE) /\ WQ \in SlotsOf(WQ_SIZE)
  BY <1>2 DEF StateTypes
<1>5. DOMAIN RQ = 1 .. RQ_SIZE /\ DOMAIN WQ = 1 .. WQ_SIZE
  BY <1>3, <1>4, SlotFacts
<1>6. /\ up \in Uppers /\ rq \in SlotsOf(RQ_SIZE) /\ wq0 \in SlotsOf(WQ_SIZE)
      /\ QuietWrites(up) /\ Silent(wq0)
      /\ ScheduledChecked(rq) /\ ScheduledChecked(wq0)
      /\ Paired(bank_request, FALSE, rq) /\ Paired(bank_request, TRUE, wq0)
      /\ warmup => Empty(rq) /\ Empty(wq0)
      /\ OwedAsAwaited(up, rq, wait)
  <2>1. CASE warmup
    <3>1. rq \in SlotsOf(RQ_SIZE) /\ Empty(rq)
      BY <2>1, <1>3, <1>5, NoSlots
    <3>2. wq0 \in SlotsOf(WQ_SIZE) /\ Empty(wq0)
      BY <2>1, <1>3, <1>5, NoSlots
    <3>3. up = FoldLeft(AnswerSlot, upper, RQ)
      BY <2>1
    <3> HIDE DEF rq, wq0, up
    <3>4. /\ up \in Uppers /\ QuietWrites(up)
          /\ \A u \in Upper, line \in Line : Owed(up, rq, u, line) = Owed(upper, RQ, u, line)
      BY <3>1, <3>3, <1>2, <1>3, <1>4, WarmupResult DEF ReadsAreOwed
    <3>5. \A b \in Banks : ~bank_request[b].valid
      BY <2>1, <1>2 DEF ChecksAreDone
    <3>6. Paired(bank_request, FALSE, rq) /\ ScheduledChecked(rq)
      BY <3>1, <3>5, <1>3, PairedWhenIdle
    <3>7. Paired(bank_request, TRUE, wq0) /\ ScheduledChecked(wq0) /\ Silent(wq0)
      BY <3>2, <3>5, <1>3, PairedWhenIdle
    <3>8. OwedAsAwaited(up, rq, wait)
      BY <3>4, <1>2 DEF ReadsAreOwed, OwedAsAwaited
    <3>9. QED
      BY <3>1, <3>2, <3>4, <3>6, <3>7, <3>8
  <2>2. CASE ~warmup
    <3>1. up = upper /\ rq = RQ /\ wq0 = WQ
      BY <2>2
    <3> HIDE DEF rq, wq0, up
    <3>2. QED
      BY <2>2, <3>1, <1>1, <1>2, <1>4 DEF ReadsAreOwed, ChecksAreDone, BanksArePaired
  <2>3. QED
    BY <2>1, <2>2
<1> HIDE DEF up, rq, wq0
<1>7. /\ wq \in SlotsOf(WQ_SIZE) /\ Sifted(wq0, wq) /\ Silent(wq) /\ AllChecked(wq)
  BY <1>3, <1>6, CheckWritesResult
<1> HIDE DEF wq
<1>8. /\ end.rq \in SlotsOf(RQ_SIZE) /\ end.up \in Uppers
      /\ Sifted(rq, end.rq) /\ AllChecked(end.rq) /\ QuietWrites(end.up)
      /\ \A u \in Upper, line \in Line : Owed(end.up, end.rq, u, line) = Owed(up, rq, u, line)
  <2>1. \A u \in Upper, line \in Line : Owed(up, rq, u, line) <= 1
    BY <1>6 DEF OwedAsAwaited, One
  <2>2. QED
    BY <2>1, <1>3, <1>6, CheckReadsResult
<1> HIDE DEF end
<1>9. /\ upper' \in Uppers /\ RQ' \in SlotsOf(RQ_SIZE) /\ WQ' \in SlotsOf(WQ_SIZE)
      /\ Sifted(rq, RQ') /\ AllChecked(RQ') /\ QuietWrites(upper')
      /\ Sifted(wq0, WQ') /\ AllChecked(WQ') /\ Silent(WQ')
      /\ \A u \in Upper, line \in Line : Owed(upper', RQ', u, line) = Owed(up, rq, u, line)
  BY <1>1, <1>7, <1>8
<1>10. Paired(bank_request, FALSE, RQ')
  BY <1>3, <1>6, <1>9, PairedWhenSifted
<1>11. Paired(bank_request, TRUE, WQ')
  BY <1>3, <1>6, <1>9, PairedWhenSifted
<1>12. warmup => Empty(RQ') /\ Empty(WQ')
  <2>1. DOMAIN RQ' = 1 .. RQ_SIZE /\ DOMAIN rq = 1 .. RQ_SIZE
    BY <1>3, <1>6, <1>9, SlotFacts
  <2>2. DOMAIN WQ' = 1 .. WQ_SIZE /\ DOMAIN wq0 = 1 .. WQ_SIZE
    BY <1>3, <1>6, <1>9, SlotFacts
  <2>3. warmup => Empty(RQ')
    BY <2>1, <1>6, <1>9 DEF Empty, Sifted
  <2>4. warmup => Empty(WQ')
    BY <2>2, <1>6, <1>9 DEF Empty, Sifted
  <2>5. QED
    BY <2>3, <2>4
<1>13. StateTypes'
  BY <1>1, <1>2, <1>9 DEF StateTypes
<1>14. BanksArePaired'
  BY <1>1, <1>2, <1>10, <1>11 DEF BanksArePaired
<1>15. ChecksAreDone'
  BY <1>1, <1>2, <1>9, <1>12 DEF ChecksAreDone
<1>16. ReadsAreOwed'
  BY <1>1, <1>6, <1>9 DEF ReadsAreOwed, OwedAsAwaited
<1>17. NeedyIsBusy'
  BY <1>1 DEF NeedyIsBusy
<1>18. QED
  BY <1>13, <1>14, <1>15, <1>16, <1>17 DEF DRAMInv

\* A slot whose packet leaves.
LEMMA SlotEmptied ==
  ASSUME NEW n \in Nat, NEW q \in SlotsOf(n), NEW k \in 1 .. n, q[k] \in Packet
  PROVE  /\ Put(q, k, NoPacket) \in SlotsOf(n)
         /\ AllChecked(q) => AllChecked(Put(q, k, NoPacket))
         /\ Silent(q) => Silent(Put(q, k, NoPacket))
         /\ \A up \in Uppers, u \in Upper, line \in Line :
               Owed(up, Put(q, k, NoPacket), u, line) + One(q[k] \in Owes(u, line)) =
                  Owed(up, q, u, line)
<1> DEFINE r == Put(q, k, NoPacket)
<1>1. NoPacket \in SlotType
  BY DEF SlotType
<1>2. /\ r \in SlotsOf(n) /\ \A j \in 1 .. n : r[j] = IF j = k THEN NoPacket ELSE q[j]
      /\ \A D : /\ Count(r, D) \in Nat /\ Count(q, D) \in Nat
                /\ Count(r, D) + One(q[k] \in D) = Count(q, D) + One(NoPacket \in D)
  BY <1>1, SlotReplaced
<1> HIDE DEF r
<1>3. DOMAIN q = 1 .. n /\ DOMAIN r = 1 .. n /\ q \in Seq(SlotType) /\ r \in Seq(SlotType)
  BY <1>2, SlotFacts
<1>4. AllChecked(q) => AllChecked(r)
  BY <1>2, <1>3 DEF AllChecked
<1>5. Silent(q) => Silent(r)
  BY <1>2, <1>3 DEF Silent
<1>6. ASSUME NEW up \in Uppers, NEW u \in Upper, NEW line \in Line
      PROVE  Owed(up, r, u, line) + One(q[k] \in Owes(u, line)) = Owed(up, q, u, line)
  <2> DEFINE D == Owes(u, line)
             a == Owed(up, r, u, line)
             b == Count(q, D)
             c == Owed(up, q, u, line)
             d == Count(r, D)
             e == One(q[k] \in D)
  <2>1. a + b = c + d /\ a \in Nat /\ b \in Nat /\ c \in Nat /\ d \in Nat
    BY <1>3, OwedBySlots
  <2>2. d + e = b + One(NoPacket \in D)
    BY <1>2
  <2>3. One(NoPacket \in D) = 0 /\ e \in Nat
    BY NoPacketAssumption DEF Owes, One
  <2> HIDE DEF D, a, b, c, d, e
  <2>4. a + e = c
    BY <2>1, <2>2, <2>3
  <2>5. QED
    BY <2>4 DEF D, a, c, e
<1>7. QED
  BY <1>2, <1>4, <1>5, <1>6 DEF r

\* finish_dbus_request.
LEMMA FinishDbusStep ==
  ASSUME DRAMInv, FinishDbus
  PROVE  DRAMInv'
<1>1. /\ stage = "finish" /\ stage' = "swap"
      /\ write_mode' = write_mode /\ bankgroup_readytime' = bankgroup_readytime
      /\ refresh_in' = refresh_in /\ warmup' = warmup /\ wait' = wait
  BY DEF FinishDbus, Go, externalVars
<1>2. StateTypes /\ BanksArePaired /\ ChecksAreDone /\ ReadsAreOwed
  BY DEF DRAMInv
<1>3. RQ_SIZE \in Nat /\ WQ_SIZE \in Nat
  BY LatenciesAreNumbers
<1>4. /\ upper \in Uppers /\ RQ \in SlotsOf(RQ_SIZE) /\ WQ \in SlotsOf(WQ_SIZE)
      /\ bank_request \in BankArray
  BY <1>2 DEF StateTypes
<1>5. NeedyIsBusy'
  BY <1>1 DEF NeedyIsBusy
<1>6. CASE UNCHANGED <<queueVars, bank_request, active_request>>
  <2>1. /\ upper' = upper /\ RQ' = RQ /\ WQ' = WQ
        /\ bank_request' = bank_request /\ active_request' = active_request
    BY <1>6 DEF queueVars
  <2>2. StateTypes' /\ BanksArePaired' /\ ReadsAreOwed'
    BY <2>1, <1>1, <1>2 DEF StateTypes, BanksArePaired, ReadsAreOwed
  <2>3. ChecksAreDone'
    BY <2>1, <1>1, <1>2 DEF ChecksAreDone
  <2>4. QED
    BY <2>2, <2>3, <1>5 DEF DRAMInv
<1>7. CASE active_request # NoBank /\ bank_request[active_request].ready <= 0
  <2> DEFINE a == active_request
             b == bank_request[a]
             x == [b EXCEPT !.valid = FALSE]
             other == Assign(bank_request, a, x)
  <2>1. a \in Banks /\ b.valid /\ b \in Bank /\ b.write \in BOOLEAN
    <3>1. a \in Banks /\ b.valid
      BY <1>2, <1>7 DEF StateTypes, BanksArePaired
    <3>2. b \in Bank
      BY <1>4, <3>1 DEF BankArray
    <3>3. QED
      BY <3>1, <3>2 DEF Bank
  <2>2. x \in Bank /\ ~x.valid /\ x.under_refresh = b.under_refresh
    <3> HIDE DEF b
    <3>1. QED
      BY <2>1 DEF Bank
  <2>3. /\ upper' = Return(upper, PacketOf(a))
        /\ RQ' = IF b.write THEN RQ ELSE [RQ EXCEPT ![b.pkt] = NoPacket]
        /\ WQ' = IF b.write THEN [WQ EXCEPT ![b.pkt] = NoPacket] ELSE WQ
        /\ bank_request' = other /\ active_request' = NoBank
    <3>1. bank_request' = [bank_request EXCEPT ![a].valid = FALSE]
      BY <1>7 DEF FinishDbus
    <3>2. [bank_request EXCEPT ![a].valid = FALSE] = other
      BY DEF Assign
    <3>3. QED
      BY <1>7, <3>1, <3>2 DEF FinishDbus
  <2> HIDE DEF x
  <2>4. other \in BankArray /\ \A c \in Banks : other[c] = IF c = a THEN x ELSE bank_request[c]
    BY <1>4, <2>1, <2>2, BankAssigned
  <2> HIDE DEF b, other
  <2>5. ~warmup
    BY <1>2, <2>1 DEF ChecksAreDone, b
  <2>6. /\ upper' \in Uppers /\ RQ' \in SlotsOf(RQ_SIZE) /\ WQ' \in SlotsOf(WQ_SIZE)
        /\ Paired(other, FALSE, RQ') /\ Paired(other, TRUE, WQ')
        /\ AllChecked(RQ') /\ AllChecked(WQ') /\ QuietWrites(upper') /\ Silent(WQ')
        /\ \A u \in Upper, line \in Line : Owed(upper', RQ', u, line) = Owed(upper, RQ, u, line)
    <3>1. AllChecked(RQ) /\ AllChecked(WQ) /\ QuietWrites(upper) /\ Silent(WQ)
      BY <1>1, <1>2 DEF ChecksAreDone, ReadsAreOwed
    <3>2. Paired(bank_request, FALSE, RQ) /\ Paired(bank_request, TRUE, WQ)
      BY <1>2 DEF BanksArePaired
    <3> DEFINE k == b.pkt
    <3>3. CASE b.write = FALSE
      <4>1. /\ k \in 1 .. RQ_SIZE /\ RQ[k] \in Packet
            /\ Paired(other, FALSE, Put(RQ, k, NoPacket))
        BY <3>2, <3>3, <1>3, <1>4, <2>1, <2>2, PairedWhenFinished DEF b, other
      <4>2. Paired(other, TRUE, WQ)
        BY <3>2, <3>3, <1>3, <1>4, <2>1, <2>2, PairedWhenFinished DEF b, other
      <4>3. upper' = Return(upper, RQ[k]) /\ RQ' = Put(RQ, k, NoPacket) /\ WQ' = WQ
        BY <2>3, <3>3 DEF PacketOf, Put, b
      <4> HIDE DEF k
      <4>4. /\ RQ' \in SlotsOf(RQ_SIZE) /\ AllChecked(RQ')
            /\ \A u \in Upper, line \in Line :
                  Owed(upper, RQ', u, line) + One(RQ[k] \in Owes(u, line)) = Owed(upper, RQ, u, line)
        BY <4>1, <4>3, <3>1, <1>3, <1>4, SlotEmptied
      <4>5. RQ' \in Seq(SlotType)
        BY <4>4, <1>3, SlotFacts
      <4>6. /\ upper' \in Uppers /\ QuietWrites(upper')
            /\ \A u \in Upper, line \in Line :
                  Owed(upper', RQ', u, line) = Owed(upper, RQ', u, line) + One(RQ[k] \in Owes(u, line))
        BY <4>1, <4>3, <4>5, <3>1, <1>4, ReturnFacts
      <4>7. QED
        BY <4>1, <4>2, <4>3, <4>4, <4>6, <3>1, <1>4
    <3>4. CASE b.write = TRUE
      <4>1. /\ k \in 1 .. WQ_SIZE /\ WQ[k] \in Packet
            /\ Paired(other, TRUE, Put(WQ, k, NoPacket))
        BY <3>2, <3>4, <1>3, <1>4, <2>1, <2>2, PairedWhenFinished DEF b, other
      <4>2. Paired(other, FALSE, RQ)
        BY <3>2, <3>4, <1>3, <1>4, <2>1, <2>2, PairedWhenFinished DEF b, other
      <4>3. upper' = Return(upper, WQ[k]) /\ WQ' = Put(WQ, k, NoPacket) /\ RQ' = RQ
        BY <2>3, <3>4 DEF PacketOf, Put, b
      <4> HIDE DEF k
      <4>4. WQ' \in SlotsOf(WQ_SIZE) /\ AllChecked(WQ') /\ Silent(WQ')
        BY <4>1, <4>3, <3>1, <1>3, <1>4, SlotEmptied
      <4>5. WQ[k].to_return = {}
        <5>1. DOMAIN WQ = 1 .. WQ_SIZE
          BY <1>3, <1>4, SlotFacts
        <5>2. QED
          BY <5>1, <4>1, <3>1, NoPacketAssumption DEF Silent
      <4>6. \A u \in Upper, line \in Line : One(WQ[k] \in Owes(u, line)) = 0
        BY <4>5 DEF Owes, One
      <4>7. RQ \in Seq(SlotType)
        BY <1>3, <1>4, SlotFacts
      <4>8. /\ upper' \in Uppers /\ QuietWrites(upper')
            /\ \A u \in Upper, line \in Line :
                  /\ Owed(upper, RQ, u, line) \in Nat
                  /\ Owed(upper', RQ, u, line) = Owed(upper, RQ, u, line) + One(WQ[k] \in Owes(u, line))
        BY <4>1, <4>3, <4>7, <3>1, <1>4, ReturnFacts
      <4>9. \A u \in Upper, line \in Line : Owed(upper', RQ', u, line) = Owed(upper, RQ, u, line)
        BY <4>3, <4>6, <4>8
      <4>10. QED
        BY <4>1, <4>2, <4>3, <4>4, <4>8, <4>9, <3>1, <1>4
    <3>5. QED
      BY <3>3, <3>4, <2>1
  <2>7. StateTypes'
    BY <1>1, <1>2, <2>3, <2>4, <2>6 DEF StateTypes
  <2>8. BanksArePaired'
    BY <1>2, <2>1, <2>2, <2>3, <2>4, <2>6 DEF BanksArePaired
  <2>9. ChecksAreDone'
    BY <1>1, <2>5, <2>6 DEF ChecksAreDone
  <2>10. ReadsAreOwed'
    BY <1>1, <1>2, <2>6 DEF ReadsAreOwed, OwedAsAwaited
  <2>11. QED
    BY <2>7, <2>8, <2>9, <2>10, <1>5 DEF DRAMInv
<1>8. QED
  BY <1>6, <1>7 DEF FinishDbus

\* swap_write_mode.
LEMMA SwapWriteModeStep ==
  ASSUME DRAMInv, SwapWriteMode
  PROVE  DRAMInv'
<1>1. /\ stage = "swap" /\ stage' = "refresh" /\ upper' = upper
      /\ active_request' = active_request /\ bankgroup_readytime' = bankgroup_readytime
      /\ refresh_in' = refresh_in /\ warmup' = warmup /\ wait' = wait
  BY DEF SwapWriteMode, Go, externalVars
<1>2. StateTypes /\ BanksArePaired /\ ChecksAreDone /\ ReadsAreOwed
  BY DEF DRAMInv
<1>3. RQ_SIZE \in Nat /\ WQ_SIZE \in Nat
  BY LatenciesAreNumbers
<1>4. /\ upper \in Uppers /\ RQ \in SlotsOf(RQ_SIZE) /\ WQ \in SlotsOf(WQ_SIZE)
      /\ bank_request \in BankArray /\ write_mode \in BOOLEAN
  BY <1>2 DEF StateTypes
<1>5. NeedyIsBusy'
  BY <1>1 DEF NeedyIsBusy
<1>6. CASE UNCHANGED <<RQ, WQ, bank_request, dbus_cycle_available, write_mode>>
  <2>1. StateTypes' /\ BanksArePaired' /\ ReadsAreOwed'
    BY <1>1, <1>2, <1>6 DEF StateTypes, BanksArePaired, ReadsAreOwed
  <2>2. ChecksAreDone'
    BY <1>1, <1>2, <1>6 DEF ChecksAreDone
  <2>3. QED
    BY <2>1, <2>2, <1>5 DEF DRAMInv
<1>7. CASE SwapNow
  <2> DEFINE Back(b) == [bank_request[b] EXCEPT
                           !.valid = FALSE,
                           !.open_row = IF bank_request[b].ready < tCAS THEN NoRow ELSE @]
             other == [b \in Banks |-> IF b \notin Recalled THEN bank_request[b] ELSE Back(b)]
             reads == {bank_request[b].pkt : b \in {c \in Recalled : ~bank_request[c].write}}
             writes_ == {bank_request[b].pkt : b \in {c \in Recalled : bank_request[c].write}}
  <2>1. /\ bank_request' = other /\ write_mode' = ~write_mode
        /\ RQ' = Unschedule(RQ, reads) /\ WQ' = Unschedule(WQ, writes_)
    BY <1>7 DEF SwapWriteMode
  <2>2. \A b \in Banks : b \in Recalled <=> b # active_request /\ bank_request[b].valid
    BY DEF Recalled
  <2>3. ASSUME NEW b \in Banks
        PROVE  /\ bank_request[b] \in Bank
               /\ Back(b) \in Bank /\ ~Back(b).valid
               /\ Back(b).under_refresh = bank_request[b].under_refresh
    <3> DEFINE x == bank_request[b]
    <3>1. x \in Bank
      BY <1>4 DEF BankArray
    <3>2. Back(b) = [x EXCEPT !.valid = FALSE,
                              !.open_row = IF x.ready < tCAS THEN NoRow ELSE @]
      OBVIOUS
    <3> HIDE DEF x, Back
    <3>3. QED
      BY <3>1, <3>2 DEF Bank, x
  <2> HIDE DEF Back
  <2>4. /\ other \in BankArray
        /\ \A b \in Banks :
              IF b # active_request /\ bank_request[b].valid THEN ~other[b].valid
              ELSE other[b] = bank_request[b]
        /\ \A b \in Banks : other[b].valid => bank_request[b].valid /\ other[b] = bank_request[b]
    <3>1. other \in BankArray
      BY <2>3 DEF BankArray
    <3>2. \A b \in Banks : other[b] = IF b \notin Recalled THEN bank_request[b] ELSE Back(b)
      OBVIOUS
    <3> HIDE DEF other
    <3>3. QED
      BY <3>1, <3>2, <2>2, <2>3
  <2> HIDE DEF other
  <2>5. \A b \in Banks : bank_request[b].write \in BOOLEAN
    BY <2>3 DEF Bank
  <2>6. reads = BackPlaces(bank_request, active_request, FALSE)
    <3>1. {c \in Recalled : ~bank_request[c].write} =
             {c \in Banks \ {active_request} : bank_request[c].valid /\ bank_request[c].write = FALSE}
      BY <2>5 DEF Recalled
    <3>2. QED
      BY <3>1 DEF BackPlaces
  <2>7. writes_ = BackPlaces(bank_request, active_request, TRUE)
    <3>1. {c \in Recalled : bank_request[c].write} =
             {c \in Banks \ {active_request} : bank_request[c].valid /\ bank_request[c].write = TRUE}
      BY <2>5 DEF Recalled
    <3>2. QED
      BY <3>1 DEF BackPlaces
  <2> HIDE DEF reads, writes_
  <2>8. RQ' \in SlotsOf(RQ_SIZE) /\ Kept(RQ, RQ') /\ Paired(other, FALSE, RQ')
    <3>1. Paired(bank_request, FALSE, RQ)
      BY <1>2 DEF BanksArePaired
    <3>2. QED
      BY <3>1, <1>3, <1>4, <2>1, <2>4, <2>6, PairedWhenRecalled
  <2>9. WQ' \in SlotsOf(WQ_SIZE) /\ Kept(WQ, WQ') /\ Paired(other, TRUE, WQ')
    <3>1. Paired(bank_request, TRUE, WQ)
      BY <1>2 DEF BanksArePaired
    <3>2. QED
      BY <3>1, <1>3, <1>4, <2>1, <2>4, <2>7, PairedWhenRecalled
  <2>10. StateTypes'
    BY <1>1, <1>2, <1>4, <2>1, <2>4, <2>8, <2>9 DEF StateTypes
  <2>11. BanksArePaired'
    <3>1. active_request # NoBank => other[active_request].valid
      <4>1. active_request # NoBank => active_request \in Banks /\ bank_request[active_request].valid
        BY <1>2 DEF StateTypes, BanksArePaired
      <4>2. QED
        BY <4>1, <2>4
    <3>2. \A b \in Banks : ~(other[b].valid /\ other[b].under_refresh)
      BY <1>2, <2>4 DEF BanksArePaired
    <3>3. QED
      BY <3>1, <3>2, <1>1, <2>1, <2>8, <2>9 DEF BanksArePaired
  <2>12. ChecksAreDone'
    <3>1. /\ AllChecked(RQ) /\ AllChecked(WQ)
          /\ warmup => (\A b \in Banks : ~bank_request[b].valid) /\ Empty(RQ) /\ Empty(WQ)
      BY <1>1, <1>2 DEF ChecksAreDone
    <3>2. AllChecked(RQ') /\ (Empty(RQ) => Empty(RQ'))
      BY <3>1, <1>3, <1>4, <2>8, KeptFacts
    <3>3. AllChecked(WQ') /\ (Empty(WQ) => Empty(WQ'))
      BY <3>1, <1>3, <1>4, <2>9, KeptFacts
    <3>4. warmup => \A b \in Banks : ~other[b].valid
      BY <3>1, <2>4
    <3>5. QED
      BY <3>1, <3>2, <3>3, <3>4, <1>1, <2>1 DEF ChecksAreDone
  <2>13. ReadsAreOwed'
    <3>1. Silent(WQ')
      BY <1>2, <1>3, <1>4, <2>9, KeptFacts DEF ReadsAreOwed
    <3>2. \A u \in Upper, line \in Line : Owed(upper, RQ', u, line) = Owed(upper, RQ, u, line)
      BY <1>3, <1>4, <2>8, KeptFacts
    <3>3. QED
      BY <3>1, <3>2, <1>1, <1>2 DEF ReadsAreOwed, OwedAsAwaited
  <2>14. QED
    BY <2>10, <2>11, <2>12, <2>13, <1>5 DEF DRAMInv
<1>8. QED
  BY <1>6, <1>7 DEF SwapWriteMode

\* The queues are left alone and the banks change in other respects than the pairs.
LEMMA QueuesUntouched ==
  ASSUME DRAMInv, stage # "collide", stage' # "collide",
         UNCHANGED <<queueVars, write_mode, warmup, externalVars>>,
         bank_request' \in BankArray,
         \A b \in Banks : /\ bank_request'[b].valid = bank_request[b].valid
                          /\ bank_request'[b].write = bank_request[b].write
                          /\ bank_request'[b].pkt = bank_request[b].pkt
                          /\ bank_request'[b].valid => ~bank_request'[b].under_refresh,
         bankgroup_readytime' \in [Groups -> 0 .. RETURN + STALL],
         refresh_in' \in 0 .. tREF, NeedyIsBusy',
         active_request' \in Banks \cup {NoBank},
         active_request' # NoBank => bank_request[active_request'].valid
  PROVE  DRAMInv'
<1>1. /\ upper' = upper /\ RQ' = RQ /\ WQ' = WQ
      /\ write_mode' = write_mode /\ warmup' = warmup /\ wait' = wait
  BY DEF queueVars, externalVars
<1>2. StateTypes /\ BanksArePaired /\ ChecksAreDone /\ ReadsAreOwed
  BY DEF DRAMInv
<1>3. RQ_SIZE \in Nat /\ WQ_SIZE \in Nat /\ RQ \in SlotsOf(RQ_SIZE) /\ WQ \in SlotsOf(WQ_SIZE)
  BY <1>2, LatenciesAreNumbers DEF StateTypes
<1>4. StateTypes'
  BY <1>1, <1>2 DEF StateTypes
<1>5. Paired(bank_request', FALSE, RQ) /\ Paired(bank_request', TRUE, WQ)
  <2>1. Paired(bank_request, FALSE, RQ) /\ Paired(bank_request, TRUE, WQ)
    BY <1>2 DEF BanksArePaired
  <2>2. \A b \in Banks : /\ bank_request'[b].valid = bank_request[b].valid
                         /\ bank_request'[b].write = bank_request[b].write
                         /\ bank_request'[b].pkt = bank_request[b].pkt
    OBVIOUS
  <2>3. Paired(bank_request', FALSE, RQ)
    BY <2>1, <2>2, <1>3, PairedAlike
  <2>4. Paired(bank_request', TRUE, WQ)
    BY <2>1, <2>2, <1>3, PairedAlike
  <2>5. QED
    BY <2>3, <2>4
<1>6. BanksArePaired'
  BY <1>1, <1>2, <1>5 DEF BanksArePaired
<1>7. ChecksAreDone'
  BY <1>1, <1>2 DEF ChecksAreDone
<1>8. ReadsAreOwed'
  BY <1>1, <1>2 DEF ReadsAreOwed
<1>9. QED
  BY <1>4, <1>6, <1>7, <1>8 DEF DRAMInv

\* What schedule_refresh makes of a bank.
LEMMA RefreshedFacts ==
  ASSUME NEW b \in Bank, ~(b.valid /\ b.under_refresh), NEW due \in BOOLEAN
  PROVE  LET c == Refreshed(b, due)
         IN  /\ c \in Bank
             /\ c.valid = b.valid /\ c.write = b.write /\ c.pkt = b.pkt
             /\ ~(c.valid /\ c.under_refresh)
             /\ c.need_refresh => c.valid
             /\ b.need_refresh /\ ~c.need_refresh => c.under_refresh
<1>1. tRFC \in Int /\ tRFC <= Latest
  BY LatenciesAreNumbers DEF Latest
<1>2. CASE (due \/ b.need_refresh) /\ ~b.valid
  BY <1>1, <1>2 DEF Refreshed, Bank
<1>3. CASE ~((due \/ b.need_refresh) /\ ~b.valid) /\ b.under_refresh /\ b.ready <= 0
  BY <1>3 DEF Refreshed, Bank
<1>4. CASE ~((due \/ b.need_refresh) /\ ~b.valid) /\ ~(b.under_refresh /\ b.ready <= 0)
  BY <1>4 DEF Refreshed, Bank
<1>5. QED
  BY <1>2, <1>3, <1>4

\* schedule_refresh.
LEMMA ScheduleRefreshStep ==
  ASSUME DRAMInv, ScheduleRefresh
  PROVE  /\ DRAMInv'
         /\ \A b \in Banks : bank_request[b].need_refresh /\ ~bank_request'[b].need_refresh
                                => bank_request'[b].under_refresh
<1> DEFINE due == refresh_in <= 0
<1>1. /\ stage = "refresh" /\ stage' = "populate"
      /\ refresh_in' = IF due THEN tREF ELSE refresh_in
      /\ bank_request' = [b \in Banks |-> Refreshed(bank_request[b], due)]
      /\ bankgroup_readytime' = bankgroup_readytime
      /\ UNCHANGED <<queueVars, active_request, write_mode, warmup, externalVars>>
  BY DEF ScheduleRefresh, Go
<1>2. StateTypes /\ BanksArePaired
  BY DEF DRAMInv
<1>3. due \in BOOLEAN
  OBVIOUS
<1> HIDE DEF due
<1>4. ASSUME NEW b \in Banks
      PROVE  /\ bank_request'[b] \in Bank
             /\ bank_request'[b].valid = bank_request[b].valid
             /\ bank_request'[b].write = bank_request[b].write
             /\ bank_request'[b].pkt = bank_request[b].pkt
             /\ ~(bank_request'[b].valid /\ bank_request'[b].under_refresh)
             /\ bank_request'[b].need_refresh => bank_request'[b].valid
             /\ bank_request[b].need_refresh /\ ~bank_request'[b].need_refresh
                   => bank_request'[b].under_refresh
  <2>1. bank_request[b] \in Bank /\ ~(bank_request[b].valid /\ bank_request[b].under_refresh)
    BY <1>2 DEF StateTypes, BanksArePaired, BankArray
  <2>2. bank_request'[b] = Refreshed(bank_request[b], due)
    BY <1>1
  <2>3. QED
    BY <2>1, <2>2, <1>3, RefreshedFacts
<1>5. bank_request' \in BankArray
  <2>1. bank_request' = [b \in Banks |-> bank_request'[b]]
    BY <1>1
  <2>2. QED
    BY <2>1, <1>4 DEF BankArray
<1>6. NeedyIsBusy'
  BY <1>4 DEF NeedyIsBusy
<1>7. /\ refresh_in' \in 0 .. tREF /\ bankgroup_readytime' \in [Groups -> 0 .. RETURN + STALL]
      /\ active_request' \in Banks \cup {NoBank}
      /\ active_request' # NoBank => bank_request[active_request'].valid
  BY <1>1, <1>2, LatenciesAreNumbers DEF StateTypes, BanksArePaired
<1>8. DRAMInv'
  BY <1>1, <1>4, <1>5, <1>6, <1>7, QueuesUntouched
<1>9. QED
  BY <1>4, <1>8

\* The bank whose request goes on the bus is busy.
LEMMA NextOnBusIsBusy ==
  ASSUME bank_request \in BankArray, \E b \in Banks : bank_request[b].valid
  PROVE  NextOnBus \in Banks /\ bank_request[NextOnBus].valid
<1> DEFINE valid == {b \in Banks : bank_request[b].valid}
           R == {x \in Banks \X Banks : bank_request[x[1]].ready <= bank_request[x[2]].ready}
           first == {b \in valid : \A c \in valid : bank_request[b].ready <= bank_request[c].ready}
<1>1. valid \in SUBSET (1 .. NumBanks) /\ valid # {} /\ NumBanks \in Nat
  BY LatenciesAreNumbers DEF Banks
<1>2. \A b \in Banks : bank_request[b].ready \in Int
  BY DEF BankArray, Bank
<1>3. \A b \in Banks : \A c \in Banks : <<b, c>> \in R <=> bank_request[b].ready <= bank_request[c].ready
  OBVIOUS
<1>4. valid \subseteq Banks
  OBVIOUS
<1> HIDE DEF valid, R
<1>5. /\ \A b \in valid : \A c \in valid : <<b, c>> \in R \/ <<c, b>> \in R
      /\ \A b \in valid : \A c \in valid : \A d \in valid :
            <<b, c>> \in R /\ <<c, d>> \in R => <<b, d>> \in R
  BY <1>2, <1>3, <1>4
<1>6. \E b \in valid : \A c \in valid : <<b, c>> \in R
  BY <1>1, <1>5, LeastOf
<1>7. first # {} /\ first \subseteq Nat /\ first \subseteq valid
  <2>1. PICK b \in valid : \A c \in valid : <<b, c>> \in R
    BY <1>6
  <2>2. b \in first
    BY <1>3, <1>4, <2>1
  <2>3. first \subseteq valid /\ valid \subseteq Nat
    BY <1>1
  <2>4. QED
    BY <2>2, <2>3
<1> HIDE DEF first
<1>8. \E b \in first : \A c \in first : b <= c
  BY <1>7, SmallestOf
<1>9. Smallest(first) \in first
  BY <1>8 DEF Smallest
<1>10. NextOnBus = Smallest(first)
  BY DEF NextOnBus, first, valid
<1>11. QED
  BY <1>7, <1>9, <1>10 DEF valid

\* populate_dbus.
LEMMA PopulateDbusStep ==
  ASSUME DRAMInv, PopulateDbus
  PROVE  DRAMInv'
<1> DEFINE b == NextOnBus
           g == GroupOf[b]
           x == [bank_request[b] EXCEPT !.ready = bankgroup_readytime[g] + RETURN]
<1>1. /\ stage = "populate" /\ stage' = "service" /\ refresh_in' = refresh_in
      /\ UNCHANGED <<queueVars, write_mode, warmup, externalVars>>
  BY DEF PopulateDbus, Go
<1>2. StateTypes /\ BanksArePaired /\ NeedyIsBusy
  BY DEF DRAMInv
<1>3. /\ bank_request \in BankArray /\ bankgroup_readytime \in [Groups -> 0 .. RETURN + STALL]
      /\ refresh_in' \in 0 .. tREF
  BY <1>1, <1>2 DEF StateTypes
<1>4. CASE UNCHANGED <<active_request, bank_request, bankgroup_readytime>>
  <2>1. /\ bank_request' = bank_request /\ active_request' = active_request
        /\ bankgroup_readytime' = bankgroup_readytime
    BY <1>4
  <2>2. /\ active_request' \in Banks \cup {NoBank}
        /\ active_request' # NoBank => bank_request[active_request'].valid
        /\ \A c \in Banks : ~(bank_request'[c].valid /\ bank_request'[c].under_refresh)
    BY <1>2, <2>1 DEF StateTypes, BanksArePaired
  <2>3. NeedyIsBusy'
    BY <1>1, <1>2, <2>1 DEF NeedyIsBusy
  <2>4. QED
    BY <1>1, <1>3, <2>1, <2>2, <2>3, QueuesUntouched
<1>5. CASE CanPopulate
  <2>1. b \in Banks /\ bank_request[b].valid
    BY <1>3, <1>5, NextOnBusIsBusy DEF CanPopulate
  <2>2. g \in Groups /\ bank_request[b] \in Bank
    BY <1>3, <2>1 DEF Groups, BankArray
  <2>3. /\ active_request' = b /\ bank_request' = [bank_request EXCEPT ![b].ready = bankgroup_readytime[g] + RETURN]
        /\ bankgroup_readytime' = [bankgroup_readytime EXCEPT ![g] = RETURN + STALL]
    BY <1>5 DEF PopulateDbus
  <2>4. bank_request' = Assign(bank_request, b, x)
    BY <2>3 DEF Assign
  <2> HIDE DEF g
  <2>5. /\ x \in Bank /\ x.valid = bank_request[b].valid /\ x.write = bank_request[b].write
        /\ x.pkt = bank_request[b].pkt /\ x.under_refresh = bank_request[b].under_refresh
        /\ x.need_refresh = bank_request[b].need_refresh
    <3> DEFINE y == bank_request[b]
               t == bankgroup_readytime[g] + RETURN
    <3>1. t \in Int /\ t <= Latest
      <4>1. bankgroup_readytime[g] \in 0 .. RETURN + STALL
        BY <1>3, <2>2
      <4>2. QED
        BY <4>1, LatenciesAreNumbers DEF Latest
    <3>2. x = [y EXCEPT !.ready = t]
      OBVIOUS
    <3> HIDE DEF x, y, t
    <3>3. QED
      BY <2>2, <3>1, <3>2 DEF Bank, y
  <2> HIDE DEF b, x
  <2>6. bank_request' \in BankArray /\ \A c \in Banks : bank_request'[c] = IF c = b THEN x ELSE bank_request[c]
    BY <1>3, <2>1, <2>4, <2>5, BankAssigned
  <2>7. bankgroup_readytime' \in [Groups -> 0 .. RETURN + STALL]
    <3>1. RETURN + STALL \in 0 .. RETURN + STALL
      BY LatenciesAreNumbers
    <3>2. QED
      BY <1>3, <2>2, <2>3, <3>1
  <2>8. \A c \in Banks : /\ bank_request'[c].valid = bank_request[c].valid
                         /\ bank_request'[c].write = bank_request[c].write
                         /\ bank_request'[c].pkt = bank_request[c].pkt
                         /\ bank_request'[c].under_refresh = bank_request[c].under_refresh
                         /\ bank_request'[c].need_refresh = bank_request[c].need_refresh
    BY <2>5, <2>6
  <2>9. \A c \in Banks : bank_request'[c].valid => ~bank_request'[c].under_refresh
    BY <1>2, <2>8 DEF BanksArePaired
  <2>10. NeedyIsBusy'
    BY <1>1, <1>2, <2>8 DEF NeedyIsBusy
  <2>11. active_request' \in Banks \cup {NoBank} /\ bank_request[active_request'].valid
    BY <2>1, <2>3
  <2>12. QED
    BY <1>1, <1>3, <2>6, <2>7, <2>8, <2>9, <2>10, <2>11, QueuesUntouched
<1>6. QED
  BY <1>4, <1>5 DEF PopulateDbus

\* The packet to be served is one that is not scheduled.
LEMMA NextPacketIsUnscheduled ==
  ASSUME bank_request \in BankArray, NEW n \in Nat, NEW q \in SlotsOf(n), Unscheduled(q) # {}
  PROVE  NextPacket(q) \in Unscheduled(q)
<1> DEFINE S == Unscheduled(q)
           R == {x \in S \X S : Before(q, x[1], x[2])}
<1>1. DOMAIN q = 1 .. n /\ \A i \in 1 .. n : q[i] \in SlotType
  BY SlotFacts
<1>2. S \in SUBSET (1 .. n)
  BY <1>1 DEF Unscheduled, Occupied
<1>3. ASSUME NEW i \in S
      PROVE  /\ q[i] \in Packet /\ q[i].age \in Nat
             /\ bank_request[BankOf[q[i].line]].valid \in BOOLEAN
  <2>1. q[i] \in Packet
    BY <1>1 DEF Unscheduled, Occupied, SlotType
  <2>2. q[i].age \in Nat /\ BankOf[q[i].line] \in Banks
    BY <2>1, BankOfLine DEF Packet
  <2>3. QED
    BY <2>1, <2>2 DEF BankArray, Bank
<1> DEFINE busy(i) == bank_request[BankOf[q[i].line]].valid
           age(i) == q[i].age
<1>4. \A i \in S : busy(i) \in BOOLEAN /\ age(i) \in Nat /\ i \in Nat
  BY <1>2, <1>3
<1>5. \A i \in S : \A j \in S :
         <<i, j>> \in R <=> IF busy(i) = busy(j) THEN age(i) > age(j) \/ (age(i) = age(j) /\ i >= j)
                            ELSE ~busy(i)
  BY DEF Before
<1> HIDE DEF busy, age, R
<1>6. \A i \in S : \A j \in S : <<i, j>> \in R \/ <<j, i>> \in R
  <2> HIDE DEF S
  <2> TAKE i \in S
  <2> TAKE j \in S
  <2>1. busy(i) \in BOOLEAN /\ busy(j) \in BOOLEAN /\ age(i) \in Nat /\ age(j) \in Nat /\ i \in Nat /\ j \in Nat
    BY <1>4
  <2>2. CASE busy(i) = busy(j)
    BY <1>5, <2>1, <2>2
  <2>3. CASE busy(i) # busy(j)
    BY <1>5, <2>1, <2>3
  <2>4. QED
    BY <2>2, <2>3
<1>7. \A i \in S : \A j \in S : \A k \in S : <<i, j>> \in R /\ <<j, k>> \in R => <<i, k>> \in R
  <2> HIDE DEF S
  <2> TAKE i \in S
  <2> TAKE j \in S
  <2> TAKE k \in S
  <2> HAVE <<i, j>> \in R /\ <<j, k>> \in R
  <2>1. /\ busy(i) \in BOOLEAN /\ busy(j) \in BOOLEAN /\ busy(k) \in BOOLEAN
        /\ age(i) \in Nat /\ age(j) \in Nat /\ age(k) \in Nat /\ i \in Nat /\ j \in Nat /\ k \in Nat
    BY <1>4
  <2>2. /\ IF busy(i) = busy(j) THEN age(i) > age(j) \/ (age(i) = age(j) /\ i >= j) ELSE ~busy(i)
        /\ IF busy(j) = busy(k) THEN age(j) > age(k) \/ (age(j) = age(k) /\ j >= k) ELSE ~busy(j)
    BY <1>5
  <2>3. IF busy(i) = busy(k) THEN age(i) > age(k) \/ (age(i) = age(k) /\ i >= k) ELSE ~busy(i)
    BY <2>1, <2>2
  <2>4. QED
    BY <1>5, <2>3
<1>8. \E i \in S : \A j \in S : <<i, j>> \in R
  <2>1. S # {}
    OBVIOUS
  <2> HIDE DEF S
  <2>2. QED
    BY <1>2, <1>6, <1>7, <2>1, LeastOf
<1>9. \E i \in S : \A j \in S : Before(q, i, j)
  BY <1>8 DEF R
<1>10. QED
  BY <1>9 DEF NextPacket

\* A packet is scheduled.
LEMMA PacketScheduled ==
  ASSUME NEW p \in Packet
  PROVE  LET x == [p EXCEPT !.scheduled = TRUE, !.age = 0]
         IN  /\ x \in Packet /\ x.scheduled /\ x.line = p.line
             /\ x.to_return = p.to_return /\ x.forward_checked = p.forward_checked
BY DEF Packet

\* The same in a slot.
LEMMA SlotScheduled ==
  ASSUME NEW n \in Nat, NEW q \in SlotsOf(n), NEW i \in 1 .. n, q[i] \in Packet
  PROVE  LET p == [q[i] EXCEPT !.scheduled = TRUE, !.age = 0]
             r == [q EXCEPT ![i].scheduled = TRUE, ![i].age = 0]
         IN  r = Put(q, i, p) /\ r \in SlotsOf(n) /\ Kept(q, r)
<1> DEFINE p == [q[i] EXCEPT !.scheduled = TRUE, !.age = 0]
           r == [q EXCEPT ![i].scheduled = TRUE, ![i].age = 0]
<1>1. DOMAIN q = 1 .. n /\ \A j \in 1 .. n : q[j] \in SlotType
  BY SlotFacts
<1>2. r = Put(q, i, p)
  <2> DEFINE a == [q[i] EXCEPT !.scheduled = TRUE]
             s == [q EXCEPT ![i] = a]
  <2>1. r = [s EXCEPT ![i] = [s[i] EXCEPT !.age = 0]]
    OBVIOUS
  <2>2. s[i] = a
    BY <1>1
  <2>3. [a EXCEPT !.age = 0] = p
    OBVIOUS
  <2>4. r = [s EXCEPT ![i] = p]
    BY <2>1, <2>2, <2>3
  <2> HIDE DEF p, r, a
  <2>5. [s EXCEPT ![i] = p] = [q EXCEPT ![i] = p]
    OBVIOUS
  <2>6. QED
    BY <2>4, <2>5 DEF Put
<1>3. /\ p \in Packet /\ p.line = q[i].line
      /\ p.to_return = q[i].to_return /\ p.forward_checked = q[i].forward_checked
  BY PacketScheduled
<1> HIDE DEF p
<1>4. p \in SlotType
  BY <1>3 DEF SlotType
<1>5. Put(q, i, p) \in SlotsOf(n) /\ \A j \in 1 .. n : Put(q, i, p)[j] = IF j = i THEN p ELSE q[j]
  BY <1>4, SlotReplaced
<1>6. Kept(q, Put(q, i, p))
  BY <1>1, <1>3, <1>5 DEF Kept, SlotType
<1>7. QED
  BY <1>2, <1>5, <1>6 DEF p

\* The wait of a bank that serves a packet.
LEMMA RowDelayFits ==
  ASSUME NEW b \in Bank, NEW row
  PROVE  tCAS + RowDelay(b, row) \in Int /\ tCAS + RowDelay(b, row) <= Latest
BY LatenciesAreNumbers DEF RowDelay, Latest

\* service_packet: a free bank has no refresh to do, so none is forgotten.
LEMMA ServicePacketStep ==
  ASSUME DRAMInv, ServicePacket
  PROVE  /\ DRAMInv'
         /\ \A b \in Banks : bank_request[b].need_refresh => bank_request'[b].need_refresh
<1> DEFINE q == IF write_mode THEN WQ ELSE RQ
           i == NextPacket(q)
           b == BankOf[q[i].line]
           row == RowOf[q[i].line]
           served == [q EXCEPT ![i].scheduled = TRUE, ![i].age = 0]
           p == [q[i] EXCEPT !.scheduled = TRUE, !.age = 0]
           x == [valid |-> TRUE, need_refresh |-> FALSE, under_refresh |-> FALSE,
                 open_row |-> row, pkt |-> i, write |-> write_mode,
                 ready |-> tCAS + RowDelay(bank_request[b], row)]
           other == Assign(bank_request, b, x)
           n == IF write_mode THEN WQ_SIZE ELSE RQ_SIZE
<1>1. /\ stage = "service" /\ stage' = "outside" /\ upper' = upper
      /\ active_request' = active_request /\ write_mode' = write_mode
      /\ bankgroup_readytime' = bankgroup_readytime
      /\ refresh_in' = refresh_in /\ warmup' = warmup /\ wait' = wait
  BY DEF ServicePacket, Go, externalVars
<1>2. StateTypes /\ BanksArePaired /\ ChecksAreDone /\ ReadsAreOwed /\ NeedyIsBusy
  BY DEF DRAMInv
<1>3. RQ_SIZE \in Nat /\ WQ_SIZE \in Nat
  BY LatenciesAreNumbers
<1>4. /\ upper \in Uppers /\ RQ \in SlotsOf(RQ_SIZE) /\ WQ \in SlotsOf(WQ_SIZE)
      /\ bank_request \in BankArray /\ write_mode \in BOOLEAN
  BY <1>2 DEF StateTypes
<1>5. NeedyIsBusy'
  BY <1>1 DEF NeedyIsBusy
<1>6. CASE UNCHANGED <<bank_request, RQ, WQ>>
  <2>1. StateTypes' /\ BanksArePaired' /\ ReadsAreOwed'
    BY <1>1, <1>2, <1>6 DEF StateTypes, BanksArePaired, ReadsAreOwed
  <2>2. ChecksAreDone'
    BY <1>1, <1>2, <1>6 DEF ChecksAreDone
  <2>3. QED
    BY <2>1, <2>2, <1>5, <1>6 DEF DRAMInv
<1>7. CASE Unscheduled(q) # {} /\ FreeBank(b)
  <2>1. /\ bank_request' = other
        /\ RQ' = IF write_mode THEN RQ ELSE served
        /\ WQ' = IF write_mode THEN served ELSE WQ
    BY <1>7 DEF ServicePacket, Assign
  <2>2. q \in SlotsOf(n) /\ n \in Nat
    BY <1>3, <1>4
  <2>3. DOMAIN q = 1 .. n /\ \A j \in 1 .. n : q[j] \in SlotType
    <3> HIDE DEF q, n
    <3>1. QED
      BY <2>2, SlotFacts
  <2>4. i \in 1 .. n /\ q[i] \in Packet /\ ~q[i].scheduled
    <3> HIDE DEF q, n
    <3>1. i \in Unscheduled(q)
      BY <1>4, <1>7, <2>2, NextPacketIsUnscheduled
    <3>2. QED
      BY <2>3, <3>1 DEF Unscheduled, Occupied, SlotType
  <2>5. Unscheduled(q) # {} /\ ~bank_request[b].valid /\ ~bank_request[b].under_refresh
    BY <1>7 DEF FreeBank
  <2>6. write_mode => q = WQ /\ n = WQ_SIZE
    OBVIOUS
  <2>7. ~write_mode => q = RQ /\ n = RQ_SIZE
    OBVIOUS
  <2> HIDE DEF q, n, i
  <2>8. q[i].line \in Line /\ b \in Banks /\ row \in {RowOf[l] : l \in Line}
    BY <2>4, BankOfLine
  <2>9. bank_request[b] \in Bank
    BY <1>4, <2>8 DEF BankArray
  <2>10. served = Put(q, i, p) /\ served \in SlotsOf(n) /\ Kept(q, served)
    BY <2>2, <2>4, SlotScheduled
  <2>11. p \in Packet /\ p.scheduled /\ p.line = q[i].line
    BY <2>4, PacketScheduled
  <2> HIDE DEF p, served
  <2>12. /\ x \in Bank /\ x.valid /\ x.write = write_mode /\ x.pkt = i
         /\ ~x.under_refresh
    <3>1. tCAS + RowDelay(bank_request[b], row) \in Int /\ tCAS + RowDelay(bank_request[b], row) <= Latest
      BY <2>9, RowDelayFits
    <3>2. i \in Nat
      BY <2>2, <2>4
    <3> HIDE DEF b, row
    <3>3. QED
      BY <1>4, <2>8, <3>1, <3>2 DEF Bank
  <2> HIDE DEF x, row
  <2>13. /\ other \in BankArray
         /\ \A c \in Banks : other[c] = IF c = b THEN x ELSE bank_request[c]
    <3> HIDE DEF b
    <3>1. QED
      BY <1>4, <2>8, <2>12, BankAssigned
  <2>14. /\ Paired(other, write_mode, served)
         /\ \A m \in Nat : \A q2 \in SlotsOf(m) :
               Paired(bank_request, ~write_mode, q2) => Paired(other, ~write_mode, q2)
    <3>1. Paired(bank_request, write_mode, q)
      <4>1. CASE write_mode = TRUE
        BY <1>2, <2>6, <4>1 DEF BanksArePaired
      <4>2. CASE write_mode = FALSE
        BY <1>2, <2>7, <4>2 DEF BanksArePaired
      <4>3. QED
        BY <1>4, <4>1, <4>2
    <3>2. q[i] # NoPacket /\ p.line = q[i].line /\ b = BankOf[q[i].line]
      BY <2>4, <2>11, NoPacketAssumption
    <3> HIDE DEF b, other
    <3>3. /\ Paired(Assign(bank_request, b, x), write_mode, Put(q, i, p))
          /\ \A m \in Nat : \A q2 \in SlotsOf(m) :
                Paired(bank_request, ~write_mode, q2) => Paired(Assign(bank_request, b, x), ~write_mode, q2)
      BY <1>4, <2>2, <2>4, <2>5, <2>8, <2>11, <2>12, <3>1, <3>2, PairedWhenServed
    <3>4. QED
      BY <2>10, <3>3 DEF other
  <2>15. AllChecked(RQ) /\ AllChecked(WQ) /\ Silent(WQ) /\ ~warmup
    <3>1. ~Empty(q)
      BY <2>3, <2>4, NoPacketAssumption DEF Empty
    <3>2. ~(Empty(RQ) /\ Empty(WQ))
      BY <3>1, <2>6, <2>7
    <3>3. QED
      BY <1>1, <1>2, <3>2 DEF ChecksAreDone, ReadsAreOwed
  <2> HIDE DEF other
  <2>16. /\ RQ' \in SlotsOf(RQ_SIZE) /\ Paired(other, FALSE, RQ') /\ AllChecked(RQ')
         /\ WQ' \in SlotsOf(WQ_SIZE) /\ Paired(other, TRUE, WQ') /\ AllChecked(WQ') /\ Silent(WQ')
         /\ \A u \in Upper, line \in Line : Owed(upper, RQ', u, line) = Owed(upper, RQ, u, line)
    <3>1. CASE write_mode = TRUE
      <4>1. /\ q = WQ /\ n = WQ_SIZE /\ WQ' = served /\ RQ' = RQ
        BY <2>1, <2>6, <3>1
      <4>2. Paired(other, TRUE, WQ') /\ WQ' \in SlotsOf(WQ_SIZE) /\ Kept(WQ, WQ')
        BY <2>10, <2>14, <3>1, <4>1
      <4>3. Paired(other, FALSE, RQ)
        <5>1. Paired(bank_request, ~write_mode, RQ)
          BY <1>2, <3>1 DEF BanksArePaired
        <5>2. Paired(other, ~write_mode, RQ)
          BY <5>1, <1>3, <1>4, <2>14
        <5>3. QED
          BY <5>2, <3>1
      <4>4. AllChecked(WQ') /\ Silent(WQ')
        BY <1>3, <1>4, <2>15, <4>2, KeptFacts
      <4>5. QED
        BY <1>4, <2>15, <4>1, <4>2, <4>3, <4>4
    <3>2. CASE write_mode = FALSE
      <4>1. /\ q = RQ /\ n = RQ_SIZE /\ RQ' = served /\ WQ' = WQ
        BY <2>1, <2>7, <3>2
      <4>2. Paired(other, FALSE, RQ') /\ RQ' \in SlotsOf(RQ_SIZE) /\ Kept(RQ, RQ')
        BY <2>10, <2>14, <3>2, <4>1
      <4>3. Paired(other, TRUE, WQ)
        <5>1. Paired(bank_request, ~write_mode, WQ)
          BY <1>2, <3>2 DEF BanksArePaired
        <5>2. Paired(other, ~write_mode, WQ)
          BY <5>1, <1>3, <1>4, <2>14
        <5>3. QED
          BY <5>2, <3>2
      <4>4. /\ AllChecked(RQ')
            /\ \A u \in Upper, line \in Line : Owed(upper, RQ', u, line) = Owed(upper, RQ, u, line)
        BY <1>3, <1>4, <2>15, <4>2, KeptFacts
      <4>5. QED
        BY <1>4, <2>15, <4>1, <4>2, <4>3, <4>4
    <3>3. QED
      BY <1>4, <3>1, <3>2
  <2>17. StateTypes'
    BY <1>1, <1>2, <2>1, <2>13, <2>16 DEF StateTypes
  <2>18. BanksArePaired'
    <3>1. \A c \in Banks : bank_request[c].valid => other[c].valid
      BY <2>12, <2>13
    <3>2. active_request # NoBank => other[active_request].valid
      BY <1>2, <3>1 DEF BanksArePaired, StateTypes
    <3>3. \A c \in Banks : ~(other[c].valid /\ other[c].under_refresh)
      BY <1>2, <2>12, <2>13 DEF BanksArePaired
    <3>4. QED
      BY <1>1, <2>1, <2>16, <3>2, <3>3 DEF BanksArePaired
  <2>19. ChecksAreDone'
    BY <1>1, <2>15, <2>16 DEF ChecksAreDone
  <2>20. ReadsAreOwed'
    BY <1>1, <1>2, <2>16 DEF ReadsAreOwed, OwedAsAwaited
  <2>21. \A c \in Banks : bank_request[c].need_refresh => bank_request'[c].need_refresh
    <3>1. ~bank_request[b].need_refresh
      BY <1>1, <1>2, <2>5, <2>8 DEF NeedyIsBusy
    <3>2. QED
      BY <3>1, <2>1, <2>13
  <2>22. QED
    BY <2>17, <2>18, <2>19, <2>20, <2>21, <1>5 DEF DRAMInv
<1>8. QED
  BY <1>6, <1>7 DEF ServicePacket

\* The values of a function on some of the first numbers are finitely many, and so
\* are some of them.
LEMMA ImageFinite ==
  ASSUME NEW n \in Nat, NEW S \in SUBSET (1 .. n), NEW f, NEW T \in SUBSET {f[i] : i \in S}
  PROVE  Cardinality(T) \in Nat
<1> DEFINE g == [i \in S |-> f[i]]
           I == {f[i] : i \in S}
<1>1. IsFiniteSet(S)
  BY FirstNumbers, FS_Subset
<1>2. g \in Surjection(S, I)
  BY DEF Surjection
<1>3. IsFiniteSet(I)
  BY <1>1, <1>2, FS_Surjection
<1> HIDE DEF I
<1>4. IsFiniteSet(T)
  BY <1>3, FS_Subset DEF I
<1>5. QED
  BY <1>4, FS_CardinalityType

\* A packet that has another age.
LEMMA PacketAged ==
  ASSUME NEW p \in Packet, NEW age \in Nat
  PROVE  LET x == [p EXCEPT !.age = age]
         IN  /\ x \in Packet /\ x.scheduled = p.scheduled /\ x.line = p.line
             /\ x.to_return = p.to_return /\ x.forward_checked = p.forward_checked
BY DEF Packet

\* The packets grow older and do not change otherwise.
LEMMA AgedKeeps ==
  ASSUME NEW n \in Nat, NEW q \in SlotsOf(n)
  PROVE  /\ Aged(q) \in SlotsOf(n) /\ Kept(q, Aged(q))
         /\ \A i \in 1 .. n : q[i] # NoPacket => Aged(q)[i].scheduled = q[i].scheduled
<1> DEFINE S == Unscheduled(q)
           ages == {q[i].age : i \in S}
           rank(i) == 1 + Cardinality({a \in ages : a < q[i].age})
           older(i) == [q[i] EXCEPT !.age = rank(i)]
           r == [i \in DOMAIN q |-> IF i \in S THEN older(i) ELSE q[i]]
<1>1. DOMAIN q = 1 .. n /\ \A i \in 1 .. n : q[i] \in SlotType
  BY SlotFacts
<1>2. S \in SUBSET (1 .. n)
  BY <1>1 DEF Unscheduled, Occupied
<1>3. ASSUME NEW i \in S
      PROVE  rank(i) \in Nat
  <2> DEFINE f == [j \in S |-> q[j].age]
             few == {a \in ages : a < q[i].age}
  <2>1. ages = {f[j] : j \in S}
    OBVIOUS
  <2>2. few \in SUBSET {f[j] : j \in S}
    BY <2>1
  <2> HIDE DEF f, few
  <2>3. Cardinality(few) \in Nat
    BY <1>2, <2>2, ImageFinite
  <2>4. QED
    BY <2>3 DEF few
<1>4. Aged(q) = r
  BY DEF Aged
<1> HIDE DEF rank, ages
<1>5. ASSUME NEW i \in S
      PROVE  /\ q[i] \in Packet /\ older(i) \in Packet /\ older(i).scheduled = q[i].scheduled
             /\ older(i).line = q[i].line /\ older(i).to_return = q[i].to_return
             /\ older(i).forward_checked = q[i].forward_checked
  <2>1. q[i] \in Packet
    BY <1>1 DEF Unscheduled, Occupied, SlotType
  <2>2. QED
    BY <2>1, <1>3, PacketAged
<1> HIDE DEF older, S
<1>6. \A i \in 1 .. n : r[i] = IF i \in S THEN older(i) ELSE q[i]
  BY <1>1
<1>7. r \in [1 .. n -> SlotType]
  BY <1>1, <1>5 DEF SlotType
<1> HIDE DEF r
<1>8. r \in SlotsOf(n)
  BY <1>7, SlotsAreSequence
<1>9. Kept(q, r)
  <2>1. ASSUME NEW i \in 1 .. n
        PROVE  \/ q[i] = NoPacket /\ r[i] = NoPacket
               \/ /\ q[i] \in Packet /\ r[i] \in Packet /\ r[i].line = q[i].line
                  /\ r[i].to_return = q[i].to_return /\ r[i].forward_checked = q[i].forward_checked
    <3>1. CASE i \in S
      BY <1>5, <1>6, <3>1
    <3>2. CASE i \notin S
      BY <1>1, <1>6, <3>2 DEF SlotType
    <3>3. QED
      BY <3>1, <3>2
  <2>2. QED
    BY <1>1, <2>1 DEF Kept
<1>10. \A i \in 1 .. n : q[i] # NoPacket => r[i].scheduled = q[i].scheduled
  BY <1>5, <1>6
<1>11. QED
  BY <1>4, <1>8, <1>9, <1>10

\* A bank one cycle later.
LEMMA BankPassedFacts ==
  ASSUME bank_request \in BankArray, NEW b \in Banks
  PROVE  LET x == BankPassed(b)
         IN  /\ x \in Bank
             /\ x.valid = bank_request[b].valid /\ x.write = bank_request[b].write
             /\ x.pkt = bank_request[b].pkt /\ x.need_refresh = bank_request[b].need_refresh
             /\ x.under_refresh = bank_request[b].under_refresh
<1> DEFINE S == {d \in Banks : bank_request[d].valid /\ bank_request[d].ready <= 1}
           past == {bank_request[c].ready : c \in S}
           y == bank_request[b]
           older == {t \in past : t > y.ready}
           ready == IF y.ready > 1 THEN y.ready - 1
                    ELSE IF y.valid THEN -Cardinality(older) ELSE 0
<1>1. y \in Bank
  BY DEF BankArray
<1>2. Cardinality(older) \in Nat
  <2> DEFINE f == [c \in S |-> bank_request[c].ready]
  <2>1. S \in SUBSET (1 .. NumBanks) /\ NumBanks \in Nat
    BY LatenciesAreNumbers DEF Banks
  <2>2. older \in SUBSET {f[c] : c \in S}
    OBVIOUS
  <2> HIDE DEF S, f, older
  <2>3. QED
    BY <2>1, <2>2, ImageFinite
<1>3. BankPassed(b) = [y EXCEPT !.ready = ready]
  BY DEF BankPassed
<1> HIDE DEF past, older
<1>4. ready \in Int /\ ready <= Latest
  <2>1. y.ready \in Int /\ y.ready <= Latest /\ y.valid \in BOOLEAN
    BY <1>1 DEF Bank
  <2> HIDE DEF y
  <2>2. QED
    BY <1>2, <2>1, LatenciesAreNumbers
<1> HIDE DEF y, ready
<1>5. /\ [y EXCEPT !.ready = ready] \in Bank
      /\ [y EXCEPT !.ready = ready].valid = y.valid /\ [y EXCEPT !.ready = ready].write = y.write
      /\ [y EXCEPT !.ready = ready].pkt = y.pkt
      /\ [y EXCEPT !.ready = ready].need_refresh = y.need_refresh
      /\ [y EXCEPT !.ready = ready].under_refresh = y.under_refresh
  BY <1>1, <1>4 DEF Bank
<1>6. QED
  BY <1>3, <1>5 DEF y

\* A cycle passes.
LEMMA StartCycleStep ==
  ASSUME DRAMInv, StartCycle
  PROVE  /\ DRAMInv'
         /\ \A b \in Banks : bank_request'[b].need_refresh = bank_request[b].need_refresh
<1>1. /\ stage = "outside" /\ stage' = "initiate" /\ upper' = upper
      /\ active_request' = active_request /\ write_mode' = write_mode
      /\ warmup' = warmup /\ wait' = wait
      /\ RQ' = Aged(RQ) /\ WQ' = Aged(WQ)
      /\ bank_request' = [b \in Banks |-> BankPassed(b)]
      /\ bankgroup_readytime' = [g \in Groups |-> Passed(bankgroup_readytime[g])]
      /\ refresh_in' = Passed(refresh_in)
  BY DEF StartCycle, Go, externalVars
<1>2. StateTypes /\ BanksArePaired /\ ChecksAreDone /\ ReadsAreOwed
  BY DEF DRAMInv
<1>3. RQ_SIZE \in Nat /\ WQ_SIZE \in Nat
  BY LatenciesAreNumbers
<1>4. /\ upper \in Uppers /\ RQ \in SlotsOf(RQ_SIZE) /\ WQ \in SlotsOf(WQ_SIZE)
      /\ bank_request \in BankArray
  BY <1>2 DEF StateTypes
<1>5. NeedyIsBusy'
  BY <1>1 DEF NeedyIsBusy
<1>6. ASSUME NEW b \in Banks
      PROVE  /\ bank_request'[b] \in Bank
             /\ bank_request'[b].valid = bank_request[b].valid
             /\ bank_request'[b].write = bank_request[b].write
             /\ bank_request'[b].pkt = bank_request[b].pkt
             /\ bank_request'[b].need_refresh = bank_request[b].need_refresh
             /\ bank_request'[b].under_refresh = bank_request[b].under_refresh
  <2>1. bank_request'[b] = BankPassed(b)
    BY <1>1
  <2>2. QED
    BY <1>4, <2>1, BankPassedFacts
<1>7. bank_request' \in BankArray
  <2>1. bank_request' = [b \in Banks |-> bank_request'[b]]
    BY <1>1
  <2>2. QED
    BY <1>6, <2>1 DEF BankArray
<1>8. /\ RQ' \in SlotsOf(RQ_SIZE) /\ Kept(RQ, RQ')
      /\ \A i \in 1 .. RQ_SIZE : RQ[i] # NoPacket => RQ'[i].scheduled = RQ[i].scheduled
  BY <1>1, <1>3, <1>4, AgedKeeps
<1>9. /\ WQ' \in SlotsOf(WQ_SIZE) /\ Kept(WQ, WQ')
      /\ \A i \in 1 .. WQ_SIZE : WQ[i] # NoPacket => WQ'[i].scheduled = WQ[i].scheduled
  BY <1>1, <1>3, <1>4, AgedKeeps
<1>10. Paired(bank_request', FALSE, RQ')
  <2>1. Paired(bank_request, FALSE, RQ)
    BY <1>2 DEF BanksArePaired
  <2>2. Paired(bank_request', FALSE, RQ)
    BY <2>1, <1>3, <1>4, <1>6, PairedAlike
  <2>3. QED
    BY <2>2, <1>3, <1>4, <1>8, PairedWhenKept
<1>11. Paired(bank_request', TRUE, WQ')
  <2>1. Paired(bank_request, TRUE, WQ)
    BY <1>2 DEF BanksArePaired
  <2>2. Paired(bank_request', TRUE, WQ)
    BY <2>1, <1>3, <1>4, <1>6, PairedAlike
  <2>3. QED
    BY <2>2, <1>3, <1>4, <1>9, PairedWhenKept
<1>12. /\ bankgroup_readytime' \in [Groups -> 0 .. RETURN + STALL]
       /\ refresh_in' \in 0 .. tREF
  <2>1. \A m \in Nat : \A t \in 0 .. m : Passed(t) \in 0 .. m
    BY DEF Passed
  <2>2. /\ bankgroup_readytime \in [Groups -> 0 .. RETURN + STALL] /\ refresh_in \in 0 .. tREF
        /\ RETURN + STALL \in Nat /\ tREF \in Nat
    BY <1>2, LatenciesAreNumbers DEF StateTypes
  <2>3. \A g \in Groups : Passed(bankgroup_readytime[g]) \in 0 .. RETURN + STALL
    BY <2>1, <2>2
  <2>4. QED
    BY <1>1, <2>1, <2>2, <2>3
<1>13. StateTypes'
  BY <1>1, <1>2, <1>7, <1>8, <1>9, <1>12 DEF StateTypes
<1>14. BanksArePaired'
  <2>1. active_request # NoBank => bank_request'[active_request].valid
    BY <1>2, <1>6 DEF StateTypes, BanksArePaired
  <2>2. \A b \in Banks : ~(bank_request'[b].valid /\ bank_request'[b].under_refresh)
    BY <1>2, <1>6 DEF BanksArePaired
  <2>3. QED
    BY <1>1, <1>10, <1>11, <2>1, <2>2 DEF BanksArePaired
<1>15. ChecksAreDone'
  <2>1. /\ AllChecked(RQ) /\ AllChecked(WQ)
        /\ warmup => (\A b \in Banks : ~bank_request[b].valid) /\ Empty(RQ) /\ Empty(WQ)
    BY <1>1, <1>2 DEF ChecksAreDone
  <2>2. AllChecked(RQ') /\ (Empty(RQ) => Empty(RQ'))
    BY <2>1, <1>3, <1>4, <1>8, KeptFacts
  <2>3. AllChecked(WQ') /\ (Empty(WQ) => Empty(WQ'))
    BY <2>1, <1>3, <1>4, <1>9, KeptFacts
  <2>4. warmup => \A b \in Banks : ~bank_request'[b].valid
    BY <2>1, <1>6
  <2>5. QED
    BY <2>1, <2>2, <2>3, <2>4, <1>1 DEF ChecksAreDone
<1>16. ReadsAreOwed'
  <2>1. Silent(WQ')
    BY <1>2, <1>3, <1>4, <1>9, KeptFacts DEF ReadsAreOwed
  <2>2. \A u \in Upper, line \in Line : Owed(upper, RQ', u, line) = Owed(upper, RQ, u, line)
    BY <1>3, <1>4, <1>8, KeptFacts
  <2>3. QED
    BY <2>1, <2>2, <1>1, <1>2 DEF ReadsAreOwed, OwedAsAwaited
<1>17. QED
  BY <1>5, <1>6, <1>13, <1>14, <1>15, <1>16 DEF DRAMInv

\* The steps that leave slots and banks alone.
LEMMA OutsideStep ==
  ASSUME DRAMInv, UNCHANGED <<RQ, WQ, bankVars, stage>>, stage = "outside",
         warmup' \in BOOLEAN, warmup' => warmup, upper' \in Uppers,
         wait' \in [Upper -> SUBSET Line], QuietWrites(upper'), OwedAsAwaited(upper', RQ, wait')
  PROVE  DRAMInv'
<1>1. /\ RQ' = RQ /\ WQ' = WQ /\ bank_request' = bank_request
      /\ active_request' = active_request /\ write_mode' = write_mode
      /\ bankgroup_readytime' = bankgroup_readytime /\ refresh_in' = refresh_in
      /\ stage' = stage
  BY DEF bankVars
<1>2. StateTypes /\ BanksArePaired /\ ChecksAreDone /\ ReadsAreOwed /\ NeedyIsBusy
  BY DEF DRAMInv
<1>3. StateTypes'
  BY <1>1, <1>2 DEF StateTypes
<1>4. BanksArePaired'
  BY <1>1, <1>2 DEF BanksArePaired
<1>5. ChecksAreDone'
  BY <1>1, <1>2 DEF ChecksAreDone
<1>6. ReadsAreOwed'
  BY <1>1, <1>2 DEF ReadsAreOwed
<1>7. NeedyIsBusy'
  BY <1>1 DEF NeedyIsBusy
<1>8. QED
  BY <1>3, <1>4, <1>5, <1>6, <1>7 DEF DRAMInv

\* begin_phase.
LEMMA BeginPhaseStep ==
  ASSUME DRAMInv, BeginPhase
  PROVE  DRAMInv'
<1>1. /\ stage = "outside" /\ warmup' = FALSE /\ upper' = upper /\ wait' = wait
      /\ UNCHANGED <<RQ, WQ, bankVars, stage>>
  BY DEF BeginPhase, queueVars, externalVars
<1>2. StateTypes /\ ReadsAreOwed
  BY DEF DRAMInv
<1>3. /\ upper' \in Uppers /\ wait' \in [Upper -> SUBSET Line] /\ warmup' \in BOOLEAN
      /\ QuietWrites(upper') /\ OwedAsAwaited(upper', RQ, wait')
  BY <1>1, <1>2 DEF StateTypes, ReadsAreOwed
<1>4. QED
  BY <1>1, <1>3, OutsideStep

\* An upper level sends a request.
Sent(up, u, q, x) == [up EXCEPT ![u] = Push(@, q, x)]

\* It goes to the end of that queue.
LEMMA RequestSent ==
  ASSUME NEW up \in Uppers, NEW u \in Upper, NEW q \in RequestQueues, NEW x \in Request
  PROVE  /\ Sent(up, u, q, x) \in Uppers
         /\ \A v \in Upper, p \in RequestQueues :
               Sent(up, u, q, x)[v][p] = IF v = u /\ p = q THEN Append(up[u][q], x) ELSE up[v][p]
         /\ \A v \in Upper : Sent(up, u, q, x)[v].returned = up[v].returned
<1> DEFINE c == Push(up[u], q, x)
           sent == [up EXCEPT ![u] = c]
<1>1. up[u] \in UpperChannel
  BY UpperFacts
<1>2. /\ c \in UpperChannel /\ c.returned = up[u].returned
      /\ \A p \in RequestQueues : c[p] = IF p = q THEN Append(up[u][q], x) ELSE up[u][p]
  BY <1>1, Pushed DEF UpperChannel
<1> HIDE DEF c
<1>3. sent \in Uppers /\ \A v \in Upper : sent[v] = IF v = u THEN c ELSE up[v]
  BY <1>2 DEF Uppers
<1> HIDE DEF sent
<1>4. /\ \A v \in Upper, p \in RequestQueues :
            sent[v][p] = IF v = u /\ p = q THEN Append(up[u][q], x) ELSE up[v][p]
      /\ \A v \in Upper : sent[v].returned = up[v].returned
  BY <1>2, <1>3
<1>5. QED
  BY <1>3, <1>4 DEF sent, c, Sent

\* A read is owed once more if it wants an answer.
LEMMA ReadSent ==
  ASSUME NEW up \in Uppers, NEW u \in Upper, NEW q \in ReadQueues, NEW x \in Request,
         NEW rq \in Seq(SlotType)
  PROVE  /\ QuietWrites(up) => QuietWrites(Sent(up, u, q, x))
         /\ \A v \in Upper, line \in Line :
               Owed(Sent(up, u, q, x), rq, v, line) =
                  Owed(up, rq, v, line) + IF v = u THEN One(x \in Wants(line)) ELSE 0
<1> DEFINE sent == Sent(up, u, q, x)
<1>1. q \in RequestQueues
  BY DEF ReadQueues, RequestQueues
<1>2. /\ sent \in Uppers
      /\ \A v \in Upper, p \in RequestQueues :
            sent[v][p] = IF v = u /\ p = q THEN Append(up[u][q], x) ELSE up[v][p]
      /\ \A v \in Upper : sent[v].returned = up[v].returned
  BY <1>1, RequestSent
<1> HIDE DEF sent
<1>3. \A v \in Upper : /\ sent[v].RQ = IF v = u /\ q = "RQ" THEN Append(up[u].RQ, x) ELSE up[v].RQ
                       /\ sent[v].PQ = IF v = u /\ q = "PQ" THEN Append(up[u].PQ, x) ELSE up[v].PQ
                       /\ sent[v].WQ = up[v].WQ
  <2> TAKE v \in Upper
  <2>1. "RQ" \in RequestQueues /\ "PQ" \in RequestQueues /\ "WQ" \in RequestQueues
    BY DEF RequestQueues
  <2>2. /\ sent[v]["RQ"] = IF v = u /\ "RQ" = q THEN Append(up[u]["RQ"], x) ELSE up[v]["RQ"]
        /\ sent[v]["PQ"] = IF v = u /\ "PQ" = q THEN Append(up[u]["PQ"], x) ELSE up[v]["PQ"]
        /\ sent[v]["WQ"] = up[v]["WQ"]
    BY <1>2, <2>1 DEF ReadQueues
  <2>3. /\ sent[v]["RQ"] = sent[v].RQ /\ sent[v]["PQ"] = sent[v].PQ
        /\ up[v]["RQ"] = up[v].RQ /\ up[v]["PQ"] = up[v].PQ
        /\ up[u]["RQ"] = up[u].RQ /\ up[u]["PQ"] = up[u].PQ
    BY <1>2, UpperFacts
  <2>4. QED
    BY <2>2, <2>3
<1>4. QuietWrites(up) => QuietWrites(sent)
  BY <1>3 DEF QuietWrites
<1>5. ASSUME NEW v \in Upper, NEW line \in Line
      PROVE  Owed(sent, rq, v, line) =
                Owed(up, rq, v, line) + IF v = u THEN One(x \in Wants(line)) ELSE 0
  <2> DEFINE D == Wants(line)
             a == Count(up[v].RQ, D)
             b == Count(up[v].PQ, D)
             c == Count(rq, Owes(v, line))
             d == Count(up[v].returned, {line})
             e == One(x \in D)
  <2>1. up[v].RQ \in Seq(Request) /\ up[v].PQ \in Seq(Request) /\ up[v].returned \in Seq(Line)
    BY UpperFacts
  <2>2. /\ a \in Nat /\ b \in Nat /\ c \in Nat /\ d \in Nat /\ e \in Nat
        /\ Count(Append(up[v].RQ, x), D) = a + e /\ Count(Append(up[v].PQ, x), D) = b + e
    <3>1. a \in Nat /\ b \in Nat /\ c \in Nat /\ d \in Nat
      BY <2>1, CountType
    <3>2. e \in Nat
      BY DEF One
    <3>3. Count(Append(up[v].RQ, x), D) = a + e
      BY <2>1, CountAppend
    <3>4. Count(Append(up[v].PQ, x), D) = b + e
      BY <2>1, CountAppend
    <3>5. QED
      BY <3>1, <3>2, <3>3, <3>4
  <2>3. Owed(up, rq, v, line) = a + b + c + d
    BY DEF Owed
  <2>4. Owed(sent, rq, v, line) = Count(sent[v].RQ, D) + Count(sent[v].PQ, D) + c + d
    BY <1>2 DEF Owed
  <2> HIDE DEF a, b, c, d, e, D
  <2>5. CASE v # u
    <3>1. Count(sent[v].RQ, D) = a /\ Count(sent[v].PQ, D) = b
      BY <1>3, <2>5 DEF a, b
    <3>2. QED
      BY <2>2, <2>3, <2>4, <2>5, <3>1
  <2>6. CASE v = u /\ q = "RQ"
    <3>1. Count(sent[v].RQ, D) = a + e /\ Count(sent[v].PQ, D) = b
      BY <1>3, <2>2, <2>6 DEF b
    <3>2. QED
      BY <2>2, <2>3, <2>4, <2>6, <3>1 DEF e, D
  <2>7. CASE v = u /\ q = "PQ"
    <3>1. Count(sent[v].RQ, D) = a /\ Count(sent[v].PQ, D) = b + e
      BY <1>3, <2>2, <2>7 DEF a
    <3>2. QED
      BY <2>2, <2>3, <2>4, <2>7, <3>1 DEF e, D
  <2>8. QED
    BY <2>5, <2>6, <2>7 DEF ReadQueues
<1>6. QED
  BY <1>4, <1>5 DEF sent

\* An upper level reads or prefetches.
LEMMA ReadStep ==
  ASSUME DRAMInv, NEW u \in Upper, NEW line \in Line, NEW response \in BOOLEAN,
         NEW q \in ReadQueues, Read(u, q, line, response)
  PROVE  DRAMInv'
<1> DEFINE x == [line |-> line, response_requested |-> response]
<1>1. /\ stage = "outside" /\ warmup' = warmup
      /\ response => line \notin wait[u]
      /\ upper' = Sent(upper, u, q, x)
      /\ wait' = [wait EXCEPT ![u] = IF response THEN @ \cup {line} ELSE @]
      /\ RQ' = RQ /\ WQ' = WQ /\ UNCHANGED bankVars /\ stage' = stage
  BY DEF Read, Sent
<1>2. StateTypes /\ ReadsAreOwed
  BY DEF DRAMInv
<1>3. x \in Request /\ q \in RequestQueues
  BY DEF Request, ReadQueues, RequestQueues
<1>4. \A l \in Line : x \in Wants(l) <=> response /\ l = line
  BY <1>3 DEF Wants
<1> HIDE DEF x
<1>5. upper \in Uppers /\ RQ \in Seq(SlotType) /\ wait \in [Upper -> SUBSET Line] /\ warmup \in BOOLEAN
  BY <1>2, LatenciesAreNumbers, SlotFacts DEF StateTypes
<1>6. upper' \in Uppers
  BY <1>1, <1>3, <1>5, RequestSent
<1>7. /\ QuietWrites(upper) => QuietWrites(upper')
      /\ \A v \in Upper, l \in Line :
            Owed(upper', RQ, v, l) = Owed(upper, RQ, v, l) + IF v = u THEN One(x \in Wants(l)) ELSE 0
  BY <1>1, <1>3, <1>5, ReadSent
<1>8. /\ wait' \in [Upper -> SUBSET Line]
      /\ \A v \in Upper, l \in Line :
            l \in wait'[v] <=> l \in wait[v] \/ (v = u /\ response /\ l = line)
  BY <1>1, <1>5
<1>9. ASSUME NEW v \in Upper, NEW l \in Line
      PROVE  Owed(upper', RQ, v, l) = One(l \in wait'[v])
  <2>1. Owed(upper, RQ, v, l) = One(l \in wait[v])
    BY <1>2 DEF ReadsAreOwed, OwedAsAwaited
  <2>2. Owed(upper', RQ, v, l) = Owed(upper, RQ, v, l) + IF v = u THEN One(x \in Wants(l)) ELSE 0
    BY <1>7
  <2>3. CASE v = u /\ response /\ l = line
    <3>1. One(l \in wait[v]) = 0 /\ One(x \in Wants(l)) = 1 /\ One(l \in wait'[v]) = 1
      BY <1>1, <1>4, <1>8, <2>3 DEF One
    <3>2. QED
      BY <2>1, <2>2, <2>3, <3>1
  <2>4. CASE ~(v = u /\ response /\ l = line)
    <3>1. One(l \in wait'[v]) = One(l \in wait[v]) /\ One(l \in wait[v]) \in Nat
      BY <1>8, <2>4 DEF One
    <3>2. v = u => One(x \in Wants(l)) = 0
      BY <1>4, <2>4 DEF One
    <3>3. QED
      BY <2>1, <2>2, <3>1, <3>2
  <2>5. QED
    BY <2>3, <2>4
<1>10. OwedAsAwaited(upper', RQ, wait') /\ QuietWrites(upper')
  BY <1>2, <1>7, <1>9 DEF OwedAsAwaited, ReadsAreOwed
<1>11. QED
  BY <1>1, <1>5, <1>6, <1>8, <1>10, OutsideStep

\* An upper level writes.
LEMMA WriteStep ==
  ASSUME DRAMInv, NEW u \in Upper, NEW line \in Line, Write(u, line)
  PROVE  DRAMInv'
<1> DEFINE x == [line |-> line, response_requested |-> FALSE]
<1>1. /\ stage = "outside" /\ warmup' = warmup
      /\ upper' = Sent(upper, u, "WQ", x) /\ wait' = wait
      /\ RQ' = RQ /\ WQ' = WQ /\ UNCHANGED bankVars /\ stage' = stage
  BY DEF Write, Sent
<1>2. StateTypes /\ ReadsAreOwed
  BY DEF DRAMInv
<1>3. x \in Request /\ ~x.response_requested /\ "WQ" \in RequestQueues
      /\ "RQ" \in RequestQueues /\ "PQ" \in RequestQueues
  BY DEF Request, RequestQueues
<1> HIDE DEF x
<1>4. upper \in Uppers /\ wait \in [Upper -> SUBSET Line] /\ warmup \in BOOLEAN
  BY <1>2 DEF StateTypes
<1>5. /\ upper' \in Uppers
      /\ \A v \in Upper, p \in RequestQueues :
            upper'[v][p] = IF v = u /\ p = "WQ" THEN Append(upper[u]["WQ"], x) ELSE upper[v][p]
      /\ \A v \in Upper : upper'[v].returned = upper[v].returned
  BY <1>1, <1>3, <1>4, RequestSent
<1>6. \A v \in Upper : upper'[v].RQ = upper[v].RQ /\ upper'[v].PQ = upper[v].PQ
  <2> TAKE v \in Upper
  <2>1. upper'[v]["RQ"] = upper[v]["RQ"] /\ upper'[v]["PQ"] = upper[v]["PQ"]
    BY <1>3, <1>5
  <2>2. /\ upper'[v]["RQ"] = upper'[v].RQ /\ upper'[v]["PQ"] = upper'[v].PQ
        /\ upper[v]["RQ"] = upper[v].RQ /\ upper[v]["PQ"] = upper[v].PQ
    BY <1>4, <1>5, UpperFacts
  <2>3. QED
    BY <2>1, <2>2
<1>7. OwedAsAwaited(upper', RQ, wait')
  BY <1>1, <1>2, <1>5, <1>6 DEF OwedAsAwaited, ReadsAreOwed, Owed
<1>8. QuietWrites(upper')
  <2>1. ASSUME NEW v \in Upper, NEW i \in 1 .. Len(upper'[v].WQ)
        PROVE  ~upper'[v].WQ[i].response_requested
    <3>1. upper[u].WQ \in Seq(Request) /\ QuietWrites(upper)
      BY <1>2, <1>4, UpperFacts DEF ReadsAreOwed
    <3>2. upper'[v].WQ = IF v = u THEN Append(upper[u].WQ, x) ELSE upper[v].WQ
      BY <1>3, <1>5
    <3>3. CASE v = u
      <4> DEFINE s == upper[u].WQ
      <4>1. i \in 1 .. Len(Append(s, x)) /\ upper'[v].WQ = Append(s, x)
        BY <2>1, <3>2, <3>3
      <4>2. \A j \in 1 .. Len(s) : ~s[j].response_requested
        BY <3>1 DEF QuietWrites
      <4>3. s \in Seq(Request)
        BY <3>1
      <4> HIDE DEF s
      <4>4. i = Len(s) + 1 \/ i \in 1 .. Len(s)
        BY <4>1, <4>3, <1>3, AppendProperties
      <4>5. Append(s, x)[i] = IF i = Len(s) + 1 THEN x ELSE s[i]
        BY <4>1, <4>3, <1>3, AppendProperties
      <4>6. QED
        BY <4>1, <4>2, <4>3, <4>4, <4>5, <1>3
    <3>4. CASE v # u
      BY <2>1, <3>1, <3>2, <3>4 DEF QuietWrites
    <3>5. QED
      BY <3>3, <3>4
  <2>2. QED
    BY <2>1 DEF QuietWrites
<1>9. QED
  BY <1>1, <1>4, <1>5, <1>7, <1>8, OutsideStep

\* An upper level takes an answer: its line is one the level waits for, as it was owed.
LEMMA TakeAnswerStep ==
  ASSUME DRAMInv, NEW u \in Upper, TakeAnswer(u)
  PROVE  DRAMInv'
<1> DEFINE s == upper[u].returned
           line == Head(s)
           c == Pop(upper[u], "returned")
<1>1. /\ stage = "outside" /\ warmup' = warmup /\ s # << >>
      /\ upper' = [upper EXCEPT ![u] = c]
      /\ wait' = [wait EXCEPT ![u] = @ \ {line}]
      /\ RQ' = RQ /\ WQ' = WQ /\ UNCHANGED bankVars /\ stage' = stage
  BY DEF TakeAnswer
<1>2. StateTypes /\ ReadsAreOwed
  BY DEF DRAMInv
<1>3. upper \in Uppers /\ RQ \in Seq(SlotType) /\ wait \in [Upper -> SUBSET Line] /\ warmup \in BOOLEAN
  BY <1>2, LatenciesAreNumbers, SlotFacts DEF StateTypes
<1>4. upper[u] \in UpperChannel /\ s \in Seq(Line)
  BY <1>3, UpperFacts
<1>5. /\ c \in UpperChannel /\ c.returned = Tail(s)
      /\ \A p \in RequestQueues : c[p] = upper[u][p]
  BY <1>1, <1>4, AnswerRead DEF UpperChannel
<1> HIDE DEF c
<1>6. upper' \in Uppers /\ \A v \in Upper : upper'[v] = IF v = u THEN c ELSE upper[v]
  BY <1>1, <1>3, <1>5 DEF Uppers
<1>7. \A v \in Upper : /\ upper'[v].RQ = upper[v].RQ /\ upper'[v].PQ = upper[v].PQ
                       /\ upper'[v].WQ = upper[v].WQ
                       /\ upper'[v].returned = IF v = u THEN Tail(s) ELSE upper[v].returned
  <2> TAKE v \in Upper
  <2>1. "RQ" \in RequestQueues /\ "PQ" \in RequestQueues /\ "WQ" \in RequestQueues
    BY DEF RequestQueues
  <2>2. c["RQ"] = upper[u]["RQ"] /\ c["PQ"] = upper[u]["PQ"] /\ c["WQ"] = upper[u]["WQ"]
    BY <1>5, <2>1
  <2>3. c.RQ = upper[u].RQ /\ c.PQ = upper[u].PQ /\ c.WQ = upper[u].WQ
    BY <2>2
  <2>4. QED
    BY <1>5, <1>6, <2>3
<1>8. QuietWrites(upper')
  BY <1>2, <1>7 DEF QuietWrites, ReadsAreOwed
<1> HIDE DEF s
<1>9. ASSUME NEW l \in Line
      PROVE  /\ Tail(s) \in Seq(Line) /\ line \in Line
             /\ Count(s, {l}) = One(line \in {l}) + Count(Tail(s), {l})
             /\ Count(s, {l}) \in Nat /\ Count(Tail(s), {l}) \in Nat
  <2>1. /\ Tail(s) \in Seq(Line) /\ line \in Line
        /\ Count(s, {l}) = One(line \in {l}) + Count(Tail(s), {l})
    BY <1>1, <1>4, CountTail
  <2>2. QED
    BY <1>4, <2>1, CountType
<1>10. line \in Line
  BY <1>1, <1>4, CountTail
<1> HIDE DEF line
<1>11. ASSUME NEW v \in Upper, NEW l \in Line
       PROVE  Owed(upper', RQ, v, l) = One(l \in wait'[v])
  <2> DEFINE a == Count(upper[v].RQ, Wants(l))
             b == Count(upper[v].PQ, Wants(l))
             k == Count(RQ, Owes(v, l))
             d == Count(upper[v].returned, {l})
             e == Count(upper'[v].returned, {l})
  <2>1. a + b + k + d = One(l \in wait[v]) /\ Owed(upper', RQ, v, l) = a + b + k + e
    BY <1>2, <1>7 DEF Owed, OwedAsAwaited, ReadsAreOwed
  <2>2. a \in Nat /\ b \in Nat /\ k \in Nat /\ d \in Nat /\ e \in Nat
    <3>1. upper[v].RQ \in Seq(Request) /\ upper[v].PQ \in Seq(Request) /\ upper[v].returned \in Seq(Line)
      BY <1>3, UpperFacts
    <3>2. upper'[v].returned \in Seq(Line)
      BY <1>6, UpperFacts
    <3>3. QED
      BY <1>3, <3>1, <3>2, CountType
  <2>3. CASE v = u /\ l = line
    <3>1. d = 1 + e
      <4>1. One(line \in {l}) = 1
        BY <2>3 DEF One
      <4>2. upper[v].returned = s /\ upper'[v].returned = Tail(s)
        BY <1>7, <2>3 DEF s
      <4>3. QED
        BY <1>9, <4>1, <4>2
    <3>2. l \notin wait'[v]
      BY <1>1, <1>3, <2>3
    <3>3. One(l \in wait[v]) \in {0, 1} /\ One(l \in wait'[v]) = 0
      BY <3>2 DEF One
    <3> HIDE DEF a, b, k, d, e
    <3>4. QED
      BY <2>1, <2>2, <3>1, <3>3
  <2>4. CASE v = u /\ l # line
    <3>1. d = e
      <4>1. One(line \in {l}) = 0
        BY <2>4 DEF One
      <4>2. upper[v].returned = s /\ upper'[v].returned = Tail(s)
        BY <1>7, <2>4 DEF s
      <4>3. QED
        BY <1>9, <4>1, <4>2
    <3>2. l \in wait'[v] <=> l \in wait[v]
      BY <1>1, <1>3, <2>4
    <3>3. One(l \in wait'[v]) = One(l \in wait[v])
      BY <3>2 DEF One
    <3> HIDE DEF a, b, k, d, e
    <3>4. QED
      BY <2>1, <3>1, <3>3
  <2>5. CASE v # u
    <3>1. d = e
      BY <1>7, <2>5
    <3>2. wait'[v] = wait[v]
      BY <1>1, <1>3, <2>5
    <3> HIDE DEF a, b, k, d, e
    <3>3. QED
      BY <2>1, <3>1, <3>2
  <2>6. QED
    BY <2>3, <2>4, <2>5
<1>12. wait' \in [Upper -> SUBSET Line]
  BY <1>1, <1>3
<1>13. OwedAsAwaited(upper', RQ, wait')
  BY <1>11 DEF OwedAsAwaited
<1>14. QED
  BY <1>1, <1>3, <1>6, <1>8, <1>12, <1>13, OutsideStep

\* A step that changes nothing.
LEMMA StutterStep ==
  ASSUME DRAMInv, UNCHANGED dramVars
  PROVE  DRAMInv'
<1>1. /\ upper' = upper /\ RQ' = RQ /\ WQ' = WQ /\ bank_request' = bank_request
      /\ active_request' = active_request /\ write_mode' = write_mode
      /\ bankgroup_readytime' = bankgroup_readytime /\ refresh_in' = refresh_in
      /\ stage' = stage /\ warmup' = warmup /\ wait' = wait
  BY DEF dramVars, queueVars, bankVars, externalVars
<1>2. StateTypes /\ BanksArePaired /\ ChecksAreDone /\ ReadsAreOwed /\ NeedyIsBusy
  BY DEF DRAMInv
<1>3. StateTypes' /\ BanksArePaired' /\ ReadsAreOwed' /\ NeedyIsBusy'
  BY <1>1, <1>2 DEF StateTypes, BanksArePaired, ReadsAreOwed, NeedyIsBusy
<1>4. ChecksAreDone'
  BY <1>1, <1>2 DEF ChecksAreDone
<1>5. QED
  BY <1>3, <1>4 DEF DRAMInv

\* Every step keeps the invariant.
LEMMA NextKeepsInv ==
  ASSUME DRAMInv, [DRAMNext]_dramVars
  PROVE  DRAMInv'
<1>1. CASE DRAMOperate
  <2>1. CASE StartCycle
    BY <2>1, StartCycleStep
  <2>2. CASE Initiate
    BY <2>2, InitiateStep
  <2>3. CASE Collide
    BY <2>3, CollideStep
  <2>4. CASE FinishDbus
    BY <2>4, FinishDbusStep
  <2>5. CASE SwapWriteMode
    BY <2>5, SwapWriteModeStep
  <2>6. CASE ScheduleRefresh
    BY <2>6, ScheduleRefreshStep
  <2>7. CASE PopulateDbus
    BY <2>7, PopulateDbusStep
  <2>8. CASE ServicePacket
    BY <2>8, ServicePacketStep
  <2>9. QED
    BY <1>1, <2>1, <2>2, <2>3, <2>4, <2>5, <2>6, <2>7, <2>8 DEF DRAMOperate
<1>2. CASE BeginPhase
  BY <1>2, BeginPhaseStep
<1>3. ASSUME NEW u \in Upper, NEW line \in Line, NEW response \in BOOLEAN, NEW q \in {"RQ", "PQ"},
             Read(u, q, line, response)
      PROVE  DRAMInv'
  <2>1. q \in ReadQueues
    BY DEF ReadQueues
  <2>2. QED
    BY <1>3, <2>1, ReadStep
<1>4. ASSUME NEW u \in Upper, NEW line \in Line, Write(u, line)
      PROVE  DRAMInv'
  BY <1>4, WriteStep
<1>5. ASSUME NEW u \in Upper, TakeAnswer(u)
      PROVE  DRAMInv'
  BY <1>5, TakeAnswerStep
<1>6. CASE UNCHANGED dramVars
  BY <1>6, StutterStep
<1>7. QED
  BY <1>1, <1>2, <1>3, <1>4, <1>5, <1>6 DEF DRAMNext

\* So it always holds.
LEMMA InvHolds == DRAMSpec => []DRAMInv
<1>1. DRAMInit => DRAMInv
  BY InitInv
<1>2. DRAMInv /\ [DRAMNext]_dramVars => DRAMInv'
  BY NextKeepsInv
<1>3. QED
  BY <1>1, <1>2, PTL DEF DRAMSpec

-----------------------------------------------------------------------------
(* The theorems. *)

\* A packet is scheduled if and only if one bank serves it.
LEMMA PairedMeansOne ==
  ASSUME NEW bank \in BankArray, NEW w \in BOOLEAN, NEW n \in Nat, NEW q \in SlotsOf(n),
         Paired(bank, w, q), NEW i \in Occupied(q)
  PROVE  q[i].scheduled <=>
            Cardinality({b \in Banks : bank[b].valid /\ bank[b].pkt = i /\ bank[b].write = w}) = 1
<1> DEFINE here == {b \in Banks : bank[b].valid /\ bank[b].pkt = i /\ bank[b].write = w}
           home == BankOf[q[i].line]
<1>1. DOMAIN q = 1 .. n /\ i \in 1 .. n /\ q[i] \in Packet
  <2>1. DOMAIN q = 1 .. n /\ \A j \in 1 .. n : q[j] \in SlotType
    BY SlotFacts
  <2>2. QED
    BY <2>1 DEF Occupied, SlotType
<1>2. home \in Banks
  BY <1>1, BankOfLine
<1>3. CASE q[i].scheduled
  <2>1. here = {home}
    BY <1>1, <1>2, <1>3, NoPacketAssumption DEF Paired
  <2>2. QED
    BY <1>3, <2>1, FS_Singleton
<1>4. CASE ~q[i].scheduled
  <2>1. here = {}
    BY <1>4 DEF Paired
  <2>2. Cardinality(here) = 0
    BY <2>1, FS_EmptySet
  <2>3. QED
    BY <1>4, <2>2
<1>5. QED
  BY <1>3, <1>4

\* The invariant has what BankPacketsExist says.
LEMMA InvPairs ==
  ASSUME DRAMInv
  PROVE  BankPacketsExist
<1>1. StateTypes /\ BanksArePaired
  BY DEF DRAMInv
<1>2. /\ RQ_SIZE \in Nat /\ WQ_SIZE \in Nat /\ RQ \in SlotsOf(RQ_SIZE) /\ WQ \in SlotsOf(WQ_SIZE)
      /\ bank_request \in BankArray
  BY <1>1, LatenciesAreNumbers DEF StateTypes
<1>3. DRAMTypeOK
  <2>1. /\ \A i \in DOMAIN RQ : RQ[i] \in SlotType
        /\ \A i \in DOMAIN WQ : WQ[i] \in SlotType
    BY <1>2, SlotFacts
  <2>2. \A b \in Banks : bank_request[b].ready <= Latest
    BY <1>2 DEF BankArray, Bank
  <2>3. QED
    BY <1>1, <2>1, <2>2 DEF StateTypes, BanksArePaired, DRAMTypeOK, Latest
<1>4. Paired(bank_request, FALSE, RQ) /\ Paired(bank_request, TRUE, WQ)
  BY <1>1 DEF BanksArePaired
<1>5. ASSUME NEW b \in Banks, bank_request[b].valid
      PROVE  /\ PacketOf(b) # NoPacket /\ PacketOf(b).scheduled
             /\ BankOf[PacketOf(b).line] = b
  <2>1. bank_request[b].write \in BOOLEAN
    BY <1>2 DEF BankArray, Bank
  <2>2. CASE bank_request[b].write = TRUE
    <3>1. PacketOf(b) = WQ[bank_request[b].pkt]
      BY <2>2 DEF PacketOf
    <3>2. QED
      BY <1>4, <1>5, <2>2, <3>1 DEF Paired
  <2>3. CASE bank_request[b].write = FALSE
    <3>1. PacketOf(b) = RQ[bank_request[b].pkt]
      BY <2>3 DEF PacketOf
    <3>2. QED
      BY <1>4, <1>5, <2>3, <3>1 DEF Paired
  <2>4. QED
    BY <2>1, <2>2, <2>3
<1>6. \A i \in Occupied(RQ) :
         RQ[i].scheduled <=>
            Cardinality({b \in Banks : /\ bank_request[b].valid /\ bank_request[b].pkt = i
                                       /\ bank_request[b].write = FALSE}) = 1
  BY <1>2, <1>4, PairedMeansOne
<1>7. \A i \in Occupied(WQ) :
         WQ[i].scheduled <=>
            Cardinality({b \in Banks : /\ bank_request[b].valid /\ bank_request[b].pkt = i
                                       /\ bank_request[b].write = TRUE}) = 1
  BY <1>2, <1>4, PairedMeansOne
<1>8. active_request # NoBank => bank_request[active_request].valid
  BY <1>1 DEF BanksArePaired
<1>9. QED
  BY <1>3, <1>5, <1>6, <1>7, <1>8 DEF BankPacketsExist

\* And what EveryReadOwedOnce says.
LEMMA InvOwes ==
  ASSUME DRAMInv
  PROVE  EveryReadOwedOnce
<1>1. StateTypes /\ ReadsAreOwed
  BY DEF DRAMInv
<1>2. /\ RQ_SIZE \in Nat /\ RQ \in SlotsOf(RQ_SIZE) /\ upper \in Uppers
  BY <1>1, LatenciesAreNumbers DEF StateTypes
<1>3. DOMAIN RQ = 1 .. RQ_SIZE /\ \A i \in 1 .. RQ_SIZE : RQ[i] \in SlotType
  BY <1>2, SlotFacts
<1> DEFINE asked(u, q, line) == {i \in DOMAIN upper[u][q] :
                                    upper[u][q][i].line = line /\ upper[u][q][i].response_requested}
<1>4. ASSUME NEW u \in Upper, NEW line \in Line
      PROVE  Cardinality(asked(u, "RQ", line)) + Cardinality(asked(u, "PQ", line))
               + Cardinality({i \in Occupied(RQ) : RQ[i].line = line /\ u \in RQ[i].to_return})
               + Cardinality({i \in DOMAIN upper[u].returned : upper[u].returned[i] = line})
             = IF line \in wait[u] THEN 1 ELSE 0
  <2>1. /\ upper[u].RQ \in Seq(Request) /\ upper[u].PQ \in Seq(Request)
        /\ upper[u]["RQ"] = upper[u].RQ /\ upper[u]["PQ"] = upper[u].PQ
    BY <1>2, UpperFacts
  <2>2. asked(u, "RQ", line) = Places(upper[u].RQ, Wants(line))
    <3> DEFINE s == upper[u].RQ
    <3>1. \A i \in DOMAIN s : s[i] \in Request
      BY <2>1, LenProperties
    <3>2. asked(u, "RQ", line) = {i \in DOMAIN s : s[i].line = line /\ s[i].response_requested}
      BY <2>1
    <3> HIDE DEF s
    <3>3. QED
      BY <3>1, <3>2 DEF Places, Wants, s
  <2>3. asked(u, "PQ", line) = Places(upper[u].PQ, Wants(line))
    <3> DEFINE s == upper[u].PQ
    <3>1. \A i \in DOMAIN s : s[i] \in Request
      BY <2>1, LenProperties
    <3>2. asked(u, "PQ", line) = {i \in DOMAIN s : s[i].line = line /\ s[i].response_requested}
      BY <2>1
    <3> HIDE DEF s
    <3>3. QED
      BY <3>1, <3>2 DEF Places, Wants, s
  <2>4. {i \in Occupied(RQ) : RQ[i].line = line /\ u \in RQ[i].to_return} = Places(RQ, Owes(u, line))
    BY <1>3, NoPacketAssumption DEF Places, Owes, Occupied, SlotType
  <2>5. {i \in DOMAIN upper[u].returned : upper[u].returned[i] = line} = Places(upper[u].returned, {line})
    BY DEF Places
  <2>6. Owed(upper, RQ, u, line) = IF line \in wait[u] THEN 1 ELSE 0
    BY <1>1 DEF ReadsAreOwed, OwedAsAwaited, One
  <2> HIDE DEF asked
  <2>7. QED
    BY <2>2, <2>3, <2>4, <2>5, <2>6 DEF Owed, Count
<1>5. QED
  BY <1>4 DEF EveryReadOwedOnce

\* A bank's mark goes only when it starts to refresh.
LEMMA StepRemembers ==
  ASSUME DRAMInv, [DRAMNext]_dramVars, NEW b \in Banks,
         bank_request[b].need_refresh, ~bank_request'[b].need_refresh
  PROVE  bank_request'[b].under_refresh
<1>1. bank_request \in BankArray
  BY DEF DRAMInv, StateTypes
<1>2. CASE StartCycle
  BY <1>2, StartCycleStep
<1>3. CASE Initiate \/ Collide
  BY <1>3 DEF Initiate, Collide, bankVars
<1>4. CASE FinishDbus
  <2>1. \/ bank_request' = [bank_request EXCEPT ![active_request].valid = FALSE]
        \/ bank_request' = bank_request
    BY <1>4 DEF FinishDbus
  <2>2. bank_request'[b].need_refresh = bank_request[b].need_refresh
    BY <1>1, <2>1 DEF BankArray, Bank
  <2>3. QED
    BY <2>2
<1>5. CASE SwapWriteMode
  <2>1. \/ bank_request' = bank_request
        \/ \E row : \A c \in Banks : bank_request'[c] =
              IF c \notin Recalled THEN bank_request[c]
              ELSE [bank_request[c] EXCEPT !.valid = FALSE, !.open_row = row[c]]
    <3> DEFINE row == [c \in Banks |-> IF bank_request[c].ready < tCAS THEN NoRow
                                      ELSE bank_request[c].open_row]
    <3>1. CASE UNCHANGED bank_request
      BY <3>1
    <3>2. CASE bank_request' = [c \in Banks |->
                                  IF c \notin Recalled THEN bank_request[c]
                                  ELSE [bank_request[c] EXCEPT
                                          !.valid = FALSE,
                                          !.open_row = IF bank_request[c].ready < tCAS THEN NoRow ELSE @]]
      <4>1. \A c \in Banks : bank_request'[c] =
              IF c \notin Recalled THEN bank_request[c]
              ELSE [bank_request[c] EXCEPT !.valid = FALSE, !.open_row = row[c]]
        BY <3>2
      <4>2. QED
        BY <4>1
    <3>3. QED
      BY <3>1, <3>2, <1>5 DEF SwapWriteMode
  <2>2. bank_request[b] \in Bank
    BY <1>1 DEF BankArray
  <2>3. bank_request'[b].need_refresh = bank_request[b].need_refresh
    BY <2>1, <2>2 DEF Bank
  <2>4. QED
    BY <2>3
<1>6. CASE ScheduleRefresh
  BY <1>6, ScheduleRefreshStep
<1>7. CASE PopulateDbus
  <2>1. \/ \E c, t : bank_request' = [bank_request EXCEPT ![c].ready = t]
        \/ bank_request' = bank_request
    BY <1>7 DEF PopulateDbus
  <2>2. bank_request'[b].need_refresh = bank_request[b].need_refresh
    BY <1>1, <2>1 DEF BankArray, Bank
  <2>3. QED
    BY <2>2
<1>8. CASE ServicePacket
  BY <1>8, ServicePacketStep
<1>9. CASE \/ BeginPhase
           \/ \E u \in Upper :
                 \/ \E line \in Line, response \in BOOLEAN, q \in {"RQ", "PQ"} : Read(u, q, line, response)
                 \/ \E line \in Line : Write(u, line)
                 \/ TakeAnswer(u)
  <2>1. bank_request' = bank_request
    BY <1>9 DEF BeginPhase, Read, Write, TakeAnswer, bankVars
  <2>2. QED
    BY <2>1
<1>10. CASE UNCHANGED dramVars
  BY <1>10 DEF dramVars, bankVars
<1>11. QED
  BY <1>2, <1>3, <1>4, <1>5, <1>6, <1>7, <1>8, <1>9, <1>10 DEF DRAMNext, DRAMOperate

\* Every bank that is busy points at a packet that is there, is scheduled and is for
\* that bank, and every scheduled packet is in exactly one bank.
THEOREM BanksPointAtPackets == DRAMSpec => []BankPacketsExist
<1>1. DRAMInv => BankPacketsExist
  BY InvPairs
<1>2. QED
  BY <1>1, InvHolds, PTL

\* Every read that wants an answer is owed exactly one.
THEOREM ReadsAreOwedOnce == DRAMSpec => []EveryReadOwedOnce
<1>1. DRAMInv => EveryReadOwedOnce
  BY InvOwes
<1>2. QED
  BY <1>1, InvHolds, PTL

\* A refresh that came due while its bank was busy is not forgotten.
THEOREM RefreshIsRemembered == DRAMSpec => RefreshNotForgotten
<1> DEFINE Remembers == \A b \in Banks : bank_request[b].need_refresh /\ ~bank_request'[b].need_refresh
                                            => bank_request'[b].under_refresh
<1>1. DRAMInv /\ [DRAMNext]_dramVars => [Remembers]_bank_request
  BY StepRemembers
<1>2. QED
  BY <1>1, InvHolds, PTL DEF DRAMSpec, RefreshNotForgotten
=============================================================================

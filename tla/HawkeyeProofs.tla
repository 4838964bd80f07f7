---------------------------- MODULE HawkeyeProofs ----------------------------
(***************************************************************************)
(* OPTgen's window is consistent, and hawkeye's own window is an exact     *)
(* copy of it, for any geometry of the cache, any window length, any       *)
(* addresses and PCs, and any way PCs share counters.  find_victim's loop  *)
(* keeps the values in range, never contradicts the eviction order, and    *)
(* does what RRIP says in one step, for any number of ways.                *)
(***************************************************************************)
EXTENDS Hawkeye, RRIPSearch, SequenceCounts

-----------------------------------------------------------------------------
(* The RRIP table. *)

\* update_rrpv keeps every value in 0 .. MaxRRPV.
LEMMA UpdateType ==
  ASSUME NEW rrpvs \in [Ways -> RRPV], NEW way \in Ways, NEW cls, NEW isHit
  PROVE  UpdateRRPV(rrpvs, way, cls, isHit) \in [Ways -> RRPV]
BY DEF UpdateRRPV, RRPV, MaxRRPV, MaxFriendlyRRPV

\* find_victim's choice exists: it is the first of the oldest lines.
LEMMA VictimIsOldest ==
  ASSUME NEW rrpvs \in [Ways -> RRPV]
  PROVE  /\ VictimOf(rrpvs) \in Oldest(rrpvs)
         /\ \A x \in Oldest(rrpvs) : VictimOf(rrpvs) <= x
<1> DEFINE after(x, y) == rrpvs[x] > rrpvs[y] \/ (rrpvs[x] = rrpvs[y] /\ x <= y)
           R == {p \in Ways \X Ways : after(p[1], p[2])}
<1>1. NumWays \in Nat /\ Ways \in SUBSET (1 .. NumWays) /\ Ways # {}
  <2>1. 1 \in 1 .. NumWays
    BY RRIPAssumption
  <2>2. QED
    BY <2>1, RRIPAssumption DEF Ways
<1>2. \A x \in Ways : rrpvs[x] \in Nat /\ x \in Nat
  BY DEF RRPV, MaxRRPV, Ways
<1>3. \A x \in Ways : \A y \in Ways :
         <<x, y>> \in R <=> after(x, y)
  OBVIOUS
<1> HIDE DEF R
<1>4. \E x \in Ways : \A y \in Ways : <<x, y>> \in R
  <2>1. ASSUME NEW x \in Ways, NEW y \in Ways
        PROVE  <<x, y>> \in R \/ <<y, x>> \in R
    <3>1. rrpvs[x] \in Nat /\ rrpvs[y] \in Nat /\ x \in Nat /\ y \in Nat
      BY <1>2
    <3>2. after(x, y) \/ after(y, x)
      BY <3>1
    <3>3. QED
      BY <1>3, <3>2
  <2>2. \A x \in Ways : \A y \in Ways : \A z \in Ways :
           <<x, y>> \in R /\ <<y, z>> \in R => <<x, z>> \in R
    BY <1>2, <1>3
  <2>3. QED
    BY <1>1, <2>1, <2>2, LeastOf
<1>5. \E x \in Oldest(rrpvs) : \A y \in Oldest(rrpvs) : x <= y
  <2>1. PICK x \in Ways : \A y \in Ways : <<x, y>> \in R
    BY <1>4
  <2>2. ASSUME NEW y \in Ways
        PROVE  rrpvs[y] <= rrpvs[x] /\ (rrpvs[x] <= rrpvs[y] => x <= y)
    <3>1. rrpvs[x] \in Nat /\ rrpvs[y] \in Nat /\ x \in Nat /\ y \in Nat
      BY <1>2
    <3>2. after(x, y)
      BY <1>3, <2>1
    <3>3. QED
      BY <3>1, <3>2
  <2>3. QED
    BY <2>2 DEF Oldest
<1>6. QED
  BY <1>5 DEF VictimOf

\* After the search the victim has the value MaxRRPV and no line has more.
LEMMA AgedType ==
  ASSUME NEW rrpvs \in [Ways -> RRPV]
  PROVE  /\ Aged(rrpvs) \in [Ways -> RRPV]
         /\ VictimOf(rrpvs) \in Ways
         /\ Aged(rrpvs)[VictimOf(rrpvs)] = MaxRRPV
<1> DEFINE v == VictimOf(rrpvs)
<1>1. v \in Ways /\ \A w \in Ways : rrpvs[w] <= rrpvs[v]
  BY VictimIsOldest DEF Oldest
<1> HIDE DEF v
<1>2. \A w \in Ways : /\ rrpvs[w] + (MaxRRPV - rrpvs[v]) \in RRPV
                      /\ rrpvs[v] + (MaxRRPV - rrpvs[v]) = MaxRRPV
  BY <1>1 DEF RRPV, MaxRRPV
<1>3. QED
  BY <1>1, <1>2 DEF Aged, v

-----------------------------------------------------------------------------
(* find_victim's loop. *)

\* During the search every value is the one at the call plus the same amount.
AgedAlike ==
    /\ ~searching => atCall = rrpv
    /\ searching => \E k \in 0 .. MaxRRPV : \A w \in Ways : rrpv[w] = atCall[w] + k

SearchInv == SearchTypeOK /\ EvictionOrder /\ AgedAlike

\* update_rrpv keeps the order of the lines it does not touch, and puts the one
\* it touches at the end its class asks for.
LEMMA UpdateKeepsOrder ==
  ASSUME SearchInv, NEW way \in Ways, NEW cls \in Classification,
         NEW isHit \in BOOLEAN, Update(way, cls, isHit)
  PROVE  EvictionOrder'
<1> SUFFICES ASSUME NEW p \in goesBefore' PROVE rrpv'[p[1]] >= rrpv'[p[2]]
  BY DEF EvictionOrder
<1>1. rrpv' = UpdateRRPV(rrpv, way, cls, isHit) /\ goesBefore' = Touched(way, cls)
  BY DEF Update
<1>2. rrpv \in [Ways -> RRPV] /\ goesBefore \subseteq Ways \X Ways
  BY DEF SearchInv, SearchTypeOK
<1>3. CASE p \in goesBefore /\ way \notin {p[1], p[2]}
  <2>1. p[1] \in Ways /\ p[2] \in Ways /\ rrpv[p[1]] >= rrpv[p[2]]
    BY <1>2, <1>3 DEF SearchInv, EvictionOrder
  <2>2. QED
    BY <2>1, <1>1, <1>2, <1>3 DEF UpdateRRPV, RRPV, MaxFriendlyRRPV
<1>4. CASE cls = "CACHE_FRIENDLY" /\ p \in {<<x, way>> : x \in Ways \ {way}}
  <2>1. p[1] \in Ways /\ p[2] = way
    BY <1>4
  <2>2. rrpv'[way] = 0
    BY <1>1, <1>4 DEF UpdateRRPV
  <2>3. rrpv' \in [Ways -> RRPV]
    BY <1>1, <1>2, UpdateType
  <2>4. QED
    BY <2>1, <2>2, <2>3 DEF RRPV
<1>5. CASE cls # "CACHE_FRIENDLY" /\ p \in {<<way, x>> : x \in Ways \ {way}}
  <2>1. p[2] \in Ways /\ p[1] = way
    BY <1>5
  <2>2. rrpv'[way] = MaxRRPV
    BY <1>1, <1>5 DEF UpdateRRPV, Classification
  <2>3. rrpv' \in [Ways -> RRPV]
    BY <1>1, <1>2, UpdateType
  <2>4. QED
    BY <2>1, <2>2, <2>3 DEF RRPV
<1>6. QED
  BY <1>1, <1>3, <1>4, <1>5 DEF Touched

\* The strengthened invariant holds initially and is kept by every action.
LEMMA SearchInvariance == SearchSafe => []SearchInv
<1>1. SearchInit => SearchInv
  <2> SUFFICES ASSUME SearchInit PROVE SearchInv
    OBVIOUS
  <2>1. SearchTypeOK
    <3>1. rrpv \in [Ways -> RRPV]
      BY DEF SearchInit, RRPV, MaxRRPV
    <3>2. goesBefore \in SUBSET (Ways \X Ways)
      BY DEF SearchInit
    <3>3. QED
      BY <3>1, <3>2 DEF SearchInit, SearchTypeOK
  <2>2. EvictionOrder /\ AgedAlike
    BY DEF SearchInit, EvictionOrder, AgedAlike
  <2>3. QED
    BY <2>1, <2>2 DEF SearchInv
<1>2. SearchInv /\ [SearchNext]_searchVars => SearchInv'
  <2> SUFFICES ASSUME SearchInv, [SearchNext]_searchVars PROVE SearchInv'
    OBVIOUS
  <2>t. /\ rrpv \in [Ways -> RRPV]
        /\ victim \in Ways \cup {NoVictim}
        /\ searching \in BOOLEAN
        /\ atCall \in [Ways -> RRPV]
        /\ goesBefore \in SUBSET (Ways \X Ways)
    BY DEF SearchInv, SearchTypeOK
  <2>1. ASSUME NEW way \in Ways, NEW cls \in Classification,
               NEW isHit \in BOOLEAN, Update(way, cls, isHit)
        PROVE  SearchInv'
    <3>1. EvictionOrder'
      BY <2>1, UpdateKeepsOrder
    <3>2. rrpv' \in [Ways -> RRPV]
      BY <2>1, <2>t, UpdateType DEF Update
    <3>3. Touched(way, cls) \in SUBSET (Ways \X Ways)
      BY <2>t DEF Touched
    <3>4. SearchTypeOK'
      BY <2>1, <2>t, <3>2, <3>3 DEF Update, SearchTypeOK
    <3>5. AgedAlike'
      BY <2>1, <2>t DEF Update, AgedAlike
    <3>6. QED
      BY <3>1, <3>4, <3>5 DEF SearchInv
  <2>2. CASE CallFindVictim
    <3>1. AgedAlike'
      <4>1. \A w \in Ways : rrpv[w] = rrpv[w] + 0
        BY <2>t DEF RRPV
      <4>2. QED
        BY <2>2, <4>1 DEF CallFindVictim, AgedAlike, MaxRRPV
    <3>2. QED
      BY <2>2, <2>t, <3>1
         DEF CallFindVictim, SearchInv, SearchTypeOK, EvictionOrder
  <2>3. CASE ReturnVictim
    <3>1. victim' \in Ways
      <4>1. Candidates # {} /\ Candidates \subseteq Ways
        BY <2>3 DEF ReturnVictim, Candidates
      <4>2. \E w \in Candidates : \A x \in Candidates : w <= x
        <5>1. Candidates \subseteq Nat
          BY DEF Candidates, Ways
        <5>2. QED
          BY <4>1, <5>1, SmallestOf
      <4>3. QED
        BY <2>3, <4>1, <4>2 DEF ReturnVictim
    <3>2. QED
      BY <2>3, <2>t, <3>1
         DEF ReturnVictim, SearchInv, SearchTypeOK, EvictionOrder, AgedAlike
  <2>4. CASE AgeAll
    <3>1. \A w \in Ways : rrpv[w] \in 0 .. MaxRRPV - 1
      BY <2>4, <2>t DEF AgeAll, Candidates, RRPV, MaxRRPV
    <3>2. rrpv' = [w \in Ways |-> rrpv[w] + 1]
      BY <2>4 DEF AgeAll
    <3>3. rrpv' \in [Ways -> RRPV]
      BY <3>1, <3>2 DEF RRPV, MaxRRPV
    <3>4. EvictionOrder'
      BY <2>4, <2>t, <3>2 DEF AgeAll, SearchInv, EvictionOrder, RRPV
    <3>5. AgedAlike'
      <4>1. PICK k \in 0 .. MaxRRPV : \A w \in Ways : rrpv[w] = atCall[w] + k
        BY <2>4 DEF AgeAll, SearchInv, AgedAlike
      <4>2. \E w \in Ways : TRUE
        BY RRIPAssumption DEF Ways
      <4>3. k + 1 \in 0 .. MaxRRPV
        BY <2>t, <3>1, <4>1, <4>2 DEF RRPV, MaxRRPV
      <4>4. \A w \in Ways : rrpv'[w] = atCall[w] + (k + 1)
        BY <2>t, <3>2, <4>1 DEF RRPV
      <4>5. searching' = TRUE /\ atCall' = atCall
        BY <2>4 DEF AgeAll
      <4>6. QED
        BY <4>3, <4>4, <4>5 DEF AgedAlike
    <3>6. SearchTypeOK'
      BY <2>4, <2>t, <3>3 DEF AgeAll, SearchTypeOK
    <3>7. QED
      BY <3>4, <3>5, <3>6 DEF SearchInv
  <2>5. CASE UNCHANGED searchVars
    BY <2>5 DEF searchVars, SearchInv, SearchTypeOK, EvictionOrder, AgedAlike, Candidates
  <2>6. QED
    BY <2>1, <2>2, <2>3, <2>4, <2>5 DEF SearchNext
<1>3. QED
  BY <1>1, <1>2, PTL DEF SearchSafe

\* The values stay in 0..7: the loop's increments never pass the value it looks
\* for, so == maxRRPV (rrip.cc:38) cannot be jumped over.
THEOREM SearchTypeCorrect == SearchSafe => []SearchTypeOK
<1>1. SearchInv => SearchTypeOK
  BY DEF SearchInv
<1>2. QED
  BY <1>1, SearchInvariance, PTL

\* Aging and the cap at 6 never put a line ahead of one that should go earlier,
\* for any number of ways and any sequence of updates and searches.
THEOREM EvictionOrderKept == SearchSafe => []EvictionOrder
<1>1. SearchInv => EvictionOrder
  BY DEF SearchInv
<1>2. QED
  BY <1>1, SearchInvariance, PTL

-----------------------------------------------------------------------------
\* The line the loop returns is the one RRIP chooses from the values at the call,
\* and the values it leaves are RRIP's.
LEMMA SearchFindsVictim ==
  ASSUME SearchInv, searching, Candidates # {}
  PROVE  /\ (CHOOSE w \in Candidates : \A x \in Candidates : w <= x) = VictimOf(atCall)
         /\ rrpv = Aged(atCall)
<1>1. /\ rrpv \in [Ways -> RRPV]
      /\ atCall \in [Ways -> RRPV]
  BY DEF SearchInv, SearchTypeOK
<1>2. PICK k \in 0 .. MaxRRPV : \A w \in Ways : rrpv[w] = atCall[w] + k
  BY DEF SearchInv, AgedAlike
<1>3. PICK c \in Ways : rrpv[c] = MaxRRPV
  BY DEF Candidates
<1>4. Candidates = Oldest(atCall)
  <2>1. ASSUME NEW w \in Ways, rrpv[w] = MaxRRPV
        PROVE  \A x \in Ways : atCall[x] <= atCall[w]
    <3> SUFFICES ASSUME NEW x \in Ways PROVE atCall[x] <= atCall[w]
      OBVIOUS
    <3>1. rrpv[x] <= rrpv[w] /\ rrpv[x] = atCall[x] + k /\ rrpv[w] = atCall[w] + k
      BY <2>1, <1>1, <1>2 DEF RRPV
    <3>2. atCall[x] \in Nat /\ atCall[w] \in Nat
      BY <1>1 DEF RRPV
    <3>3. QED
      BY <3>1, <3>2
  <2>2. ASSUME NEW w \in Ways, \A x \in Ways : atCall[x] <= atCall[w]
        PROVE  rrpv[w] = MaxRRPV
    <3>1. /\ atCall[c] <= atCall[w]
          /\ rrpv[c] = atCall[c] + k
          /\ rrpv[w] = atCall[w] + k
          /\ rrpv[w] \in 0 .. MaxRRPV
          /\ atCall[c] \in Nat /\ atCall[w] \in Nat
      BY <2>2, <1>1, <1>2, <1>3 DEF RRPV
    <3>2. QED
      BY <3>1, <1>3 DEF MaxRRPV
  <2>3. QED
    BY <2>1, <2>2 DEF Candidates, Oldest
<1>5. (CHOOSE w \in Candidates : \A x \in Candidates : w <= x) = VictimOf(atCall)
  BY <1>4 DEF VictimOf
<1>6. VictimOf(atCall) \in Ways /\ rrpv[VictimOf(atCall)] = MaxRRPV
  BY <1>1, <1>4, VictimIsOldest DEF Candidates
<1>7. ASSUME NEW w \in Ways
      PROVE  rrpv[w] = atCall[w] + (MaxRRPV - atCall[VictimOf(atCall)])
  <2> DEFINE v == VictimOf(atCall)
  <2>1. /\ v \in Ways
        /\ rrpv[v] = MaxRRPV
        /\ rrpv[v] = atCall[v] + k
        /\ rrpv[w] = atCall[w] + k
        /\ atCall[v] \in Nat /\ atCall[w] \in Nat
    BY <1>1, <1>2, <1>6 DEF RRPV
  <2> HIDE DEF v
  <2>2. rrpv[w] = atCall[w] + (MaxRRPV - atCall[v])
    BY <2>1 DEF MaxRRPV
  <2>3. QED
    BY <2>2 DEF v
<1>8. rrpv = Aged(atCall)
  BY <1>1, <1>7 DEF Aged
<1>9. QED
  BY <1>5, <1>8

\* RRIP's operators, seen through the instance, are RRPVTable's.
LEMMA SameTable ==
  /\ Promise!Ways = Ways
  /\ Promise!MaxRRPV = MaxRRPV
  /\ Promise!Classification = Classification
  /\ \A r, w, c, h : Promise!UpdateRRPV(r, w, c, h) = UpdateRRPV(r, w, c, h)
  /\ \A r : Promise!VictimOf(r) = VictimOf(r) /\ Promise!Aged(r) = Aged(r)
<1>1. /\ Promise!Ways = Ways
      /\ Promise!MaxRRPV = MaxRRPV
      /\ Promise!MaxFriendlyRRPV = MaxFriendlyRRPV
      /\ Promise!Classification = Classification
  BY DEF Promise!Ways, Ways, Promise!MaxRRPV, MaxRRPV, Promise!Classification,
         Classification, Promise!MaxFriendlyRRPV, MaxFriendlyRRPV
<1>2. \A r, w, c, h : Promise!UpdateRRPV(r, w, c, h) = UpdateRRPV(r, w, c, h)
  BY <1>1 DEF Promise!UpdateRRPV, UpdateRRPV
<1>3. \A r : Promise!Oldest(r) = Oldest(r)
  BY <1>1 DEF Promise!Oldest, Oldest
<1>4. \A r : Promise!VictimOf(r) = VictimOf(r)
  BY <1>3, Zenon DEF Promise!VictimOf, VictimOf
<1>5. \A r : Promise!Aged(r) = Aged(r)
  BY <1>1, <1>4 DEF Promise!Aged, Aged
<1>6. QED
  BY <1>1, <1>2, <1>4, <1>5

\* The loop implements find_victim as one step, for any number of ways: the
\* safety part of ImplementsRRIP.
THEOREM SearchImplementsRRIP == SearchSafe => ImplementsRRIP
<1>1. SearchInit => Promise!RRIPInit
  BY SameTable DEF SearchInit, Promise!RRIPInit, NoVictim
<1>2. SearchInv /\ [SearchNext]_searchVars => [Promise!RRIPNext]_(Promise!rripVars)
  <2> SUFFICES ASSUME SearchInv, [SearchNext]_searchVars
               PROVE  [Promise!RRIPNext]_(Promise!rripVars)
    OBVIOUS
  <2>1. ASSUME NEW way \in Ways, NEW cls \in Classification,
               NEW isHit \in BOOLEAN, Update(way, cls, isHit)
        PROVE  Promise!RRIPNext
    <3>1. Promise!Update(way, cls, isHit)
      <4>1. /\ ~searching /\ ~searching'
            /\ rrpv' = UpdateRRPV(rrpv, way, cls, isHit)
            /\ victim' = victim
        BY <2>1 DEF Update
      <4>2. (IF searching THEN atCall ELSE rrpv)' =
               Promise!UpdateRRPV(IF searching THEN atCall ELSE rrpv, way, cls, isHit)
        BY <4>1, SameTable
      <4>3. QED
        BY <4>1, <4>2 DEF Promise!Update
    <3>2. QED
      BY <3>1, SameTable DEF Promise!RRIPNext
  <2>2. CASE CallFindVictim
    BY <2>2 DEF CallFindVictim, Promise!rripVars
  <2>3. CASE ReturnVictim
    <3>1. Promise!FindVictim
      <4>1. /\ searching /\ ~searching'
            /\ Candidates # {}
            /\ victim' = (CHOOSE w \in Candidates : \A x \in Candidates : w <= x)
            /\ rrpv' = rrpv
        BY <2>3 DEF ReturnVictim
      <4>2. victim' = VictimOf(atCall) /\ rrpv = Aged(atCall)
        BY <4>1, SearchFindsVictim
      <4>3. /\ victim' = Promise!VictimOf(IF searching THEN atCall ELSE rrpv)
            /\ (IF searching THEN atCall ELSE rrpv)' =
                   Promise!Aged(IF searching THEN atCall ELSE rrpv)
        BY <4>1, <4>2, SameTable
      <4>4. QED
        BY <4>3 DEF Promise!FindVictim
    <3>2. QED
      BY <3>1 DEF Promise!RRIPNext
  <2>4. CASE AgeAll
    BY <2>4 DEF AgeAll, Promise!rripVars
  <2>5. CASE UNCHANGED searchVars
    BY <2>5 DEF searchVars, Promise!rripVars
  <2>6. QED
    BY <2>1, <2>2, <2>3, <2>4, <2>5 DEF SearchNext
<1>3. QED
  BY <1>1, <1>2, SearchInvariance, PTL DEF SearchSafe, Promise!RRIPSpec, ImplementsRRIP

-----------------------------------------------------------------------------
(* OPTgen's window. *)

\* The window holds at least one access: no pop_front on an empty deque.
LEMMA HistoryLengthPositive == HistoryLength \in Nat \ {0}
<1>1. \A m, n \in Nat \ {0} : m * n \in Nat \ {0}
  OBVIOUS
<1>2. QED
  BY <1>1, OPTgenAssumption DEF HistoryLength

\* A push_back after a pop_front keeps the length and shifts the elements.
LEMMA PushAfterPop ==
  ASSUME NEW S, NEW d \in Seq(S), NEW e \in S, Len(d) > 0
  PROVE  /\ Append(Tail(d), e) \in Seq(S)
         /\ Len(Append(Tail(d), e)) = Len(d)
         /\ Append(Tail(d), e)[Len(d)] = e
         /\ \A i \in 1 .. Len(d) - 1 : Append(Tail(d), e)[i] = d[i + 1]
<1> DEFINE t == Tail(d)
<1>1. d # << >> /\ Len(d) \in Nat
  BY LenProperties
<1>2. /\ t \in Seq(S)
      /\ Len(t) = Len(d) - 1
      /\ \A i \in 1 .. Len(d) - 1 : t[i] = d[i + 1]
  BY <1>1, HeadTailProperties
<1> HIDE DEF t
<1>3. /\ Append(t, e) \in Seq(S)
      /\ Len(Append(t, e)) = Len(t) + 1
      /\ \A i \in 1 .. Len(t) : Append(t, e)[i] = t[i]
      /\ Append(t, e)[Len(t) + 1] = e
  BY <1>2, AppendProperties
<1>4. Append(t, e) \in Seq(S) /\ Len(Append(t, e)) = Len(d)
  BY <1>1, <1>2, <1>3
<1>5. Append(t, e)[Len(d)] = e
  BY <1>1, <1>2, <1>3
<1>6. \A i \in 1 .. Len(d) - 1 : Append(t, e)[i] = d[i + 1]
  BY <1>1, <1>2, <1>3
<1>7. QED
  BY <1>4, <1>5, <1>6 DEF t

\* A fresh set satisfies the invariant.
LEMMA FreshSetInv == SetInv(FreshSet)
<1>1. FreshSet \in SetInfo
  BY DEF FreshSet, SetInfo, Absent
<1>2. /\ Len(FreshSet.occVector) = 0
      /\ Len(FreshSet.accessHistory) = 0
      /\ FreshSet.time = 0
      /\ \A a \in Addr : FreshSet.prevAccess[a] = Absent
  BY DEF FreshSet
<1>3. QED
  BY <1>1, <1>2, HistoryLengthPositive
     DEF SetInv, SetTypeOK, WindowAligned, WithinCapacity, PrevInWindow,
         LatestRecorded

\* One call of access preserves the invariant of its set.
LEMMA RecordedInv ==
  ASSUME NEW st, SetInv(st), NEW a \in Addr
  PROVE  SetInv(Recorded(st, a))
<1> DEFINE occ  == Occupied(st, a)
           n    == Len(st.occVector)
           new  == Recorded(st, a)
           k    == IF Full(st) THEN 1 ELSE 0
<1>1. /\ st.occVector \in Seq(Nat)
      /\ st.accessHistory \in Seq(Addr)
      /\ st.prevAccess \in [Addr -> Nat \cup {Absent}]
      /\ st.time \in Nat
      /\ n \in Nat
      /\ n = Len(st.accessHistory)
      /\ n <= HistoryLength
      /\ n <= st.time
      /\ Full(st) => n > 0
  BY HistoryLengthPositive, LenProperties
     DEF SetInv, SetTypeOK, SetInfo, WindowAligned, Full
<1>2. /\ occ \in Seq(Nat)
      /\ Len(occ) = n
      /\ \A i \in 1 .. n : occ[i] <= Associativity
  <2>1. \A i \in 1 .. n : st.occVector[i] \in Nat
    BY <1>1, ElementOfSeq
  <2>t. \A i \in 1 .. n : st.occVector[i] <= Associativity
    BY DEF SetInv, WithinCapacity
  <2>2. \A i \in 1 .. n : occ[i] \in Nat /\ occ[i] <= Associativity
    <3> SUFFICES ASSUME NEW i \in 1 .. n
                 PROVE  occ[i] \in Nat /\ occ[i] <= Associativity
      OBVIOUS
    <3>1. /\ st.occVector[i] \in Nat /\ st.occVector[i] <= Associativity
          /\ Associativity \in Nat
      BY <2>1, <2>t, OPTgenAssumption
    <3>2. OptHit(st, a) /\ i \in ReuseInterval(st, a) => st.occVector[i] < Associativity
      BY DEF OptHit
    <3>3. occ[i] = IF OptHit(st, a) /\ i \in ReuseInterval(st, a)
                     THEN st.occVector[i] + 1 ELSE st.occVector[i]
      BY DEF Occupied
    <3> HIDE DEF occ, n
    <3>4. QED
      BY <3>1, <3>2, <3>3
  <2>3. occ = [i \in 1 .. n |-> occ[i]]
    BY DEF Occupied
  <2> HIDE DEF occ, n
  <2>4. occ \in [1 .. n -> Nat]
    BY <2>2, <2>3
  <2>5. QED
    BY <2>2, <2>4, <1>1, FunctionIsSequence
<1>3. /\ new.occVector = Slide(st, occ, 0)
      /\ new.accessHistory = Slide(st, st.accessHistory, a)
      /\ new.prevAccess = [Forgotten(st) EXCEPT ![a] = st.time]
      /\ new.time = st.time + 1
  BY DEF Recorded
<1>k. /\ k \in {0, 1}
      /\ k <= n
      /\ (Full(st) /\ k = 1) \/ (~Full(st) /\ k = 0)
  BY <1>1
<1> HIDE DEF new, occ, k
\* What sliding a deque of the window does to its length and its elements.
<1>s. ASSUME NEW S, NEW d \in Seq(S), NEW e \in S, Len(d) = n
      PROVE  /\ Slide(st, d, e) \in Seq(S)
             /\ Len(Slide(st, d, e)) = n + 1 - k
             /\ Slide(st, d, e)[n + 1 - k] = e
             /\ \A i \in 1 .. n - k : Slide(st, d, e)[i] = d[i + k]
  <2> HIDE DEF n
  <2>1. CASE k = 1
    <3>1. Slide(st, d, e) = Append(Tail(d), e)
      BY <2>1, <1>k DEF Slide
    <3>2. Len(d) = n /\ Len(d) > 0
      BY <2>1, <1>k, <1>1, <1>s
    <3>3. /\ Append(Tail(d), e) \in Seq(S)
          /\ Len(Append(Tail(d), e)) = n
          /\ Append(Tail(d), e)[n] = e
          /\ \A i \in 1 .. n - 1 : Append(Tail(d), e)[i] = d[i + 1]
      BY <3>2, PushAfterPop
    <3>4. n + 1 - k = n /\ n - k = n - 1
      BY <2>1, <1>1
    <3>5. QED
      BY <2>1, <3>1, <3>3, <3>4
  <2>2. CASE k = 0
    <3>1. Slide(st, d, e) = Append(d, e)
      BY <2>2, <1>k DEF Slide
    <3>2. QED
      BY <2>2, <3>1, <1>s, <1>1, AppendProperties
  <2>3. QED
    BY <2>1, <2>2, <1>k
<1>4. /\ new.occVector \in Seq(Nat)
      /\ Len(new.occVector) = n + 1 - k
      /\ new.occVector[n + 1 - k] = 0
      /\ \A i \in 1 .. n - k : new.occVector[i] = occ[i + k]
  <2> HIDE DEF n
  <2>1. QED
    BY <1>2, <1>3, <1>s
<1>5. /\ new.accessHistory \in Seq(Addr)
      /\ Len(new.accessHistory) = n + 1 - k
      /\ new.accessHistory[n + 1 - k] = a
      /\ \A i \in 1 .. n - k : new.accessHistory[i] = st.accessHistory[i + k]
  <2> HIDE DEF n
  <2>1. QED
    BY <1>1, <1>3, <1>s
<1>6. Forgotten(st) \in [Addr -> Nat \cup {Absent}]
  <2>1. Full(st) => Head(st.accessHistory) \in Addr
    BY <1>1
  <2>2. QED
    BY <2>1, <1>1 DEF Forgotten
<1>7. new \in SetInfo
  BY <1>1, <1>3, <1>4, <1>5, <1>6 DEF SetInfo, Recorded, new
<1>8. WindowAligned(new)
  <2>1. n = st.time \/ (n = HistoryLength /\ HistoryLength <= st.time)
    BY DEF SetInv, WindowAligned, Full
  <2>2. (n = HistoryLength /\ k = 1) \/ (n # HistoryLength /\ k = 0)
    BY <1>k DEF Full
  <2>3. /\ Len(new.occVector) <= HistoryLength
        /\ \/ Len(new.occVector) = st.time + 1
           \/ Len(new.occVector) = HistoryLength /\ HistoryLength <= st.time + 1
    <3> HIDE DEF n
    <3>1. QED
      BY <2>1, <2>2, <1>1, <1>4, HistoryLengthPositive
  <2>4. QED
    BY <2>3, <1>3, <1>4, <1>5 DEF WindowAligned, Full
<1>9. WithinCapacity(new)
  <2> SUFFICES ASSUME NEW i \in 1 .. n + 1 - k
               PROVE  new.occVector[i] <= Associativity
    BY <1>4 DEF WithinCapacity
  <2>1. CASE i = n + 1 - k
    BY <2>1, <1>4, OPTgenAssumption
  <2>2. CASE i # n + 1 - k
    <3>1. i \in 1 .. n - k /\ i + k \in 1 .. n
      <4> HIDE DEF n
      <4>1. QED
        BY <2>2, <1>1, <1>k
    <3>2. QED
      BY <3>1, <1>2, <1>4
  <2>3. QED
    BY <2>1, <2>2
<1>10. StartQueue(new) = StartQueue(st) + k
  <2>1. StartQueue(new) = (st.time + 1) - (n + 1 - k) /\ StartQueue(st) = st.time - n
    BY <1>3, <1>4 DEF StartQueue
  <2> HIDE DEF n
  <2>2. QED
    BY <2>1, <1>1, <1>k
<1>11. PrevInWindow(new)
  <2> SUFFICES ASSUME NEW b \in Addr, new.prevAccess[b] # Absent
               PROVE  /\ new.prevAccess[b] >= StartQueue(new)
                      /\ new.prevAccess[b] < new.time
                      /\ new.accessHistory[new.prevAccess[b] - StartQueue(new) + 1] = b
    BY DEF PrevInWindow
  <2>1. CASE b = a
    <3>1. new.prevAccess[b] = st.time
      BY <2>1, <1>3, <1>6
    <3>2. /\ StartQueue(new) = st.time - n + k
          /\ st.time - StartQueue(new) + 1 = n + 1 - k
      BY <1>1, <1>k, <1>10 DEF StartQueue
    <3> HIDE DEF n
    <3>3. /\ st.time >= StartQueue(new) /\ st.time < new.time
          /\ n + 1 - k \in Nat
      BY <3>2, <1>1, <1>k, <1>3
    <3>4. new.accessHistory[st.time - StartQueue(new) + 1] = a
      BY <3>2, <1>5
    <3>5. QED
      BY <2>1, <3>1, <3>3, <3>4
  <2>2. CASE b # a
    <3>1. new.prevAccess[b] = Forgotten(st)[b]
      BY <2>2, <1>3, <1>6
    <3>2. new.prevAccess[b] = st.prevAccess[b] /\ st.prevAccess[b] # Absent
      BY <3>1, <1>1, <1>6 DEF Forgotten
    <3>3. /\ st.prevAccess[b] \in Nat
          /\ st.prevAccess[b] >= StartQueue(st)
          /\ st.prevAccess[b] < st.time
          /\ st.accessHistory[st.prevAccess[b] - StartQueue(st) + 1] = b
      BY <3>2, <1>1 DEF SetInv, PrevInWindow
    <3>4. StartQueue(st) = st.time - n /\ StartQueue(st) \in Nat
      BY <1>1 DEF StartQueue
    <3>5. st.prevAccess[b] >= StartQueue(st) + k
      <4>1. CASE Full(st) /\ st.prevAccess[b] = StartQueue(st)
        <5>1. b = Head(st.accessHistory)
          <6>1. b = st.accessHistory[1]
            BY <4>1, <3>3, <3>4
          <6>2. QED
            BY <6>1
        <5>2. Forgotten(st)[b] = Absent
          BY <4>1, <5>1, <1>1 DEF Forgotten
        <5>3. QED
          BY <5>2, <3>1, <3>2
      <4>2. CASE ~(Full(st) /\ st.prevAccess[b] = StartQueue(st))
        BY <4>2, <3>3, <3>4, <1>k
      <4>3. QED
        BY <4>1, <4>2
    <3>6. st.prevAccess[b] - StartQueue(new) + 1 \in 1 .. n - k
      <4> DEFINE p == st.prevAccess[b]
                 s == StartQueue(st)
      <4>1. /\ n \in Nat /\ k \in {0, 1} /\ st.time \in Nat
            /\ p \in Nat /\ s \in Nat /\ p < st.time /\ p >= s + k
            /\ s = st.time - n /\ StartQueue(new) = s + k
        BY <3>3, <3>4, <3>5, <1>1, <1>k, <1>10
      <4> HIDE DEF n, p, s
      <4>2. p - (s + k) + 1 \in 1 .. n - k
        BY <4>1
      <4>3. QED
        BY <4>1, <4>2 DEF p
    <3>7. new.accessHistory[st.prevAccess[b] - StartQueue(new) + 1] = b
      <4> DEFINE i == st.prevAccess[b] - StartQueue(new) + 1
      <4>1. new.accessHistory[i] = st.accessHistory[i + k]
        BY <3>6, <1>5
      <4>2. i + k = st.prevAccess[b] - StartQueue(st) + 1
        BY <3>3, <3>4, <1>k, <1>10
      <4>3. QED
        BY <4>1, <4>2, <3>3
    <3>8. QED
      BY <3>2, <3>3, <3>4, <3>5, <3>7, <1>1, <1>k, <1>3, <1>10
  <2>3. QED
    BY <2>1, <2>2
<1>12. LatestRecorded(new)
  <2> SUFFICES ASSUME NEW i \in 1 .. n + 1 - k
               PROVE  /\ new.prevAccess[new.accessHistory[i]] # Absent
                      /\ new.prevAccess[new.accessHistory[i]] >= StartQueue(new) + i - 1
    BY <1>5 DEF LatestRecorded
  <2> DEFINE b == new.accessHistory[i]
  <2>1. b \in Addr
    BY <1>1, <1>5, ElementOfSeq
  <2>2. StartQueue(st) = st.time - n /\ StartQueue(st) \in Nat
    BY <1>1 DEF StartQueue
  <2>3. CASE b = a
    <3>1. new.prevAccess[b] = st.time
      BY <2>3, <1>3, <1>6
    <3> HIDE DEF n
    <3>2. st.time >= StartQueue(new) + i - 1
      BY <2>2, <1>1, <1>k, <1>10
    <3>3. st.time # Absent
      BY <1>1 DEF Absent
    <3> HIDE DEF b
    <3>4. QED
      BY <3>1, <3>2, <3>3 DEF b
  <2>4. CASE b # a
    <3>1. i \in 1 .. n - k
      BY <2>4, <1>1, <1>k, <1>5
    <3>2. b = st.accessHistory[i + k] /\ i + k \in 1 .. Len(st.accessHistory)
      BY <3>1, <1>1, <1>k, <1>5
    <3>3. /\ st.prevAccess[b] # Absent
          /\ st.prevAccess[b] \in Nat
          /\ st.prevAccess[b] >= StartQueue(st) + (i + k) - 1
      BY <3>2, <2>1, <1>1 DEF SetInv, LatestRecorded, Absent
    <3>4. Forgotten(st)[b] = st.prevAccess[b]
      <4>1. CASE Full(st) /\ b = Head(st.accessHistory)
        <5>1. st.prevAccess[b] # StartQueue(st)
          BY <4>1, <3>1, <3>3, <2>2, <1>1, <1>k
        <5>2. QED
          BY <4>1, <5>1 DEF Forgotten
      <4>2. CASE ~(Full(st) /\ b = Head(st.accessHistory))
        BY <4>2, <2>1, <1>1 DEF Forgotten
      <4>3. QED
        BY <4>1, <4>2
    <3>5. new.prevAccess[b] = st.prevAccess[b]
      BY <2>1, <2>4, <3>4, <1>3, <1>6
    <3>6. QED
      BY <3>1, <3>3, <3>5, <2>2, <1>1, <1>k, <1>10
  <2>5. QED
    BY <2>3, <2>4
<1>13. QED
  BY <1>7, <1>8, <1>9, <1>11, <1>12 DEF SetInv, SetTypeOK, new

\* The inductive invariant: WindowInv needs the type of the function of sets, and
\* implies the type of each set.
OPTgenInv == OPTgenTypeOK /\ WindowInv

\* Every step of OPTgen, or of a system that uses it, keeps the invariant.
LEMMA OPTgenStep == OPTgenInv /\ [OPTgenNext]_optgenVars => OPTgenInv'
<1> SUFFICES ASSUME OPTgenInv, [OPTgenNext]_optgenVars
             PROVE  OPTgenInv'
  OBVIOUS
<1>1. ASSUME NEW s \in Sets, NEW a \in Addr, Access(s, a)
      PROVE  OPTgenInv'
  <2>1. totalSets' = [totalSets EXCEPT ![s] = Recorded(totalSets[s], a)]
    BY <1>1 DEF Access
  <2>2. SetInv(Recorded(totalSets[s], a))
    BY <1>1, RecordedInv DEF OPTgenInv, WindowInv
  <2>3. Recorded(totalSets[s], a) \in SetInfo
    BY <2>2 DEF SetInv, SetTypeOK
  <2>4. OPTgenTypeOK'
    BY <2>1, <2>3 DEF OPTgenInv, OPTgenTypeOK
  <2>5. WindowInv'
    BY <2>1, <2>2 DEF OPTgenInv, OPTgenTypeOK, WindowInv
  <2>6. QED
    BY <2>4, <2>5 DEF OPTgenInv
<1>2. CASE UNCHANGED optgenVars
  BY <1>2 DEF optgenVars, OPTgenInv, OPTgenTypeOK, WindowInv
<1>3. QED
  BY <1>1, <1>2 DEF OPTgenNext

\* The invariant holds before any access.
LEMMA OPTgenStart == OPTgenInit => OPTgenInv
BY FreshSetInv DEF OPTgenInit, OPTgenInv, OPTgenTypeOK, WindowInv, SetInv, SetTypeOK

\* Type and window consistency hold together in every reachable state.
LEMMA OPTgenInvariance == OPTgenSpec => []OPTgenInv
BY OPTgenStart, OPTgenStep, PTL DEF OPTgenSpec

\* OPTgen's variables keep their types.
THEOREM OPTgenTypeCorrect == OPTgenSpec => []OPTgenTypeOK
<1>1. OPTgenInv => OPTgenTypeOK
  BY DEF OPTgenInv
<1>2. QED
  BY <1>1, OPTgenInvariance, PTL

\* OPTgen's window stays consistent whatever lines the sets are asked for: every
\* map entry points at a slot of the window holding its line, every line of the
\* window is mapped, and no slot exceeds the associativity (optgen.cc:18-86).
THEOREM WindowConsistent == OPTgenSpec => []WindowInv
<1>1. OPTgenInv => WindowInv
  BY DEF OPTgenInv
<1>2. QED
  BY <1>1, OPTgenInvariance, PTL

-----------------------------------------------------------------------------
(* hawkeye's copy of it. *)

\* The two windows have the same length because 8 * numWays is what OPTgen
\* computes from the same numWays.
LEMMA SameLength == PcHistoryLength = HistoryLength
<1>1. \A m, n \in Nat : m * n = n * m
  OBVIOUS
<1>2. QED
  BY <1>1, HawkeyeAssumption, OPTgenAssumption DEF PcHistoryLength, HistoryLength

\* Fresh windows are copies of each other.
LEMMA FreshMirrors == FreshHistory \in PcHistorySet /\ Mirrors(FreshHistory, FreshSet)
<1>1. FreshHistory \in PcHistorySet
  BY DEF FreshHistory, PcHistorySet
<1>2. /\ FreshHistory.time = 0
      /\ Len(FreshHistory.history) = 0
      /\ \A a \in Addr : FreshHistory.last[a].timestamp = Absent
      /\ FreshSet.time = 0
      /\ Len(FreshSet.accessHistory) = 0
      /\ \A a \in Addr : FreshSet.prevAccess[a] = Absent
  BY DEF FreshHistory, FreshSet, NoRecord
<1>3. QED
  BY <1>1, <1>2 DEF Mirrors

\* Recording the same access keeps a pcHistory set and an OPTgen set copies of
\* each other.
LEMMA RecordedMirrors ==
  ASSUME NEW h \in PcHistorySet, NEW st, SetInv(st), Mirrors(h, st),
         NEW a \in Addr, NEW pc \in PC
  PROVE  /\ PcRecorded(h, a, pc) \in PcHistorySet
         /\ Mirrors(PcRecorded(h, a, pc), Recorded(st, a))
<1> DEFINE n  == Len(st.accessHistory)
           e  == [blockAddr |-> a, timestamp |-> h.time]
           E  == [blockAddr : Addr, timestamp : Nat]
           hh == PcRecorded(h, a, pc)
           ss == Recorded(st, a)
<1>1. /\ st.accessHistory \in Seq(Addr)
      /\ st.prevAccess \in [Addr -> Nat \cup {Absent}]
      /\ st.time \in Nat
      /\ n \in Nat
      /\ Len(st.occVector) = n
      /\ n <= st.time
      /\ StartQueue(st) = st.time - n
      /\ StartQueue(st) \in Nat
      /\ Full(st) => n > 0
  BY HistoryLengthPositive, LenProperties
     DEF SetInv, SetTypeOK, SetInfo, WindowAligned, Full, StartQueue
<1>2. /\ h.history \in Seq(E)
      /\ h.last \in [Addr -> PcRecord \cup {NoRecord}]
      /\ h.time = st.time
      /\ Len(h.history) = n
      /\ \A i \in 1 .. n : /\ h.history[i].blockAddr = st.accessHistory[i]
                           /\ h.history[i].timestamp = StartQueue(st) + i - 1
      /\ \A x \in Addr : h.last[x].timestamp = st.prevAccess[x]
  BY DEF PcHistorySet, Mirrors
<1>3. (HistoryFull(h) /\ Full(st)) \/ (~HistoryFull(h) /\ ~Full(st))
  BY <1>1, <1>2, SameLength DEF HistoryFull, Full
<1>4. e \in E
  BY <1>1, <1>2
<1>5. /\ hh.history = Append(IF HistoryFull(h) THEN Tail(h.history) ELSE h.history, e)
      /\ hh.last = [LastOf(h) EXCEPT ![a] = [timestamp |-> h.time, pc |-> pc]]
      /\ hh.time = h.time + 1
      /\ hh = [history |-> hh.history, last |-> hh.last, time |-> hh.time]
  BY DEF PcRecorded
<1>6. /\ ss.accessHistory = Slide(st, st.accessHistory, a)
      /\ ss.prevAccess = [Forgotten(st) EXCEPT ![a] = st.time]
      /\ ss.time = st.time + 1
      /\ SetInv(ss)
  BY RecordedInv DEF Recorded
<1>7. Len(ss.occVector) = Len(ss.accessHistory)
  BY <1>6 DEF SetInv, WindowAligned
<1> HIDE DEF hh, ss, E
\* Both forget the same line, or none.
<1>8. /\ LastOf(h) \in [Addr -> PcRecord \cup {NoRecord}]
      /\ \A x \in Addr : LastOf(h)[x].timestamp = Forgotten(st)[x]
  <2>1. CASE Full(st)
    <3>1. /\ Head(h.history) = h.history[1]
          /\ Head(st.accessHistory) = st.accessHistory[1]
          /\ h.history # << >>
          /\ st.accessHistory # << >>
          /\ 1 \in 1 .. n
      BY <2>1, <1>1, <1>2
    <3>2. /\ Head(h.history).blockAddr = Head(st.accessHistory)
          /\ Head(h.history).timestamp = StartQueue(st)
          /\ Head(st.accessHistory) \in Addr
      BY <3>1, <1>1, <1>2
    <3> DEFINE old == Head(st.accessHistory)
    <3>3. LastOf(h) = IF st.prevAccess[old] = StartQueue(st)
                        THEN [h.last EXCEPT ![old] = NoRecord] ELSE h.last
      BY <2>1, <3>2, <1>2, <1>3 DEF LastOf
    <3>4. Forgotten(st) = IF st.prevAccess[old] = StartQueue(st)
                            THEN [st.prevAccess EXCEPT ![old] = Absent]
                            ELSE st.prevAccess
      BY <2>1 DEF Forgotten
    <3>5. NoRecord.timestamp = Absent
      BY DEF NoRecord
    <3> HIDE DEF old
    <3>6. old \in Addr
      BY <3>2 DEF old
    <3>7. QED
      BY <3>3, <3>4, <3>5, <3>6, <1>1, <1>2
  <2>2. CASE ~Full(st)
    BY <2>2, <1>1, <1>2, <1>3 DEF LastOf, Forgotten
  <2>3. QED
    BY <2>1, <2>2
<1>9. hh.last \in [Addr -> PcRecord \cup {NoRecord}]
  <2>1. [timestamp |-> h.time, pc |-> pc] \in PcRecord
    BY <1>1, <1>2 DEF PcRecord
  <2>2. QED
    BY <2>1, <1>5, <1>8
<1>10. \A x \in Addr : hh.last[x].timestamp = ss.prevAccess[x]
  <2>1. Forgotten(st) \in [Addr -> Nat \cup {Absent}]
    <3>1. Full(st) => Head(st.accessHistory) \in Addr
      BY <1>1
    <3>2. QED
      BY <3>1, <1>1 DEF Forgotten
  <2>2. hh.last[a].timestamp = h.time /\ ss.prevAccess[a] = st.time
    BY <2>1, <1>5, <1>6, <1>8
  <2>3. \A x \in Addr \ {a} : /\ hh.last[x] = LastOf(h)[x]
                              /\ ss.prevAccess[x] = Forgotten(st)[x]
    BY <2>1, <1>5, <1>6, <1>8
  <2>4. QED
    BY <2>2, <2>3, <1>2, <1>8
\* Both windows slide, or both grow.
<1>11. /\ hh.history \in Seq(E)
       /\ Len(hh.history) = Len(ss.accessHistory)
       /\ \A i \in 1 .. Len(hh.history) :
             /\ hh.history[i].blockAddr = ss.accessHistory[i]
             /\ hh.history[i].timestamp = StartQueue(ss) + i - 1
  <2> DEFINE m == Len(ss.accessHistory)
  <2>s. StartQueue(ss) = st.time + 1 - m
    <3>1. ss.time = st.time + 1 /\ Len(ss.occVector) = m
      BY <1>6, <1>7
    <3>2. StartQueue(ss) = ss.time - Len(ss.occVector)
      BY DEF StartQueue
    <3>3. st.time \in Nat /\ m \in Nat
      <4>1. ss.accessHistory \in Seq(Addr)
        BY <1>6 DEF SetInv, SetTypeOK, SetInfo
      <4>2. QED
        BY <4>1, <1>1, LenProperties
    <3> HIDE DEF m
    <3>4. QED
      BY <3>1, <3>2, <3>3
  <2>1. CASE Full(st)
    <3>1. /\ hh.history = Append(Tail(h.history), e)
          /\ ss.accessHistory = Append(Tail(st.accessHistory), a)
      BY <2>1, <1>3, <1>5, <1>6 DEF Slide
    <3> HIDE DEF e
    <3>2. /\ hh.history \in Seq(E)
          /\ Len(hh.history) = n
          /\ hh.history[n] = e
          /\ \A i \in 1 .. n - 1 : hh.history[i] = h.history[i + 1]
      BY <2>1, <3>1, <1>1, <1>2, <1>4, PushAfterPop
    <3>3. /\ Len(ss.accessHistory) = n
          /\ ss.accessHistory[n] = a
          /\ \A i \in 1 .. n - 1 : ss.accessHistory[i] = st.accessHistory[i + 1]
      BY <2>1, <3>1, <1>1, PushAfterPop
    <3>4. ASSUME NEW i \in 1 .. n
          PROVE  /\ hh.history[i].blockAddr = ss.accessHistory[i]
                 /\ hh.history[i].timestamp = st.time + 1 - n + i - 1
      <4>1. CASE i = n
        <5>1. hh.history[i] = e /\ ss.accessHistory[i] = a
          BY <4>1, <3>2, <3>3
        <5>2. QED
          BY <4>1, <5>1, <1>1, <1>2 DEF e
      <4>2. CASE i # n
        <5>1. /\ i \in 1 .. n - 1
              /\ i + 1 \in 1 .. n
          BY <4>2, <1>1
        <5>2. /\ hh.history[i] = h.history[i + 1]
              /\ ss.accessHistory[i] = st.accessHistory[i + 1]
          BY <5>1, <3>2, <3>3
        <5>3. /\ h.history[i + 1].blockAddr = st.accessHistory[i + 1]
              /\ h.history[i + 1].timestamp = StartQueue(st) + (i + 1) - 1
          BY <5>1, <1>2
        <5>4. StartQueue(st) + (i + 1) - 1 = st.time + 1 - n + i - 1
          <6> HIDE DEF n
          <6>1. QED
            BY <1>1
        <5>5. QED
          BY <5>2, <5>3, <5>4
      <4>3. QED
        BY <4>1, <4>2
    <3>5. QED
      BY <2>s, <3>2, <3>3, <3>4
  <2>2. CASE ~Full(st)
    <3>1. hh.history = Append(h.history, e) /\ ss.accessHistory = Append(st.accessHistory, a)
      BY <2>2, <1>3, <1>5, <1>6 DEF Slide
    <3> HIDE DEF e
    <3>2. /\ hh.history \in Seq(E)
          /\ Len(hh.history) = n + 1
          /\ hh.history[n + 1] = e
          /\ \A i \in 1 .. n : hh.history[i] = h.history[i]
      BY <3>1, <1>2, <1>4, AppendProperties
    <3>3. /\ Len(ss.accessHistory) = n + 1
          /\ ss.accessHistory[n + 1] = a
          /\ \A i \in 1 .. n : ss.accessHistory[i] = st.accessHistory[i]
      BY <3>1, <1>1, AppendProperties
    <3>4. ASSUME NEW i \in 1 .. n + 1
          PROVE  /\ hh.history[i].blockAddr = ss.accessHistory[i]
                 /\ hh.history[i].timestamp = st.time + 1 - (n + 1) + i - 1
      <4>1. CASE i = n + 1
        <5>1. hh.history[i] = e /\ ss.accessHistory[i] = a
          BY <4>1, <3>2, <3>3
        <5>2. QED
          BY <4>1, <5>1, <1>1, <1>2 DEF e
      <4>2. CASE i # n + 1
        <5>1. i \in 1 .. n
          BY <4>2, <1>1
        <5>2. /\ hh.history[i] = h.history[i]
              /\ ss.accessHistory[i] = st.accessHistory[i]
          BY <5>1, <3>2, <3>3
        <5>3. /\ h.history[i].blockAddr = st.accessHistory[i]
              /\ h.history[i].timestamp = StartQueue(st) + i - 1
          BY <5>1, <1>2
        <5>4. StartQueue(st) + i - 1 = st.time + 1 - (n + 1) + i - 1
          BY <1>1
        <5>5. QED
          BY <5>2, <5>3, <5>4
      <4>3. QED
        BY <4>1, <4>2
    <3>5. QED
      BY <2>s, <3>2, <3>3, <3>4
  <2>3. QED
    BY <2>1, <2>2
<1>12. hh \in PcHistorySet
  <2>1. hh.time \in Nat
    BY <1>1, <1>2, <1>5
  <2>2. hh.history \in Seq([blockAddr : Addr, timestamp : Nat])
    BY <1>11 DEF E
  <2>3. hh = [history |-> hh.history, last |-> hh.last, time |-> hh.time]
    BY <1>5
  <2>4. QED
    BY <2>1, <2>2, <2>3, <1>9, Zenon DEF PcHistorySet
<1>13. QED
  BY <1>2, <1>5, <1>6, <1>10, <1>11, <1>12 DEF Mirrors, hh, ss

\* Training keeps every counter in 0 .. MaxCounter.
LEMMA TrainType ==
  ASSUME NEW ctr \in [Entries -> 0 .. MaxCounter], NEW pc \in PC, NEW optHit
  PROVE  Train(ctr, pc, optHit) \in [Entries -> 0 .. MaxCounter]
<1>1. PcIndex[pc] \in Entries
  BY HawkeyeAssumption
<1>2. ctr[PcIndex[pc]] \in 0 .. MaxCounter
  BY <1>1
<1>3. \A c \in 0 .. MaxCounter :
        (IF optHit THEN (IF c < MaxCounter THEN c + 1 ELSE c)
                   ELSE (IF c > 0 THEN c - 1 ELSE c)) \in 0 .. MaxCounter
  BY DEF MaxCounter
<1>4. QED
  BY <1>1, <1>2, <1>3 DEF Train

-----------------------------------------------------------------------------
\* The inductive invariant: the copy can only follow OPTgen's window while that
\* window is consistent.
HawkeyeInv == OPTgenInv /\ HawkeyeTypeOK /\ MirrorCoherent

\* What every hook that records an access shares.
LEMMA LearnInv ==
  ASSUME HawkeyeInv, NEW s \in Sets, NEW a \in Addr, NEW pc \in PC, Learn(s, a, pc)
  PROVE  /\ OPTgenInv'
         /\ MirrorCoherent'
         /\ pcHistory' \in [Sets -> PcHistorySet]
         /\ ctrTable' \in [Entries -> 0 .. MaxCounter]
<1>1. /\ pcHistory \in [Sets -> PcHistorySet]
      /\ ctrTable \in [Entries -> 0 .. MaxCounter]
      /\ totalSets \in [Sets -> SetInfo]
      /\ \A x \in Sets : SetInv(totalSets[x]) /\ Mirrors(pcHistory[x], totalSets[x])
  BY DEF HawkeyeInv, HawkeyeTypeOK, OPTgenTypeOK, OPTgenInv, WindowInv, MirrorCoherent
<1>2. /\ totalSets' = [totalSets EXCEPT ![s] = Recorded(totalSets[s], a)]
      /\ pcHistory' = [pcHistory EXCEPT ![s] = PcRecorded(pcHistory[s], a, pc)]
  BY DEF Learn, Access
<1>3. OPTgenInv'
  <2>1. OPTgenNext
    BY DEF Learn, OPTgenNext
  <2>2. QED
    BY <2>1, OPTgenStep DEF HawkeyeInv
<1>4. /\ PcRecorded(pcHistory[s], a, pc) \in PcHistorySet
      /\ Mirrors(PcRecorded(pcHistory[s], a, pc), Recorded(totalSets[s], a))
  <2>1. pcHistory[s] \in PcHistorySet
    BY <1>1
  <2>2. QED
    BY <2>1, <1>1, RecordedMirrors
<1>5. MirrorCoherent'
  <2> SUFFICES ASSUME NEW x \in Sets PROVE Mirrors(pcHistory'[x], totalSets'[x])
    BY DEF MirrorCoherent
  <2>1. CASE x = s
    <3>1. /\ pcHistory'[x] = PcRecorded(pcHistory[s], a, pc)
          /\ totalSets'[x] = Recorded(totalSets[s], a)
      BY <2>1, <1>1, <1>2
    <3>2. QED
      BY <3>1, <1>4
  <2>2. CASE x # s
    <3>1. pcHistory'[x] = pcHistory[x] /\ totalSets'[x] = totalSets[x]
      BY <2>2, <1>1, <1>2
    <3>2. QED
      BY <3>1, <1>1
  <2>3. QED
    BY <2>1, <2>2
<1>6. pcHistory' \in [Sets -> PcHistorySet]
  BY <1>1, <1>2, <1>4
<1>7. ctrTable' \in [Entries -> 0 .. MaxCounter]
  <2> DEFINE prev == PrevPc(pcHistory[s], a)
  <2>1. prev \in PC \/ prev = NoPC
    <3>1. pcHistory[s].last[a] \in PcRecord \cup {NoRecord}
      BY <1>1 DEF PcHistorySet
    <3>2. QED
      BY <3>1 DEF PcRecord, NoRecord, PrevPc
  <2>2. CASE prev = NoPC
    BY <2>2, <1>1 DEF Learn
  <2>3. CASE prev # NoPC
    <3>1. ctrTable' = Train(ctrTable, prev, OptHit(totalSets[s], a))
      BY <2>3 DEF Learn
    <3>2. QED
      BY <2>1, <2>3, <3>1, <1>1, TrainType
  <2>4. QED
    BY <2>2, <2>3
<1>8. QED
  BY <1>3, <1>5, <1>6, <1>7

\* What every fill shares: the way gets the line and the set new values.
LEMMA CacheFillInv ==
  ASSUME HawkeyeInv, NEW s \in Sets, NEW w \in Ways, NEW a \in Addr, NEW pc \in PC,
         NEW rrpvs \in [Ways -> RRPV], CacheFill(s, w, a, pc, rrpvs)
  PROVE  HawkeyeInv'
<1>1. UpdateRRPV(rrpvs, w, ClassOf(ctrTable, pc), FALSE) \in [Ways -> RRPV]
  BY UpdateType
<1>2. /\ rrpvTable' = [rrpvTable EXCEPT ![s] =
                          UpdateRRPV(rrpvs, w, ClassOf(ctrTable, pc), FALSE)]
      /\ block' = [block EXCEPT ![s][w] = a]
      /\ UNCHANGED <<totalSets, pcHistory, ctrTable>>
  BY DEF CacheFill
<1>3. rrpvTable' \in [Sets -> [Ways -> RRPV]]
  BY <1>1, <1>2 DEF HawkeyeInv, HawkeyeTypeOK
<1>4. block' \in [Sets -> [Ways -> Addr \cup {NoLine}]]
  BY <1>2 DEF HawkeyeInv, HawkeyeTypeOK
<1>5. OPTgenInv' /\ MirrorCoherent'
  BY <1>2 DEF HawkeyeInv, OPTgenInv, OPTgenTypeOK, WindowInv, MirrorCoherent
<1>6. QED
  BY <1>2, <1>3, <1>4, <1>5 DEF HawkeyeInv, HawkeyeTypeOK, OPTgenTypeOK

\* Every step of hawkeye keeps the invariant.
LEMMA HawkeyeStep == HawkeyeInv /\ [HawkeyeNext]_hawkeyeVars => HawkeyeInv'
<1> SUFFICES ASSUME HawkeyeInv, [HawkeyeNext]_hawkeyeVars PROVE HawkeyeInv'
  OBVIOUS
<1>t. /\ rrpvTable \in [Sets -> [Ways -> RRPV]]
      /\ block \in [Sets -> [Ways -> Addr \cup {NoLine}]]
  BY DEF HawkeyeInv, HawkeyeTypeOK
<1>1. ASSUME NEW s \in Sets, NEW a \in Addr, NEW pc \in PC, NEW w \in Ways,
             UpdateOnHit(s, w, a, pc)
      PROVE  HawkeyeInv'
  <2>1. Learn(s, a, pc) /\ block' = block
    BY <1>1 DEF UpdateOnHit
  <2>2. UpdateRRPV(rrpvTable[s], w, ClassOf(ctrTable', pc), TRUE) \in [Ways -> RRPV]
    BY <1>t, UpdateType
  <2>3. rrpvTable' \in [Sets -> [Ways -> RRPV]]
    BY <1>1, <1>t, <2>2 DEF UpdateOnHit
  <2>4. QED
    BY <1>t, <2>1, <2>3, LearnInv DEF HawkeyeInv, HawkeyeTypeOK, OPTgenInv
<1>2. ASSUME NEW s \in Sets, NEW a \in Addr, NEW pc \in PC, UpdateOnMiss(s, a, pc)
      PROVE  HawkeyeInv'
  <2>1. Learn(s, a, pc) /\ block' = block /\ rrpvTable' = rrpvTable
    BY <1>2 DEF UpdateOnMiss
  <2>2. QED
    BY <1>t, <2>1, LearnInv DEF HawkeyeInv, HawkeyeTypeOK, OPTgenInv
<1>3. ASSUME NEW s \in Sets, NEW a \in Addr, NEW pc \in PC, NEW w \in Ways,
             FillInvalidWay(s, w, a, pc)
      PROVE  HawkeyeInv'
  <2>1. CacheFill(s, w, a, pc, rrpvTable[s]) /\ rrpvTable[s] \in [Ways -> RRPV]
    BY <1>3, <1>t DEF FillInvalidWay
  <2>2. QED
    BY <2>1, CacheFillInv
<1>4. ASSUME NEW s \in Sets, NEW a \in Addr, NEW pc \in PC, FillVictim(s, a, pc)
      PROVE  HawkeyeInv'
  <2>1. CacheFill(s, VictimOf(rrpvTable[s]), a, pc, Aged(rrpvTable[s]))
    BY <1>4 DEF FillVictim
  <2>2. Aged(rrpvTable[s]) \in [Ways -> RRPV] /\ VictimOf(rrpvTable[s]) \in Ways
    BY <1>t, AgedType
  <2>3. QED
    BY <2>1, <2>2, CacheFillInv
<1>5. ASSUME NEW s \in Sets, RefusedFill(s) PROVE HawkeyeInv'
  <2>1. /\ rrpvTable' = [rrpvTable EXCEPT ![s] = Aged(rrpvTable[s])]
        /\ UNCHANGED <<totalSets, pcHistory, ctrTable, block>>
    BY <1>5 DEF RefusedFill
  <2>2. Aged(rrpvTable[s]) \in [Ways -> RRPV]
    BY <1>t, AgedType
  <2>3. rrpvTable' \in [Sets -> [Ways -> RRPV]]
    BY <1>t, <2>1, <2>2
  <2>4. QED
    BY <2>1, <2>3 DEF HawkeyeInv, HawkeyeTypeOK, OPTgenInv, OPTgenTypeOK, WindowInv,
                      MirrorCoherent
<1>6. CASE UNCHANGED hawkeyeVars
  BY <1>6 DEF hawkeyeVars, HawkeyeInv, HawkeyeTypeOK, OPTgenInv, OPTgenTypeOK,
              WindowInv, MirrorCoherent
<1>7. QED
  BY <1>1, <1>2, <1>3, <1>4, <1>5, <1>6 DEF HawkeyeNext

\* The invariant holds when the simulation starts.
LEMMA HawkeyeStart == HawkeyeInit => HawkeyeInv
<1> SUFFICES ASSUME HawkeyeInit PROVE HawkeyeInv
  OBVIOUS
<1>1. OPTgenInv
  BY OPTgenStart DEF HawkeyeInit
<1>2. pcHistory \in [Sets -> PcHistorySet] /\ MirrorCoherent
  BY FreshMirrors DEF HawkeyeInit, OPTgenInit, MirrorCoherent
<1>3. /\ ctrTable \in [Entries -> 0 .. MaxCounter]
      /\ rrpvTable \in [Sets -> [Ways -> RRPV]]
      /\ block \in [Sets -> [Ways -> Addr \cup {NoLine}]]
  BY DEF HawkeyeInit, MaxCounter, Threshold, RRPV, MaxRRPV
<1>4. QED
  BY <1>1, <1>2, <1>3 DEF HawkeyeInv, HawkeyeTypeOK, OPTgenInv

\* Counters and RRPVs stay in range for any interleaving of the hooks.
THEOREM HawkeyeTypeCorrect == HawkeyeSpec => []HawkeyeTypeOK
<1>1. HawkeyeInv => HawkeyeTypeOK
  BY DEF HawkeyeInv
<1>2. QED
  BY <1>1, HawkeyeStart, HawkeyeStep, PTL DEF HawkeyeSpec

\* hawkeye's pcHistory and OPTgen's window never drift apart, so every label
\* OPTgen produces meets the PC that made the access the label is about.
THEOREM MirrorsNeverDrift == HawkeyeSpec => []MirrorCoherent
<1>1. HawkeyeInv => MirrorCoherent
  BY DEF HawkeyeInv
<1>2. QED
  BY <1>1, HawkeyeStart, HawkeyeStep, PTL DEF HawkeyeSpec
=============================================================================

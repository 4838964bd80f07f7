--------------------------------- MODULE SPP --------------------------------
(***************************************************************************)
(* The signature path prefetcher (src/prefetcher/spp_dev/): signature      *)
(* table, pattern table, prefetch filter and global register.  An access   *)
(* is learnt in one step; then each pass of the do-while loop is a step.   *)
(* Hashes are remainders; blocks are numbered, PageBlocks to a page.  The  *)
(* vectors of MSHR_SIZE entries are taken to be long enough.               *)
(***************************************************************************)
EXTENDS Integers, SequencesExt, Bitwise

CONSTANTS
    Block,              \* block numbers that are accessed or evicted
    PageBlocks,         \* blocks of a page
    TagSpan,            \* values of a partial page number
    ST_WAY, PT_SET, PT_WAY,
    SIG_SHIFT, SIG_BIT, SIG_DELTA_BIT,
    C_SIG_MAX, PF_THRESHOLD, FILL_THRESHOLD,
    FILTER_SET, RemainderSpan,
    GLOBAL_COUNTER_MAX, MAX_GHR_ENTRY, MSHR_SIZE,
    MaxAccesses         \* bound on the accesses, for model checking

VARIABLES
    ST, PT, FILTER,     \* the tables
    GHR,                \* global counters and the requests that left their page
    walk,               \* the locals of an access that prefetches, or Idle
    accesses

sppVars == <<ST, PT, FILTER, GHR, walk, accesses>>

Idle == [base |-> -1]

page_number(b) == b \div PageBlocks
offset_type(b) == b % PageBlocks
partial_page(b) == page_number(b) % TagSpan

SPPInit ==
    /\ ST = [w \in 0 .. ST_WAY - 1 |->
               [valid |-> FALSE, tag |-> 0, last_offset |-> 0, sig |-> 0, lru |-> w]]
    /\ PT = [s \in 0 .. PT_SET - 1 |->
               [delta |-> [w \in 0 .. PT_WAY - 1 |-> 0],
                c_delta |-> [w \in 0 .. PT_WAY - 1 |-> 0], c_sig |-> 0]]
    /\ FILTER = [i \in 0 .. FILTER_SET - 1 |->
                   [remainder_tag |-> 0, valid |-> FALSE, useful |-> FALSE]]
    /\ GHR = [pf_useful |-> 0, pf_issued |-> 0, global_accuracy |-> 0,
              entry |-> [i \in 0 .. MAX_GHR_ENTRY - 1 |->
                           [valid |-> FALSE, sig |-> 0, confidence |-> 0, offset |-> 0,
                            delta |-> 0]]]
    /\ walk = Idle
    /\ accesses = 0

First(S) == CHOOSE w \in S : \A x \in S : w <= x

\* The first of S where f is least, or largest.
FirstLeast(S, f) == First({w \in S : \A x \in S : f[w] <= f[x]})
FirstMost(S, f) == First({w \in S : \A x \in S : f[w] >= f[x]})

-----------------------------------------------------------------------------
(* Signatures. *)

sig_delta(delta) == IF delta < 0 THEN 2 ^ (SIG_DELTA_BIT - 1) - delta ELSE delta

NextSig(sig, delta) == ((sig * 2 ^ SIG_SHIFT) ^^ sig_delta(delta)) % 2 ^ SIG_BIT

\* The remembered request that left its page at this offset, or MAX_GHR_ENTRY.
check_entry(offset) ==
    LET confidence == [i \in DOMAIN GHR.entry |-> GHR.entry[i].confidence]
        at == {i \in DOMAIN GHR.entry : GHR.entry[i].offset = offset /\ confidence[i] > 0}
    IN  IF at = {} THEN MAX_GHR_ENTRY ELSE FirstMost(at, confidence)

FirstSig(offset) ==
    LET i == check_entry(offset)
    IN  IF i = MAX_GHR_ENTRY THEN 0 ELSE NextSig(GHR.entry[i].sig, GHR.entry[i].delta)

Hits(b) == {w \in DOMAIN ST : ST[w].valid /\ ST[w].tag = partial_page(b)}

ChosenWay(b) ==
    LET invalid == {w \in DOMAIN ST : ~ST[w].valid}
    IN  CASE Hits(b) # {} -> First(Hits(b))
          [] Hits(b) = {} /\ invalid # {} -> First(invalid)
          [] OTHER -> CHOOSE w \in DOMAIN ST : ST[w].lru = ST_WAY - 1

Promoted(table, way) ==
    [w \in DOMAIN table |->
        [table[w] EXCEPT !.lru = IF w = way THEN 0
                                 ELSE IF @ < table[way].lru THEN @ + 1 ELSE @]]

\* The signature before the access, the one after it, and the delta between.
read_and_update_sig(b) ==
    LET way   == ChosenWay(b)
        delta == IF Hits(b) # {} THEN offset_type(b) - ST[way].last_offset ELSE 0
        old   == ST[way].sig
        sig   == CASE Hits(b) = {} -> FirstSig(offset_type(b))
                   [] Hits(b) # {} /\ delta = 0 -> old
                   [] OTHER -> NextSig(old, delta)
    IN  [last_sig |-> IF delta # 0 THEN old ELSE 0,
         curr_sig |-> IF Hits(b) # {} /\ delta = 0 THEN 0 ELSE sig,
         delta    |-> delta,
         table    |-> Promoted([ST EXCEPT ![way] = [@ EXCEPT !.valid = TRUE,
                                   !.tag = partial_page(b), !.sig = sig,
                                   !.last_offset = offset_type(b)]], way)]

-----------------------------------------------------------------------------
(* Patterns. *)

\* One more update of the row; a full counter halves all of them.
Counted(row) ==
    IF row.c_sig < C_SIG_MAX
      THEN [row EXCEPT !.c_sig = @ + 1]
      ELSE [row EXCEPT !.c_sig = (@ + 1) \div 2,
                       !.c_delta = [w \in DOMAIN @ |-> @[w] \div 2]]

update_pattern(last_sig, delta) ==
    LET set == last_sig % PT_SET
        row == PT[set]
        hit == {w \in DOMAIN row.delta : row.delta[w] = delta}
        way == IF hit # {} THEN First(hit) ELSE FirstLeast(DOMAIN row.delta, row.c_delta)
    IN  [PT EXCEPT ![set] = Counted(
            IF hit # {} THEN [row EXCEPT !.c_delta[way] = @ + 1]
                        ELSE [row EXCEPT !.delta[way] = delta, !.c_delta[way] = 0])]

Confidence(row, way) ==
    IF walk.depth = 0
      THEN (100 * row.c_delta[way]) \div row.c_sig
      ELSE (((GHR.global_accuracy * row.c_delta[way]) \div row.c_sig)
               * walk.lookahead_conf) \div 100

\* The confident ways of the row join the queue, and the most confident one is
\* the path; the entry after them stays as it is.
read_pattern ==
    LET row  == PT[walk.curr_sig % PT_SET]
        pf   == [w \in 0 .. PT_WAY - 1 |-> Confidence(row, w)]
        good == {w \in 0 .. PT_WAY - 1 : pf[w] >= PF_THRESHOLD}
        queue == SetToSortSeq(good, <)
        new(i) == i > walk.tail /\ i <= walk.tail + Len(queue)
    IN  IF row.c_sig = 0
          THEN [walk EXCEPT !.confidence_q[walk.tail + 1] = 0, !.lookahead_way = PT_WAY]
          ELSE [walk EXCEPT
                  !.confidence_q = [i \in DOMAIN @ |->
                       IF new(i) THEN pf[queue[i - walk.tail]] ELSE @[i]],
                  !.delta_q = [i \in DOMAIN @ |->
                       IF new(i) THEN row.delta[queue[i - walk.tail]] ELSE @[i]],
                  !.tail = @ + Len(queue) + 1,
                  !.lookahead_way = IF good = {} THEN PT_WAY ELSE FirstMost(good, pf),
                  !.lookahead_conf = IF good = {} THEN 0 ELSE pf[FirstMost(good, pf)],
                  !.depth = IF good = {} THEN @ ELSE @ + 1]

-----------------------------------------------------------------------------
(* The filter and the global register. *)

quotient(b) == b % FILTER_SET
remainder(b) == (b \div FILTER_SET) % RemainderSpan

InFilter(filter, b) ==
    /\ filter[quotient(b)].valid \/ filter[quotient(b)].useful
    /\ filter[quotient(b)].remainder_tag = remainder(b)

\* A confident prefetch is remembered and counted; full counters are halved.
Issued(s, b, confidence) ==
    IF confidence < FILL_THRESHOLD THEN s
      ELSE LET full == s.ghr.pf_issued = GLOBAL_COUNTER_MAX
           IN  [s EXCEPT !.filter[quotient(b)] =
                            [remainder_tag |-> remainder(b), valid |-> TRUE, useful |-> FALSE],
                         !.ghr.pf_issued = IF full THEN (@ + 1) \div 2 ELSE @ + 1,
                         !.ghr.pf_useful = IF full THEN @ \div 2 ELSE @]

update_entry(ghr, pf_sig, pf_confidence, pf_offset, pf_delta) ==
    LET same == {i \in DOMAIN ghr.entry : ghr.entry[i].valid /\ ghr.entry[i].offset = pf_offset}
        conf == [i \in DOMAIN ghr.entry |-> ghr.entry[i].confidence]
        i == IF same # {} THEN First(same) ELSE FirstLeast(DOMAIN conf, conf)
    IN  [ghr EXCEPT !.entry[i] = [valid |-> TRUE, sig |-> pf_sig, offset |-> pf_offset,
                                  confidence |-> pf_confidence, delta |-> pf_delta]]

\* One entry of the queue: prefetched unless it is in the filter, or remembered
\* for the page it leads to.
Request(w, s, i) ==
    LET b == w.base + w.delta_q[i]
    IN  IF w.confidence_q[i] < PF_THRESHOLD THEN s
          ELSE IF page_number(b) # w.page
            THEN [s EXCEPT !.more = TRUE, !.head = @ + 1,
                           !.ghr = update_entry(@, w.curr_sig, w.confidence_q[i],
                                                offset_type(b), w.delta_q[i])]
            ELSE [IF InFilter(s.filter, b) THEN s ELSE Issued(s, b, w.confidence_q[i])
                    EXCEPT !.more = TRUE, !.head = @ + 1]

Requests(w) ==
    FoldLeft(LAMBDA s, i : Request(w, s, i),
             [filter |-> FILTER, ghr |-> GHR, head |-> w.head, more |-> FALSE],
             [i \in 1 .. w.tail - w.head |-> w.head + i])

-----------------------------------------------------------------------------
(* Hooks. *)

\* L2C_DEMAND
Demanded(b) ==
    LET f == FILTER[quotient(b)]
        used == f.remainder_tag = remainder(b) /\ ~f.useful
    IN  /\ FILTER' = IF used THEN [FILTER EXCEPT ![quotient(b)].useful = TRUE] ELSE FILTER
        /\ GHR' = [GHR EXCEPT
                     !.pf_useful = IF used /\ f.valid THEN @ + 1 ELSE @,
                     !.global_accuracy = IF GHR.pf_issued > 0
                         THEN (100 * GHR.pf_useful) \div GHR.pf_issued ELSE 0]

\* prefetcher_cache_operate up to its loop.
Operate(b) ==
    LET read == read_and_update_sig(b)
    IN  /\ walk = Idle
        /\ accesses < MaxAccesses
        /\ accesses' = accesses + 1
        /\ ST' = read.table
        /\ Demanded(b)
        /\ PT' = IF read.last_sig # 0 THEN update_pattern(read.last_sig, read.delta) ELSE PT
        /\ walk' = [base |-> b, page |-> page_number(b), curr_sig |-> read.curr_sig,
                    depth |-> 0, lookahead_conf |-> 100, lookahead_way |-> PT_WAY,
                    head |-> 0, tail |-> 0,
                    confidence_q |-> [i \in 1 .. MSHR_SIZE |-> IF i = 1 THEN 100 ELSE 0],
                    delta_q |-> [i \in 1 .. MSHR_SIZE |-> 0]]

\* One pass: the path is followed as long as some request was confident.
Lookahead ==
    LET w == read_pattern
        s == Requests(w)
        delta == PT[w.curr_sig % PT_SET].delta[w.lookahead_way]
    IN  /\ walk # Idle
        /\ walk.tail + PT_WAY < MSHR_SIZE
        /\ FILTER' = s.filter
        /\ GHR' = s.ghr
        /\ walk' = IF ~s.more THEN Idle
                   ELSE IF w.lookahead_way = PT_WAY THEN [w EXCEPT !.head = s.head]
                   ELSE [w EXCEPT !.head = s.head, !.base = @ + delta,
                                  !.curr_sig = NextSig(@, delta)]
        /\ UNCHANGED <<ST, PT, accesses>>

\* prefetcher_cache_fill: L2C_EVICT of the line that left the cache.
Evict(b) ==
    LET f == FILTER[quotient(b)]
    IN  /\ walk = Idle
        /\ GHR' = IF f.valid /\ ~f.useful /\ GHR.pf_useful > 0
                    THEN [GHR EXCEPT !.pf_useful = @ - 1] ELSE GHR
        /\ FILTER' = [FILTER EXCEPT ![quotient(b)] =
                        [remainder_tag |-> 0, valid |-> FALSE, useful |-> FALSE]]
        /\ UNCHANGED <<ST, PT, walk, accesses>>

SPPNext ==
    \/ \E b \in Block : Operate(b) \/ Evict(b)
    \/ Lookahead

SPPSpec == SPPInit /\ [][SPPNext]_sppVars

-----------------------------------------------------------------------------
\* The assertions of the tables never fail (spp_dev.cc:255, :280, :343): the ages
\* of the signature table are a permutation, and however updates and halvings
\* mix, the counters of a row stay below that of its signature, so that there is
\* a victim and no path is followed with full confidence.
TablesHaveVictims ==
    /\ {ST[w].lru : w \in DOMAIN ST} = 0 .. ST_WAY - 1
    /\ \A s \in DOMAIN PT :
          FoldFunction(+, 0, PT[s].c_delta) < PT[s].c_sig + (IF PT[s].c_sig = 0 THEN 1 ELSE 0)
=============================================================================

------------------------------ MODULE LRUBlocks ------------------------------
(***************************************************************************)
(* Two keepers of times of use, each on one set.  msl/lru_table.h keeps    *)
(* blocks with the time of their last use, zero for a block that holds     *)
(* nothing; entries is what LRUTable says the set holds.  The lru          *)
(* replacement policy (src/replacement/lru/) stamps the way of every fill  *)
(* and every hit but a writeback's with the next cycle of a counter that   *)
(* all sets share.                                                         *)
(***************************************************************************)
EXTENDS LRUTable, FiniteSets

CONSTANTS
    NUM_WAY, Tag, Value,
    DefaultTag,        \* the tag of the data of an unused block
    DefaultValue,
    MaxUses            \* bound on the uses

\* A table has a way.
ASSUME TableAssumption == NUM_WAY \in Nat \ {0}

VARIABLES blocks, access_count, entries

blocksVars == <<blocks, access_count, entries>>

TableWays == 1 .. NUM_WAY

Unused == [last_used |-> 0, data |-> [tag |-> DefaultTag, value |-> DefaultValue]]

BlocksInit == blocks = [w \in TableWays |-> Unused] /\ access_count = 0 /\ entries = << >>

Valid == {w \in TableWays : blocks[w].last_used > 0}

\* match_func
MatchingBlocks(tag) == {w \in Valid : blocks[w].data.tag = tag}

Used(w, data) ==
    /\ access_count < MaxUses
    /\ access_count' = access_count + 1
    /\ blocks' = [blocks EXCEPT ![w] = [last_used |-> access_count', data |-> data]]

CheckHit(tag) ==
    /\ entries' = check_hit(entries, tag)
    /\ IF MatchingBlocks(tag) = {} THEN UNCHANGED <<blocks, access_count>>
       ELSE \E w \in MatchingBlocks(tag) : Used(w, blocks[w].data)

MutantReplaced(tag) ==
    {w \in TableWays : \A v \in TableWays : blocks[w].last_used <= blocks[v].last_used}

\* What fill may replace.  minmax_element compares by match_and_check: its largest
\* block is the one of the tag, if there is one; its smallest is unused, if there is
\* one, and which is open, for the comparison puts each unused block before itself.
Replaced(tag) ==
    IF MatchingBlocks(tag) # {} THEN MatchingBlocks(tag)
    ELSE {w \in TableWays : \A v \in TableWays : blocks[w].last_used <= blocks[v].last_used}

FillBlock(tag, value) ==
    /\ entries' = fill(entries, NUM_WAY, [tag |-> tag, value |-> value])
    /\ \E w \in Replaced(tag) : Used(w, [tag |-> tag, value |-> value])

Invalidate(tag) ==
    /\ entries' = invalidate(entries, tag)
    /\ blocks' = [w \in TableWays |-> IF w \in MatchingBlocks(tag) THEN Unused ELSE blocks[w]]
    /\ UNCHANGED access_count

BlocksNext ==
    \E tag \in Tag : \/ CheckHit(tag) \/ Invalidate(tag)
                     \/ \E value \in Value : FillBlock(tag, value)

BlocksSpec == BlocksInit /\ [][BlocksNext]_blocksVars

-----------------------------------------------------------------------------
(* The lru policy. *)

CONSTANTS
    NumLRUWay,   \* NUM_WAY
    MaxCycle     \* bound on the stamps given out, for model checking

LRUWay == 1 .. NumLRUWay

\* A set has a way.
ASSUME LRUAssumption == NumLRUWay \in Nat \ {0}

VARIABLES
    last_used_cycles,  \* the stamp of each way
    cycle,             \* the next stamp
    filled,            \* how many ways hold a line
    order              \* history: the ways by their last use, the latest last

lruVars == <<last_used_cycles, cycle, filled, order>>

LRUInit ==
    /\ last_used_cycles = [w \in LRUWay |-> 0]
    /\ cycle = 0
    /\ filled = 0
    /\ order = << >>

find_victim ==
    CHOOSE w \in LRUWay : \A x \in LRUWay :
        last_used_cycles[w] < last_used_cycles[x]
        \/ (last_used_cycles[w] = last_used_cycles[x] /\ w <= x)

\* The ways used before, without one of them.
OrderWithout(w) ==
    IF \E i \in DOMAIN order : order[i] = w
      THEN RemoveAt(order, CHOOSE i \in DOMAIN order : order[i] = w) ELSE order

MutantUse(w) ==
    /\ cycle < MaxCycle
    /\ last_used_cycles' = [last_used_cycles EXCEPT ![w] = cycle]
    /\ cycle' = cycle
    /\ order' = Append(OrderWithout(w), w)

Use(w) ==
    /\ cycle < MaxCycle
    /\ last_used_cycles' = [last_used_cycles EXCEPT ![w] = cycle]
    /\ cycle' = cycle + 1
    /\ order' = Append(OrderWithout(w), w)

\* replacement_cache_fill, of an invalid way as long as there is one.
FillLRU ==
    /\ Use(IF filled < NumLRUWay THEN filled + 1 ELSE find_victim)
    /\ filled' = IF filled < NumLRUWay THEN filled + 1 ELSE filled

\* update_replacement_state with hit = true.
HitLRU(w, write) ==
    /\ w <= filled
    /\ IF write THEN UNCHANGED <<last_used_cycles, cycle, order>> ELSE Use(w)
    /\ UNCHANGED filled

\* A use of another set moves the shared counter on.
UseElsewhere ==
    /\ cycle < MaxCycle
    /\ cycle' = cycle + 1
    /\ UNCHANGED <<last_used_cycles, filled, order>>

LRUNext ==
    \/ FillLRU
    \/ \E w \in LRUWay, write \in BOOLEAN : HitLRU(w, write)
    \/ UseElsewhere

LRUSpec == LRUInit /\ [][LRUNext]_lruVars

-----------------------------------------------------------------------------
\* The blocks in use, by the time of their last use, are the entries LRUTable says:
\* the table never drops another entry than the least recently used, nor keeps two
\* of one tag, however hits, fills and invalidations leave holes.
BlocksAreEntries ==
    LET rank(w) == Cardinality({v \in Valid : blocks[v].last_used <= blocks[w].last_used})
    IN  /\ Cardinality(Valid) = Len(entries)
        /\ \A w \in Valid : entries[rank(w)] = blocks[w].data

\* Once the set is full, the stamps name the way that was filled or read longest
\* ago (lru.cc:10-36), although writebacks leave no stamp and invalid ways share
\* the stamp of the first use.
VictimIsLeastRecent == filled = NumLRUWay => find_victim = Head(order)
=============================================================================

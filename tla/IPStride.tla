------------------------------ MODULE IPStride ------------------------------
(***************************************************************************)
(* The ip_stride prefetcher (src/prefetcher/ip_stride/): a table of the    *)
(* last block and stride of each instruction, and a lookahead that issues  *)
(* one prefetch a cycle.  Blocks are numbered, PageBlocks to a page; one   *)
(* set of the table.                                                       *)
(***************************************************************************)
EXTENDS Integers, LRUTable

CONSTANTS
    IPs, Block,         \* instructions and the blocks they access
    TRACKER_WAYS,
    PREFETCH_DEGREE,
    PageBlocks,
    virtual_prefetch,
    MaxLoads            \* bound on the accesses, for model checking

\* Blocks are numbers, and the lookahead is at least one block.
ASSUME StrideAssumption ==
    Block \subseteq Int /\ TRACKER_WAYS \in Nat /\ PREFETCH_DEGREE \in Nat \ {0}

VARIABLES
    table,
    active_lookahead,   \* or NoLookahead
    accesses,
    origin,             \* history: where the lookahead started, and for whom
    past                \* history: the last blocks of each instruction, latest first

strideVars == <<table, active_lookahead, accesses, origin, past>>

NoLookahead == [degree |-> 0]

page(b) == b \div PageBlocks

StrideInit ==
    /\ table = << >>
    /\ active_lookahead = NoLookahead
    /\ accesses = 0
    /\ origin = [ip |-> 0, block |-> 0, past |-> << >>]
    /\ past = [ip \in IPs |-> << >>]

MutantConfirmed(found, stride) == stride # 0

\* The same stride twice in a row, and not the same block again.
Confirmed(found, stride) == stride # 0 /\ stride = found.stride

\* prefetcher_cache_operate
Operate(ip, b) ==
    LET known  == ip \in Tags(table)
        found  == EntryOf(table, ip)
        stride == IF known THEN b - found.block ELSE 0
        now    == <<b>> \o past[ip]
    IN  /\ accesses < MaxLoads
        /\ accesses' = accesses + 1
        /\ past' = [past EXCEPT ![ip] = now]
        /\ table' = fill(check_hit(table, ip), TRACKER_WAYS,
                               [tag |-> ip, block |-> b, stride |-> stride])
        /\ IF known /\ Confirmed(found, stride)
             THEN /\ active_lookahead' = [address |-> b, stride |-> stride,
                                          degree |-> PREFETCH_DEGREE]
                  /\ origin' = [ip |-> ip, block |-> b, past |-> now]
             ELSE UNCHANGED <<active_lookahead, origin>>

\* prefetcher_cycle_operate: a prefetch that is refused is tried again.
CycleOperate(success) ==
    LET next == active_lookahead.address + active_lookahead.stride
    IN  /\ active_lookahead # NoLookahead
        /\ active_lookahead' =
              CASE ~virtual_prefetch /\ page(next) # page(active_lookahead.address) -> NoLookahead
                [] (virtual_prefetch \/ page(next) = page(active_lookahead.address)) /\ success ->
                     IF active_lookahead.degree = 1 THEN NoLookahead
                       ELSE [active_lookahead EXCEPT !.address = next, !.degree = @ - 1]
                [] OTHER -> active_lookahead
        /\ UNCHANGED <<table, accesses, origin, past>>

StrideNext ==
    \/ \E ip \in IPs, b \in Block : Operate(ip, b)
    \/ \E success \in BOOLEAN : CycleOperate(success)

StrideSpec == StrideInit /\ [][StrideNext]_strideVars

-----------------------------------------------------------------------------
\* What is prefetched continues the last three accesses of one instruction
\* (ip_stride.cc:17-20, 35-44), although lookaheads replace each other, are refused
\* and retried, and entries leave the table and come back: the block is as many
\* strides from where the lookahead began as requests have been made, never more
\* than the degree, and on the same page unless prefetches are virtual.
LookaheadContinuesStride ==
    active_lookahead # NoLookahead =>
        LET stride == active_lookahead.stride
        IN  /\ active_lookahead.degree \in 1 .. PREFETCH_DEGREE
            /\ active_lookahead.address =
                 origin.block + stride * (PREFETCH_DEGREE - active_lookahead.degree)
            /\ Len(origin.past) >= 3
            /\ \A i \in 1 .. 2 : origin.past[i] - origin.past[i + 1] = stride
            /\ virtual_prefetch \/ page(active_lookahead.address) = page(origin.block)
=============================================================================

-------------------------------- MODULE AMPM --------------------------------
(***************************************************************************)
(* The va_ampm_lite prefetcher (src/prefetcher/va_ampm_lite/): for each of *)
(* a few pages, maps of the blocks that were accessed and prefetched.  The *)
(* regions are one LRU table, and looking at a map is a use of its region. *)
(* A region is copied out, changed and filled back.                        *)
(***************************************************************************)
EXTENDS Integers, SequencesExt

CONSTANTS
    Block,             \* blocks that are accessed
    PageBlocks,        \* blocks of a page
    REGION_WAYS,
    MAX_DISTANCE, PREFETCH_DEGREE,
    Room,              \* how many prefetches may find room in the queue of the cache
    MaxAccesses        \* bound on the accesses, for model checking

Table == INSTANCE LRUTable

VARIABLES
    regions,
    accesses,
    demanded, issued   \* history: blocks of tracked pages accessed since they were
                       \* allocated, and prefetched since then

ampmVars == <<regions, accesses, demanded, issued>>

page(b) == b \div PageBlocks

FreshRegion(vpn) == [tag |-> vpn, access_map |-> {}, prefetch_map |-> {}]

AMPMInit == regions = << >> /\ accesses = 0 /\ demanded = {} /\ issued = {}

Tracked(table, b) == page(b) \in Table!Tags(table)

MutantMarked(table, b) ==
    LET used   == Table!check_hit(table, page(b))
        region == IF Tracked(regions, b) THEN Table!EntryOf(regions, page(b))
                                         ELSE FreshRegion(page(b))
    IN  Table!fill(used, REGION_WAYS, [region EXCEPT !.prefetch_map = @ \cup {b}])

\* Marks a prefetch, in a new region if there is none.
Marked(table, b) ==
    LET used   == Table!check_hit(table, page(b))
        region == IF Tracked(table, b) THEN Table!EntryOf(table, page(b)) ELSE FreshRegion(page(b))
    IN  Table!fill(used, REGION_WAYS, [region EXCEPT !.prefetch_map = @ \cup {b}])

\* check_cl_access and check_cl_prefetch, and the use they make of the region.
InMap(s, b, map) ==
    Tracked(s.regions, b) /\ b \in Table!EntryOf(s.regions, page(b))[map]
Looked(s, b) == [s EXCEPT !.regions = Table!check_hit(@, page(b))]

\* One distance of the loop: the two blocks behind were accessed, and the one ahead
\* neither accessed nor prefetched.  The checks stop at the first that fails.
Try(s, b, step) ==
    LET s1 == Looked(s, b - step)
        s2 == Looked(s1, b - 2 * step)
        s3 == Looked(s2, b + step)
    IN  IF s.count = PREFETCH_DEGREE THEN s
        ELSE IF ~InMap(s, b - step, "access_map") THEN s1
        ELSE IF ~InMap(s1, b - 2 * step, "access_map") THEN s2
        ELSE IF \/ InMap(s2, b + step, "access_map")
                \/ InMap(s3, b + step, "prefetch_map")
                \/ Cardinality(s.new) >= s.room THEN s3
        ELSE [s3 EXCEPT !.regions = Marked(@, b + step),
                        !.count = @ + 1, !.new = @ \cup {b + step}]

\* Positive steps, then negative ones, each with its own count.
Attempts(s, b) ==
    LET one(t, sign) == FoldLeft(LAMBDA x, i : Try(x, b, sign * i), [t EXCEPT !.count = 0],
                                 [i \in 1 .. MAX_DISTANCE |-> i])
    IN  one(one(s, 1), -1)

\* The maps after an access of a tracked page.
Demand(b, room) ==
    LET region == [Table!EntryOf(regions, page(b)) EXCEPT !.access_map = @ \cup {b}]
    IN  Attempts([regions |-> Table!fill(regions, REGION_WAYS, region),
                  count |-> 0, room |-> room, new |-> {}], b)

\* What is remembered of pages that left the table, or that come anew, is forgotten.
Still(S, old, new) ==
    {x \in S : page(x) \in Table!Tags(new) /\ page(x) \in Table!Tags(old)}

\* prefetcher_cache_operate: the first access of a page only allocates its region.
Operate(b, room) ==
    LET s == Demand(b, room)
    IN  /\ accesses < MaxAccesses
        /\ accesses' = accesses + 1
        /\ IF Tracked(regions, b)
             THEN /\ regions' = s.regions
                  /\ demanded' = Still(demanded \cup {b}, regions, s.regions)
                  /\ issued' = Still(issued, regions, s.regions)
                                 \cup {x \in s.new : Tracked(s.regions, x)}
             ELSE /\ regions' = Table!fill(regions, REGION_WAYS, FreshRegion(page(b)))
                  /\ demanded' = Still(demanded, regions, regions')
                  /\ issued' = Still(issued, regions, regions')

AMPMNext == \E b \in Block, room \in Room : Operate(b, room)

AMPMSpec == AMPMInit /\ [][AMPMNext]_ampmVars

-----------------------------------------------------------------------------
\* No copy of a region that is filled back loses what another one marked
\* (va_ampm_lite.cc:42-68): while a page is tracked, its maps hold every block that
\* was accessed and every one that was prefetched.
MapsKeepEverything ==
    /\ demanded = UNION {regions[i].access_map : i \in DOMAIN regions}
    /\ issued = UNION {regions[i].prefetch_map : i \in DOMAIN regions}
=============================================================================

-------------------------------- MODULE Cache -------------------------------
(***************************************************************************)
(* CACHE (src/cache.cc, inc/cache.h) between its upper levels and its      *)
(* lower level.  One call of operate() is a sequence of phases, and every  *)
(* phase takes one packet at a time, in the order of the code:             *)
(*                                                                         *)
(*   outside -> returns -> fills -> initiate -> hits -> misses -> outside  *)
(*                                                                         *)
(* The other components act only while the cache is outside operate(); the *)
(* simulator has one thread.  Upper and lower components are external:     *)
(* they do what a core, another CACHE or the DRAM controller may do with   *)
(* its end of a channel.                                                   *)
(*                                                                         *)
(* A line stands for its virtual and its physical address: a lookup that   *)
(* is not translated has only the first.  LOAD stands for LOAD, RFO and    *)
(* TRANSLATION, which this code never tells apart.  A time is the number   *)
(* of cycles still to wait.                                                *)
(***************************************************************************)
EXTENDS Channel, Integers, FiniteSets, SequencesExt

CONSTANTS
    Upper,            \* the upper levels
    Line,             \* line addresses
    CacheSets,        \* set indices
    SetOf,            \* get_set_index
    NumWay,           \* NUM_WAY
    MshrSize,         \* MSHR_SIZE
    PqSize,           \* PQ_SIZE, of internal_PQ
    MaxTag,           \* MAX_TAG
    MaxFill,          \* MAX_FILL
    HitLatency,       \* HIT_LATENCY in cycles
    FillLatency,      \* FILL_LATENCY in cycles
    UpperSize,        \* RQ_SIZE, WQ_SIZE, PQ_SIZE of the upper channels
    LowerSize,        \* the same of the lower channel
    MatchOffsetBits,  \* match_offset_bits: writes are stores, not writebacks
    PrefetchAsLoad,   \* prefetch_as_load
    Translates,       \* lower_translate is not null: requests arrive untranslated
    VirtualPrefetch,  \* virtual_prefetch: and so do this cache's own prefetches
    PageOf,           \* the page of a line
    NoBlock,          \* an invalid way
    MaxRequests       \* bound on the requests issued, for model checking

ASSUME CacheAssumption ==
    /\ IsFiniteSet(Upper) /\ Upper # {}
    /\ SetOf \in [Line -> CacheSets]
    /\ NoBlock \notin [addr : Line, dirty : BOOLEAN]
    /\ {NumWay, MshrSize, MaxTag, MaxFill, HitLatency, UpperSize, LowerSize}
          \subseteq Nat \ {0}
    /\ {PqSize, FillLatency, MaxRequests} \subseteq Nat
    /\ {MatchOffsetBits, PrefetchAsLoad, Translates, VirtualPrefetch} \subseteq BOOLEAN
    /\ DOMAIN PageOf = Line

Way == 1 .. NumWay
Pages == {PageOf[a] : a \in Line}

VARIABLES
    upper,               \* the channel of each upper level
    upper_levels,        \* the order in which they are served
    lower,               \* the channel to the lower level
    block,               \* per set and way, the line it holds
    MSHR,                \* misses waiting for the lower level
    inflight_fills,      \* lines on their way into the cache
    inflight_tag_check,  \* lookups started and not decided
    translation_stash,   \* lookups that wait for their translation
    lower_translate,     \* the channel to the TLB
    avail,               \* whether can_translate lets untranslated packets in
    internal_PQ,         \* prefetches this cache's prefetcher asked for
    phase,               \* how far operate() has come
    budget,              \* bandwidth left in the phase
    share,               \* what one upper queue may take of it
    source,              \* the next queue to take tag checks from
    todo,                \* lookups the phase has still to look at
    kept,                \* lookups it leaves for later
    atLower,             \* external: per line, answers the lower level owes
    atTLB,               \* external: per page, answers the TLB owes
    asked,               \* external: the upper that asked request i
    answered,            \* external: the requests answered
    others,              \* external: how many requests want no answer
    written,             \* history: lines written here and not written back
    demoted              \* history: lines whose write a later miss merged with

translateVars == <<translation_stash, lower_translate, avail, atTLB>>
operateVars == <<phase, budget, share, source, todo, kept>>
cacheVars == <<upper, upper_levels, lower, block, MSHR, inflight_fills,
               inflight_tag_check, internal_PQ, operateVars, atLower, asked,
               answered, others, written, demoted, translateVars>>

-----------------------------------------------------------------------------
(* Packets. *)

Types == {"LOAD", "PREFETCH", "WRITE"}
Ids == 1 .. MaxRequests

\* instr_depend_on_me and response_requested
Request == [addr : Line, type : Types, ids : SUBSET Ids,
            respond : BOOLEAN, translated : BOOLEAN]

Response == [addr : Line, ids : SUBSET Ids]

\* tag_lookup_type; told counts the calls of update_replacement_state (history).
TagLookup == [addr : Line, type : Types, ids : SUBSET Ids, to_return : SUBSET Upper,
              skip : BOOLEAN, wait : 0 .. HitLatency, told : 0 .. 2,
              translated : BOOLEAN, issued : BOOLEAN]

\* fill_type
Fill == [addr : Line, type : Types, ids : SUBSET Ids, to_return : SUBSET Upper,
         wait : 0 .. FillLatency]

ToFill(pkt) == [addr |-> pkt.addr, type |-> pkt.type, ids |-> pkt.ids,
                to_return |-> pkt.to_return, wait |-> FillLatency]

MutantMergeKeepsReturn(pred, succ) ==
    [pred EXCEPT !.type = IF succ.type = "PREFETCH" THEN pred.type ELSE succ.type,
                 !.ids = pred.ids \cup succ.ids]

\* fill_type::merge: a demand takes over from what it finds, whatever that was.
Merge(pred, succ) ==
    [pred EXCEPT !.type = IF succ.type = "PREFETCH" THEN pred.type ELSE succ.type,
                 !.ids = pred.ids \cup succ.ids,
                 !.to_return = pred.to_return \cup succ.to_return]

\* A response to every channel that waits for the packet.
Responded(channels, pkt) ==
    [u \in Upper |->
        IF u \in pkt.to_return
          THEN Push(channels[u], "returned", [addr |-> pkt.addr, ids |-> pkt.ids])
          ELSE channels[u]]

IndexOf(entries, a) == SelectInSeq(entries, LAMBDA e : e.addr = a)

\* The entries at some places, in the order they had: what extract_if and
\* stable_partition make of each of their two parts.
Chosen(entries, places) ==
    [k \in 1 .. Cardinality(places) |->
        entries[CHOOSE i \in places : Cardinality({j \in places : j <= i}) = k]]

\* transform_while_n: as many of the first n as the predicate lets pass.
Passing(queue, n, P(_)) ==
    Max({0} \cup {m \in 1 .. Min({n, Len(queue)}) : \A i \in 1 .. m : P(queue[i])})

IsTranslated(packet) == packet.translated

Soon(wait) == IF wait = 0 THEN 0 ELSE wait - 1

-----------------------------------------------------------------------------
\* Nothing is on its way.
QuietInit ==
    /\ upper = [u \in Upper |-> EmptyChannel]
    /\ upper_levels \in {o \in [1 .. Cardinality(Upper) -> Upper] :
                            \A i, j \in DOMAIN o : o[i] = o[j] => i = j}
    /\ lower = EmptyChannel
    /\ MSHR = << >>
    /\ inflight_fills = << >>
    /\ inflight_tag_check = << >>
    /\ internal_PQ = << >>
    /\ translation_stash = << >> /\ lower_translate = EmptyChannel
    /\ avail = FALSE /\ atTLB = [page \in Pages |-> 0]
    /\ phase = "outside"
    /\ budget = 0 /\ share = 0 /\ source = 0
    /\ todo = << >> /\ kept = << >>
    /\ atLower = [a \in Line |-> 0]
    /\ asked = << >>
    /\ answered = {}
    /\ others = 0
    /\ demoted = {}

CacheInit ==
    /\ QuietInit
    /\ block = [s \in CacheSets |-> [w \in Way |-> NoBlock]]
    /\ written = {}

-----------------------------------------------------------------------------
(* operate(): returns. *)

StartCycle ==
    /\ phase = "outside"
    /\ phase' = "returns"
    /\ inflight_fills' = [i \in DOMAIN inflight_fills |->
                             [inflight_fills[i] EXCEPT !.wait = Soon(@)]]
    /\ inflight_tag_check' = [i \in DOMAIN inflight_tag_check |->
                                 [inflight_tag_check[i] EXCEPT !.wait = Soon(@)]]
    /\ UNCHANGED <<translateVars, upper, upper_levels, lower, block, MSHR, internal_PQ, budget,
                   share, source, todo, kept, atLower, asked, answered, others,
                   written, demoted>>

MutantFinishPacketNoSwap ==
    /\ phase = "returns"
    /\ lower.returned # << >>
    /\ IndexOf(MSHR, Head(lower.returned).addr) # 0
    /\ inflight_fills' = Append(inflight_fills, Head(MSHR))
    /\ MSHR' = Tail(MSHR)
    /\ lower' = Pop(lower, "returned")
    /\ UNCHANGED <<translateVars, upper, upper_levels, block, inflight_tag_check, internal_PQ,
                   operateVars, atLower, asked, answered, others, written, demoted>>

\* finish_packet: the answered MSHR is swapped with the first one, which then
\* leaves for the fills.  It asserts that there is one.
FinishPacket ==
    /\ phase = "returns"
    /\ lower.returned # << >>
    /\ LET m == IndexOf(MSHR, Head(lower.returned).addr)
       IN  /\ m # 0
           /\ inflight_fills' =
                 Append(inflight_fills, [MSHR[m] EXCEPT !.wait = FillLatency])
           /\ MSHR' = Tail([MSHR EXCEPT ![m] = MSHR[1]])
    /\ lower' = Pop(lower, "returned")
    /\ UNCHANGED <<translateVars, upper, upper_levels, block, inflight_tag_check, internal_PQ,
                   operateVars, atLower, asked, answered, others, written, demoted>>

\* The translations of a page, known at once to every lookup that waits for it.
Translated(lookup, page) ==
    IF PageOf[lookup.addr] = page THEN [lookup EXCEPT !.translated = TRUE] ELSE lookup

TranslatedAll(lookups, page) == [i \in DOMAIN lookups |-> Translated(lookups[i], page)]

MutantRestarted(stash, page) == TranslatedAll(stash, page)

\* In the stash, they move up behind those translated before.
Restarted(stash, page) ==
    LET n == Passing(stash, Len(stash), IsTranslated)
        late == n + 1 .. Len(stash)
        mine == {i \in late : ~stash[i].translated /\ PageOf[stash[i].addr] = page}
    IN  SubSeq(stash, 1, n) \o TranslatedAll(Chosen(stash, mine), page)
           \o Chosen(stash, late \ mine)

MutantFinishTranslation ==
    /\ phase = "returns"
    /\ lower.returned = << >> /\ lower_translate.returned # << >>
    /\ translation_stash' = Restarted(translation_stash, Head(lower_translate.returned))
    /\ lower_translate' = Pop(lower_translate, "returned")
    /\ UNCHANGED <<upper, upper_levels, lower, block, MSHR, inflight_fills, internal_PQ,
                   inflight_tag_check, operateVars, avail, atLower, atTLB, asked,
                   answered, others, written, demoted>>

\* finish_translation
FinishTranslation ==
    /\ phase = "returns"
    /\ lower.returned = << >> /\ lower_translate.returned # << >>
    /\ LET page == Head(lower_translate.returned)
       IN  /\ translation_stash' = Restarted(translation_stash, page)
           /\ inflight_tag_check' = TranslatedAll(inflight_tag_check, page)
    /\ lower_translate' = Pop(lower_translate, "returned")
    /\ UNCHANGED <<upper, upper_levels, lower, block, MSHR, inflight_fills, internal_PQ,
                   operateVars, avail, atLower, atTLB, asked, answered, others, written,
                   demoted>>

StartFills ==
    /\ phase = "returns"
    /\ lower.returned = << >> /\ lower_translate.returned = << >>
    /\ phase' = "fills"
    /\ budget' = MaxFill
    /\ UNCHANGED <<translateVars, upper, upper_levels, lower, block, MSHR, inflight_fills,
                   inflight_tag_check, internal_PQ, share, source, todo, kept,
                   atLower, asked, answered, others, written, demoted>>

-----------------------------------------------------------------------------
(* operate(): fills. *)

Bypass == NumWay + 1

InvalidWay(s) == {w \in Way : block[s][w] = NoBlock}

\* The first invalid way, or what the replacement policy says: any way, or none
\* (a bypass) unless the fill is a write.
FillWay(f) ==
    LET s == SetOf[f.addr]
    IN  IF InvalidWay(s) # {}
          THEN {Min(InvalidWay(s))}
          ELSE Way \cup (IF f.type = "WRITE" THEN {} ELSE {Bypass})

NextFillReady ==
    /\ phase = "fills"
    /\ budget > 0
    /\ inflight_fills # << >>
    /\ Head(inflight_fills).wait = 0

Victim(f, w) == IF w = Bypass THEN NoBlock ELSE block[SetOf[f.addr]][w]

NeedsWriteback(victim) == victim # NoBlock /\ victim.dirty

Writeback(victim) ==
    [addr |-> victim.addr, type |-> "WRITE", ids |-> {}, respond |-> FALSE]

FillBlock(f) == [addr |-> f.addr, dirty |-> f.type = "WRITE"]

\* handle_fill, when it succeeds.
HandleFill(w) ==
    /\ NextFillReady
    /\ LET f == Head(inflight_fills)
           v == Victim(f, w)
       IN  /\ w \in FillWay(f)
           /\ IF NeedsWriteback(v)
                THEN /\ HasRoom(lower.WQ, LowerSize)
                     /\ lower' = Push(lower, "WQ", Writeback(v))
                     /\ written' = written \ {v.addr}
                ELSE UNCHANGED <<lower, written>>
           /\ block' = IF w = Bypass
                         THEN block
                         ELSE [block EXCEPT ![SetOf[f.addr]][w] = FillBlock(f)]
           /\ upper' = Responded(upper, f)
    /\ inflight_fills' = Tail(inflight_fills)
    /\ budget' = budget - 1
    /\ UNCHANGED <<translateVars, upper_levels, MSHR, inflight_tag_check, internal_PQ, phase,
                   share, source, todo, kept, atLower, asked, answered, others,
                   demoted>>

\* handle_fill fails when the lower level refuses the victim's writeback; the
\* fill stays in front, and the next cycle asks for a victim again.
RefusedFill ==
    /\ NextFillReady
    /\ \E w \in FillWay(Head(inflight_fills)) :
          NeedsWriteback(Victim(Head(inflight_fills), w))
    /\ ~HasRoom(lower.WQ, LowerSize)

FillsOver == phase = "fills" /\ (~NextFillReady \/ RefusedFill)

-----------------------------------------------------------------------------
(* operate(): new tag checks. *)

MutantTagCheckRoom == MaxTag

\* As many as keep MAX_TAG per cycle of HIT_LATENCY in flight.
TagCheckRoom ==
    LET free == MaxTag * HitLatency - Len(inflight_tag_check)
    IN  Min({MaxTag, Max({0, free})})

Rotated(order) == IF Len(order) > 1 THEN Append(Tail(order), Head(order)) ELSE order

CanTranslate(packet) == avail \/ packet.translated

Restart(lookups) == [i \in DOMAIN lookups |-> [lookups[i] EXCEPT !.wait = HitLatency]]

\* Stashed lookups whose translation has come go first; untranslated packets are
\* let in, for the whole cycle, as long as the stash is smaller than the MSHRs.
StartInitiate ==
    /\ FillsOver
    /\ phase' = "initiate"
    /\ LET n == Passing(translation_stash, TagCheckRoom, IsTranslated)
           left == TagCheckRoom - n
       IN  /\ inflight_tag_check' =
                 inflight_tag_check \o Restart(SubSeq(translation_stash, 1, n))
           /\ translation_stash' = SubSeq(translation_stash, n + 1, Len(translation_stash))
           /\ budget' = left
           /\ share' = Max({left \div Cardinality(Upper), 1})
    /\ avail' = (Len(translation_stash) < MshrSize)
    /\ source' = 1
    /\ upper_levels' = Rotated(upper_levels)
    /\ UNCHANGED <<upper, lower, lower_translate, block, MSHR, inflight_fills,
                   internal_PQ, todo, kept, atLower, atTLB, asked, answered, others,
                   written, demoted>>

\* WQ, RQ and PQ of each upper level in turn.
NumSources == 3 * Cardinality(Upper)
SourceUpper(k) == upper_levels[((k - 1) \div 3) + 1]
SourceQueue(k) == <<"WQ", "RQ", "PQ">>[((k - 1) % 3) + 1]
Waiting(k) == upper[SourceUpper(k)][SourceQueue(k)]
Takable(k) == Passing(Waiting(k), Min({share, budget}), CanTranslate)

Lookup(req, u) ==
    [addr |-> req.addr, type |-> req.type, ids |-> req.ids,
     to_return |-> IF req.respond THEN {u} ELSE {}, skip |-> FALSE,
     wait |-> HitLatency, told |-> 0, translated |-> req.translated, issued |-> FALSE]

\* initiate_tag_check on the next queue that has a packet it may take.
InitiateFromUpper(k) ==
    /\ phase = "initiate"
    /\ budget > 0
    /\ k >= source
    /\ Takable(k) > 0
    /\ \A j \in source .. k - 1 : Takable(j) = 0
    /\ LET u == SourceUpper(k)
           q == SourceQueue(k)
           n == Takable(k)
       IN  /\ inflight_tag_check' =
                 inflight_tag_check \o
                 [i \in 1 .. n |-> Lookup(Waiting(k)[i], u)]
           /\ upper' = [upper EXCEPT ![u][q] = SubSeq(@, n + 1, Len(@))]
           /\ budget' = budget - n
    /\ source' = k + 1
    /\ UNCHANGED <<translateVars, upper_levels, lower, block, MSHR, inflight_fills, internal_PQ,
                   phase, share, todo, kept, atLower, asked, answered, others,
                   written, demoted>>

UppersServed == \A j \in source .. NumSources : Takable(j) = 0

PrefetchesTakable == Passing(internal_PQ, budget, CanTranslate)

\* The cache's own prefetches take what is left.
InitiateFromPrefetches ==
    /\ phase = "initiate"
    /\ budget > 0
    /\ UppersServed
    /\ PrefetchesTakable > 0
    /\ LET n == PrefetchesTakable
       IN  /\ inflight_tag_check' = inflight_tag_check \o Restart(SubSeq(internal_PQ, 1, n))
           /\ internal_PQ' = SubSeq(internal_PQ, n + 1, Len(internal_PQ))
           /\ budget' = budget - n
    /\ source' = NumSources + 1
    /\ UNCHANGED <<translateVars, upper, upper_levels, lower, block, MSHR, inflight_fills, phase,
                   share, todo, kept, atLower, asked, answered, others, written,
                   demoted>>

\* issue_translation, of the lookups in flight and then of the stashed ones, while
\* the TLB accepts them.
Untranslated(lookups) ==
    {i \in DOMAIN lookups : ~lookups[i].issued /\ ~lookups[i].translated}

ToIssue(lookups) ==
    {i \in Untranslated(lookups) :
        Cardinality({j \in Untranslated(lookups) : j < i}) < LowerSize - Len(lower_translate.RQ)}

IssuedOf(lookups) ==
    [i \in DOMAIN lookups |-> [lookups[i] EXCEPT !.issued = @ \/ i \in ToIssue(lookups)]]

PagesOf(lookups) ==
    LET asking == Chosen(lookups, ToIssue(lookups))
    IN  [k \in DOMAIN asking |-> PageOf[asking[k].addr]]

ReadyToCheck(pkt) == pkt.wait = 0 /\ pkt.translated

\* Then the ready lookups that are not translated are stashed; of the others, the
\* first MAX_TAG are checked, as far as they are ready.
StartTagChecks ==
    /\ phase = "initiate"
    /\ budget = 0 \/ (UppersServed /\ PrefetchesTakable = 0)
    /\ phase' = "hits"
    /\ budget' = 0 /\ share' = 0 /\ source' = 0 /\ avail' = FALSE
    /\ LET lookups == inflight_tag_check \o translation_stash
           issued == IssuedOf(lookups)
           inflight == SubSeq(issued, 1, Len(inflight_tag_check))
           places == DOMAIN inflight_tag_check
           waiting == {i \in places : issued[i].wait = 0 /\ ~issued[i].translated}
           checks == Chosen(inflight, places \ waiting)
           n == Passing(checks, MaxTag, ReadyToCheck)
       IN  /\ lower_translate' = [lower_translate EXCEPT !.RQ = @ \o PagesOf(lookups)]
           /\ translation_stash' = SubSeq(issued, Len(inflight) + 1, Len(issued))
                 \o Chosen(inflight, waiting)
           /\ todo' = SubSeq(checks, 1, n)
           /\ inflight_tag_check' = SubSeq(checks, n + 1, Len(checks))
    /\ UNCHANGED <<upper, upper_levels, lower, block, MSHR, inflight_fills,
                   internal_PQ, kept, atLower, atTLB, asked, answered, others, written,
                   demoted>>

-----------------------------------------------------------------------------
(* operate(): tag checks. *)

HitWays(a) == {w \in Way : block[SetOf[a]][w] # NoBlock /\ block[SetOf[a]][w].addr = a}

Told(pkt) == [pkt EXCEPT !.told = Min({@ + 1, 2})]

MutantDirtyAssigned(pkt, w) ==
    [block EXCEPT ![SetOf[pkt.addr]][w].dirty = (pkt.type = "WRITE")]

Touched(pkt, w) ==
    [block EXCEPT ![SetOf[pkt.addr]][w].dirty = @ \/ pkt.type = "WRITE"]

\* try_hit finds the line: the replacement policy is told, the upper answered.
TryHit ==
    /\ phase = "hits"
    /\ todo # << >>
    /\ LET pkt == Head(todo)
       IN  /\ HitWays(pkt.addr) # {}
           /\ block' = Touched(pkt, Min(HitWays(pkt.addr)))
           /\ upper' = Responded(upper, pkt)
           /\ written' = IF pkt.type = "WRITE" THEN written \cup {pkt.addr}
                                               ELSE written
    /\ todo' = Tail(todo)
    /\ UNCHANGED <<translateVars, upper_levels, lower, MSHR, inflight_fills, inflight_tag_check,
                   internal_PQ, phase, budget, share, source, kept, atLower,
                   asked, answered, others, demoted>>

\* try_hit does not: the policy is told all the same, and the lookup goes on to
\* the misses.
TryMiss ==
    /\ phase = "hits"
    /\ todo # << >>
    /\ HitWays(Head(todo).addr) = {}
    /\ kept' = Append(kept, Told(Head(todo)))
    /\ todo' = Tail(todo)
    /\ UNCHANGED <<translateVars, upper, upper_levels, lower, block, MSHR, inflight_fills,
                   inflight_tag_check, internal_PQ, phase, budget, share, source,
                   atLower, asked, answered, others, written, demoted>>

StartMisses ==
    /\ phase = "hits"
    /\ todo = << >>
    /\ phase' = "misses"
    /\ todo' = kept
    /\ kept' = << >>
    /\ UNCHANGED <<translateVars, upper, upper_levels, lower, block, MSHR, inflight_fills,
                   inflight_tag_check, internal_PQ, budget, share, source, atLower,
                   asked, answered, others, written, demoted>>

IsWriteback(pkt) == pkt.type = "WRITE" /\ ~MatchOffsetBits

\* handle_write: a writeback is filled at once, whatever is outstanding.
HandleWrite ==
    /\ phase = "misses"
    /\ todo # << >>
    /\ IsWriteback(Head(todo))
    /\ inflight_fills' = Append(inflight_fills, ToFill(Head(todo)))
    /\ written' = written \cup {Head(todo).addr}
    /\ todo' = Tail(todo)
    /\ UNCHANGED <<translateVars, upper, upper_levels, lower, block, MSHR, inflight_tag_check,
                   internal_PQ, phase, budget, share, source, kept, atLower, asked,
                   answered, others, demoted>>

NextMiss == phase = "misses" /\ todo # << >> /\ ~IsWriteback(Head(todo))

InMSHR(pkt) == IndexOf(MSHR, pkt.addr)

MutantInFillsNever(pkt) == 0

InFills(pkt) == IndexOf(inflight_fills, pkt.addr)

\* A write that misses joins written; one that a demand merges with is demoted.
Demotes(f, pkt) == f.type = "WRITE" /\ pkt.type = "LOAD"

\* handle_miss on a line that an MSHR, or else a fill, already stands for.
MergeMiss ==
    /\ NextMiss
    /\ LET pkt == Head(todo)
           m   == InMSHR(pkt)
           f   == InFills(pkt)
       IN  \/ /\ m # 0
              /\ MSHR' = [MSHR EXCEPT ![m] = Merge(@, ToFill(pkt))]
              /\ demoted' = IF Demotes(MSHR[m], pkt) THEN demoted \cup {pkt.addr}
                                                     ELSE demoted
              /\ UNCHANGED inflight_fills
           \/ /\ m = 0 /\ f # 0
              /\ inflight_fills' = [inflight_fills EXCEPT ![f] = Merge(@, ToFill(pkt))]
              /\ demoted' = IF Demotes(inflight_fills[f], pkt)
                              THEN demoted \cup {pkt.addr} ELSE demoted
              /\ UNCHANGED MSHR
    /\ written' = IF Head(todo).type = "WRITE" THEN written \cup {Head(todo).addr}
                                               ELSE written
    /\ todo' = Tail(todo)
    /\ UNCHANGED <<translateVars, upper, upper_levels, lower, block, inflight_tag_check,
                   internal_PQ, phase, budget, share, source, kept, atLower, asked,
                   answered, others>>

NewMiss == NextMiss /\ InMSHR(Head(todo)) = 0 /\ InFills(Head(todo)) = 0

\* mshr_and_forward_packet; a prefetch not to be filled here wants no answer.
ForwardQueue(pkt) == IF PrefetchAsLoad \/ pkt.type # "PREFETCH" THEN "RQ" ELSE "PQ"

Forward(pkt) ==
    [addr |-> pkt.addr, type |-> IF pkt.type = "WRITE" THEN "RFO" ELSE pkt.type,
     ids |-> pkt.ids, respond |-> ~pkt.skip]

CanForward(pkt) ==
    /\ Len(MSHR) < MshrSize
    /\ HasRoom(lower[ForwardQueue(pkt)], LowerSize)

ForwardMiss ==
    /\ NewMiss
    /\ LET pkt == Head(todo)
       IN  /\ CanForward(pkt)
           /\ lower' = Push(lower, ForwardQueue(pkt), Forward(pkt))
           /\ MSHR' = IF pkt.skip THEN MSHR ELSE Append(MSHR, ToFill(pkt))
           /\ written' = IF pkt.type = "WRITE" THEN written \cup {pkt.addr}
                                               ELSE written
    /\ todo' = Tail(todo)
    /\ UNCHANGED <<translateVars, upper, upper_levels, block, inflight_fills, inflight_tag_check,
                   internal_PQ, phase, budget, share, source, kept, atLower, asked,
                   answered, others, demoted>>

\* No MSHR, or the lower queue is full: the lookup waits for the next cycle, when
\* its tag is checked again.
StallMiss ==
    /\ NewMiss
    /\ ~CanForward(Head(todo))
    /\ kept' = Append(kept, Head(todo))
    /\ todo' = Tail(todo)
    /\ UNCHANGED <<translateVars, upper, upper_levels, lower, block, MSHR, inflight_fills,
                   inflight_tag_check, internal_PQ, phase, budget, share, source,
                   atLower, asked, answered, others, written, demoted>>

MutantEndCycleForgets ==
    /\ phase = "misses"
    /\ todo = << >>
    /\ phase' = "outside"
    /\ kept' = << >>
    /\ UNCHANGED <<translateVars, upper, upper_levels, lower, block, MSHR, inflight_fills,
                   inflight_tag_check, internal_PQ, budget, share, source, todo,
                   atLower, asked, answered, others, written, demoted>>

EndCycle ==
    /\ phase = "misses"
    /\ todo = << >>
    /\ phase' = "outside"
    /\ inflight_tag_check' = kept \o inflight_tag_check
    /\ kept' = << >>
    /\ UNCHANGED <<translateVars, upper, upper_levels, lower, block, MSHR, inflight_fills,
                   internal_PQ, budget, share, source, todo, atLower, asked,
                   answered, others, written, demoted>>

Operate ==
    \/ StartCycle
    \/ FinishPacket
    \/ FinishTranslation
    \/ StartFills
    \/ \E w \in Way \cup {Bypass} : HandleFill(w)
    \/ StartInitiate
    \/ \E k \in 1 .. NumSources : InitiateFromUpper(k)
    \/ InitiateFromPrefetches
    \/ StartTagChecks
    \/ TryHit
    \/ TryMiss
    \/ StartMisses
    \/ HandleWrite
    \/ MergeMiss
    \/ ForwardMiss
    \/ StallMiss
    \/ EndCycle

-----------------------------------------------------------------------------
(* The other components, between two calls of operate(). *)

MoreRequests == phase = "outside" /\ Len(asked) + others < MaxRequests

\* A request that wants an answer: a load, or a prefetch of the level above.
Ask(u, q, type, a) ==
    /\ MoreRequests
    /\ <<q, type>> \in {<<"RQ", "LOAD">>, <<"PQ", "PREFETCH">>}
    /\ HasRoom(upper[u][q], UpperSize)
    /\ upper' = [upper EXCEPT ![u] =
                    Push(@, q, [addr |-> a, type |-> type, respond |-> TRUE,
                                ids |-> {Len(asked) + 1}, translated |-> ~Translates])]
    /\ asked' = Append(asked, u)
    /\ UNCHANGED <<translateVars, upper_levels, lower, block, MSHR, inflight_fills,
                   inflight_tag_check, internal_PQ, operateVars, atLower, answered,
                   others, written, demoted>>

\* A writeback or a store, or a prefetch the level above will not fill.
Send(u, q, type, a) ==
    /\ MoreRequests
    /\ <<q, type>> \in {<<"WQ", "WRITE">>, <<"PQ", "PREFETCH">>}
    /\ HasRoom(upper[u][q], UpperSize)
    /\ upper' = [upper EXCEPT ![u] =
                    Push(@, q, [addr |-> a, type |-> type, respond |-> FALSE,
                                ids |-> {}, translated |-> ~Translates])]
    /\ others' = others + 1
    /\ UNCHANGED <<translateVars, upper_levels, lower, block, MSHR, inflight_fills,
                   inflight_tag_check, internal_PQ, operateVars, atLower, asked,
                   answered, written, demoted>>

\* The upper level reads all its responses in its own cycle.
Receive(u) ==
    /\ phase = "outside"
    /\ upper[u].returned # << >>
    /\ answered' = answered \cup
          {i \in DOMAIN asked :
              asked[i] = u /\ \E r \in ToSet(upper[u].returned) : i \in r.ids}
    /\ upper' = [upper EXCEPT ![u].returned = << >>]
    /\ UNCHANGED <<translateVars, upper_levels, lower, block, MSHR, inflight_fills,
                   inflight_tag_check, internal_PQ, operateVars, atLower, asked,
                   others, written, demoted>>

PrefetchRoom == Len(internal_PQ) < PqSize

\* prefetch_line, which the prefetcher calls from its hooks inside operate();
\* nothing reads internal_PQ between the hooks and the next cycle.
PrefetchLine(a, fillThisLevel) ==
    /\ MoreRequests
    /\ PrefetchRoom
    /\ internal_PQ' =
          Append(internal_PQ,
                 [addr |-> a, type |-> "PREFETCH", ids |-> {}, to_return |-> {},
                  skip |-> ~fillThisLevel, wait |-> HitLatency, told |-> 0,
                  translated |-> ~(Translates /\ VirtualPrefetch), issued |-> FALSE])
    /\ others' = others + 1
    /\ UNCHANGED <<translateVars, upper, upper_levels, lower, block, MSHR, inflight_fills,
                   inflight_tag_check, operateVars, atLower, asked, answered,
                   written, demoted>>

\* The lower level accepts the packet at the front of one of its queues.
LowerTake(q) ==
    /\ phase = "outside"
    /\ lower[q] # << >>
    /\ lower' = Pop(lower, q)
    /\ atLower' = IF Head(lower[q]).respond
                    THEN [atLower EXCEPT ![Head(lower[q]).addr] = @ + 1]
                    ELSE atLower
    /\ UNCHANGED <<translateVars, upper, upper_levels, block, MSHR, inflight_fills,
                   inflight_tag_check, internal_PQ, operateVars, asked, answered,
                   others, written, demoted>>

\* It answers, in any order and as late as it likes.
LowerAnswer(a) ==
    /\ phase = "outside"
    /\ atLower[a] > 0
    /\ atLower' = [atLower EXCEPT ![a] = @ - 1]
    /\ lower' = Push(lower, "returned", [addr |-> a, ids |-> {}])
    /\ UNCHANGED <<translateVars, upper, upper_levels, block, MSHR, inflight_fills,
                   inflight_tag_check, internal_PQ, operateVars, asked, answered,
                   others, written, demoted>>

\* The TLB may merge a request with one of the same page, and answers in any order.
TranslateTake ==
    /\ phase = "outside"
    /\ lower_translate.RQ # << >>
    /\ lower_translate' = Pop(lower_translate, "RQ")
    /\ LET page == Head(lower_translate.RQ)
       IN  \/ atTLB' = [atTLB EXCEPT ![page] = @ + 1]
           \/ atTLB[page] > 0 /\ UNCHANGED atTLB
    /\ UNCHANGED <<upper, upper_levels, lower, block, MSHR, inflight_fills,
                   inflight_tag_check, translation_stash, avail, internal_PQ,
                   operateVars, atLower, asked, answered, others, written, demoted>>

TranslateAnswer(page) ==
    /\ phase = "outside"
    /\ atTLB[page] > 0
    /\ atTLB' = [atTLB EXCEPT ![page] = @ - 1]
    /\ lower_translate' = Push(lower_translate, "returned", page)
    /\ UNCHANGED <<upper, upper_levels, lower, block, MSHR, inflight_fills,
                   inflight_tag_check, translation_stash, avail, internal_PQ,
                   operateVars, atLower, asked, answered, others, written, demoted>>

Environment ==
    \/ \E u \in Upper :
          \/ Receive(u)
          \/ \E q \in RequestQueues, type \in Types, a \in Line :
                Ask(u, q, type, a) \/ Send(u, q, type, a)
    \/ \E a \in Line :
          \/ \E fillThisLevel \in BOOLEAN : PrefetchLine(a, fillThisLevel)
          \/ LowerAnswer(a)
    \/ \E q \in RequestQueues : LowerTake(q)
    \/ TranslateTake
    \/ \E page \in Pages : TranslateAnswer(page)

CacheNext == Operate \/ Environment

CacheSpec == CacheInit /\ [][CacheNext]_cacheVars

\* Every component's operate() is called in every cycle of its clock, hence also
\* between two calls of this one, which starts again at once: SF and not WF.
\* Nothing says which queue is served, or which miss is answered, first.
CacheFairness ==
    /\ WF_cacheVars(Operate)
    /\ SF_cacheVars(\E u \in Upper : Receive(u))
    /\ SF_cacheVars(\E q \in RequestQueues : LowerTake(q))
    /\ SF_cacheVars(\E a \in Line : LowerAnswer(a))
    /\ SF_cacheVars(TranslateTake)
    /\ SF_cacheVars(\E page \in Pages : TranslateAnswer(page))

FairCacheSpec == CacheSpec /\ CacheFairness

-----------------------------------------------------------------------------
(* Properties. *)

Checks == inflight_tag_check \o todo \o kept
Lookups == Checks \o translation_stash

\* Types, and the sizes the code relies on: no queue or pool outgrows its
\* configured size, and the lookups in flight stay within MAX_TAG per cycle of
\* HIT_LATENCY (cache.cc:449-451).
CacheTypeOK ==
    /\ \A u \in Upper, q \in RequestQueues :
          /\ upper[u][q] \in Seq(Request)
          /\ Len(upper[u][q]) <= UpperSize
    /\ \A u \in Upper : upper[u].returned \in Seq(Response)
    /\ \A q \in RequestQueues : Len(lower[q]) <= LowerSize
    /\ lower.returned \in Seq(Response)
    /\ block \in [CacheSets -> [Way -> [addr : Line, dirty : BOOLEAN] \cup {NoBlock}]]
    /\ MSHR \in Seq(Fill) /\ Len(MSHR) <= MshrSize
    /\ inflight_fills \in Seq(Fill)
    /\ internal_PQ \in Seq(TagLookup) /\ Len(internal_PQ) <= PqSize
    /\ Lookups \in Seq(TagLookup) /\ Len(Checks) <= MaxTag * HitLatency
    /\ Len(lower_translate.RQ) <= LowerSize
    /\ phase \in {"outside", "returns", "fills", "initiate", "hits", "misses"}
    /\ budget \in 0 .. MaxFill + MaxTag
    /\ atLower \in [Line -> Nat]
    /\ written \in SUBSET Line

Among(entries, a) == Cardinality({i \in DOMAIN entries : entries[i].addr = a})

Wanted(entries, a) ==
    Cardinality({i \in DOMAIN entries : entries[i].addr = a /\ entries[i].respond})

\* Each MSHR stands for exactly one answer the lower level owes or has sent, and
\* no line has two: finish_packet's assertion (cache.cc:612-616) cannot fail,
\* whatever the order of the answers and however the swap and pop of
\* finish_packet shuffle the MSHRs.
AnswersMatchMSHR ==
    \A a \in Line :
        /\ Among(MSHR, a) <= 1
        /\ Among(MSHR, a) = Wanted(lower.RQ, a) + Wanted(lower.PQ, a)
                            + atLower[a] + Among(lower.returned, a)

Holding(entries, i) ==
    Cardinality({j \in DOMAIN entries :
                    i \in entries[j].ids /\ asked[i] \in entries[j].to_return})

Carrying(entries, i) == Cardinality({j \in DOMAIN entries : i \in entries[j].ids})

\* A request that wants an answer is, until it is answered, in exactly one place,
\* and that place knows whom to answer: no path through the queues, the lookups,
\* the MSHRs, their merges and the fills loses it or answers it twice.
EveryRequestOwedOnce ==
    \A i \in DOMAIN asked :
        Carrying(upper[asked[i]].RQ, i) + Carrying(upper[asked[i]].PQ, i)
        + Holding(Lookups, i) + Holding(MSHR, i) + Holding(inflight_fills, i)
        + Carrying(upper[asked[i]].returned, i)
        + (IF i \in answered THEN 1 ELSE 0) = 1

\* A line is in at most one way of its set.
NoDuplicateBlock ==
    \A a \in Line : Cardinality(HitWays(a)) <= 1

CarriesWrite(a) ==
    \/ \E w \in HitWays(a) : block[SetOf[a]][w].dirty
    \/ \E f \in ToSet(MSHR \o inflight_fills) : f.addr = a /\ f.type = "WRITE"

\* Blocks that have been written are marked dirty until they are written back.
WrittenIsDirty == \A a \in written : CarriesWrite(a)

\* The only way to lose a write is a demand miss that merges with the fill which
\* carries it (cache.cc:117): evictions, bypasses, refused writebacks, duplicate
\* fills and hits keep it.
WrittenIsDirtyUnlessMerged == \A a \in written \ demoted : CarriesWrite(a)

\* The replacement policy is told of a tag check once.
ToldOncePerLookup == \A pkt \in ToSet(Lookups) : pkt.told <= 1

\* The translated lookups come first in the stash, so that none waits behind one
\* whose translation is missing; and though can_translate is decided once a cycle,
\* the stash stays within what the MSHRs and the tag checks allow.
StashServesTranslated ==
    /\ \A i, j \in DOMAIN translation_stash :
          (i < j /\ translation_stash[j].translated) => translation_stash[i].translated
    /\ Len(translation_stash) <= MshrSize - 1 + MaxTag * HitLatency

\* A lookup whose translation was asked for has an answer of its page under way,
\* although an answer restarts all lookups of the page, in the stash and in flight,
\* and the TLB may merge two requests.
TranslationUnderWay ==
    \A x \in ToSet(Lookups) :
        (x.issued /\ ~x.translated) =>
            \/ Contains(lower_translate.RQ \o lower_translate.returned, PageOf[x.addr])
            \/ atTLB[PageOf[x.addr]] > 0

\* Every request that wants an answer gets it: once the requests stop (their
\* number is bounded), all are answered, however the MSHRs, the lower queues and
\* the refused writebacks made lookups and fills wait and try again.
EveryRequestAnswered == <>[](answered = DOMAIN asked)
=============================================================================

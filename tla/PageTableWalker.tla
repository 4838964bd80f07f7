--------------------------- MODULE PageTableWalker ---------------------------
(***************************************************************************)
(* PageTableWalker (src/ptw.cc) of one core, on the shared VirtualMemory,  *)
(* with a PSCL for each level but the first, as in the defaults.  One call *)
(* of operate() is a round of its steps; what handle_fill and handle_read  *)
(* put in next_steps goes to MSHR at once, since nobody reads MSHR before  *)
(* the round is over.  data's ready time is the cycles still to wait.      *)
(***************************************************************************)
EXTENDS VirtualMemory, Channel, LRUTable, FiniteSets, SequencesExt

CONSTANTS
    cpu, Upper,
    BlockOf,           \* the block of an offset in a page of the page table
    PSCL_WAY,          \* the ways of each pscl, of one set
    MAX_READ, MAX_FILL, HIT_LATENCY, minor_fault_penalty,
    WalkPages,         \* external: the virtual pages asked for
    UpperSize, LowerSize,    \* external: sizes of the channels
    MaxSame            \* bound on the reads of a block that are not merged

ASSUME PTWAssumption ==
    /\ cpu \in Cpu /\ WalkPages \subseteq VPage /\ IsFiniteSet(Upper)
    /\ pt_levels > 1 /\ {MAX_READ, MAX_FILL, LowerSize} \subseteq Nat \ {0}
    /\ {PSCL_WAY, HIT_LATENCY, minor_fault_penalty} \subseteq Nat

VARIABLES
    MSHR, finished, completed,
    pscl,              \* by the level of its entries
    upper, lower,      \* channels
    pending,           \* external: what the lower level works on
    stage,
    fill_bw,           \* what operate() has left of MAX_FILL
    wait               \* external: per upper, the pages it waits for

walkVars == <<MSHR, finished, completed, pscl>>
externalVars == <<pending, wait>>
ptwVars == <<walkVars, vmem, upper, lower, stage, fill_bw, externalVars>>

CR3Key == <<cpu, pt_levels, << >> >>
CR3_addr == vmem.page_table[CR3Key]
PsclLevels == 1 .. pt_levels - 1

\* The constructor makes the root of the page table.
PTWInit ==
    /\ MSHR = << >> /\ finished = << >> /\ completed = << >>
    /\ pscl = [level \in PsclLevels |-> << >>]
    /\ vmem = get_pte_pa(VirtualMemoryInit, cpu, CHOOSE v \in VPage : TRUE, pt_levels)
    /\ upper = [u \in Upper |-> EmptyChannel] /\ lower = EmptyChannel /\ pending = << >>
    /\ stage = "outside" /\ fill_bw = 0 /\ wait = [u \in Upper |-> {}]

Block(address) == <<address.page, BlockOf[address.offset]>>

\* pscl_indexer
MutantPsclTag(vpage, level) == PteKey(cpu, vpage, level + 1)

PsclTag(vpage, level) == PteKey(cpu, vpage, level)

Smallest(S) == CHOOSE x \in S : \A y \in S : x <= y
Greatest(S) == CHOOSE x \in S : \A y \in S : y <= x
MutantKept(q, indices) == q

Kept(q, indices) ==
    FoldLeftDomain(LAMBDA kept, i : IF i \in indices THEN Append(kept, q[i]) ELSE kept, << >>, q)

Go(from, to) == stage = from /\ stage' = to

-----------------------------------------------------------------------------
(* finish_packet: a response is for all the steps in its block, also those *)
(* that asked for it themselves.                                           *)

Delay(faults) == HIT_LATENCY + (IF faults THEN minor_fault_penalty ELSE 0)

\* The step with its data: the frame of the page, or the next entry to read.
FinishLastStep(vm, m) ==
    [m EXCEPT !.ppage = va_to_pa(vm, cpu, m.vpage).vpage_to_ppage_map[<<cpu, m.vpage>>],
              !.ready = Delay(PageFault(vm, cpu, m.vpage))]

FinishStep(vm, m) ==
    [m EXCEPT !.address = PteAddress(get_pte_pa(vm, cpu, m.vpage, m.level),
                                     cpu, m.vpage, m.level),
              !.ready = Delay(PteFault(vm, cpu, m.vpage, m.level))]

Finish(x, m) ==
    IF m.level = 0
      THEN [x EXCEPT !.vm = va_to_pa(x.vm, cpu, m.vpage),
                     !.completed = Append(@, FinishLastStep(x.vm, m))]
      ELSE [x EXCEPT !.vm = get_pte_pa(x.vm, cpu, m.vpage, m.level),
                     !.finished = Append(@, FinishStep(x.vm, m))]

MutantMatching(mshr, block) ==
    LET all == {i \in DOMAIN mshr : Block(mshr[i].address) = block}
    IN  {i \in all : \A j \in all : i <= j}

Matching(mshr, block) == {i \in DOMAIN mshr : Block(mshr[i].address) = block}

FinishAll(x, mshr, order) == FoldLeft(LAMBDA y, i : Finish(y, mshr[i]), x, order)

\* std::partition keeps no order: those that match finish in any.
FinishPacket ==
    /\ stage = "returns" /\ lower.returned # << >>
    /\ \E order \in SetToSeqs(Matching(MSHR, Head(lower.returned))) :
          LET end == FinishAll([vm |-> vmem, finished |-> finished, completed |-> completed],
                               MSHR, order)
          IN  vmem' = end.vm /\ finished' = end.finished /\ completed' = end.completed
    /\ MSHR' = Kept(MSHR, DOMAIN MSHR \ Matching(MSHR, Head(lower.returned)))
    /\ lower' = Pop(lower, "returned")
    /\ UNCHANGED <<pscl, upper, stage, fill_bw, externalVars>>

NoReturns ==
    /\ Go("returns", "complete") /\ lower.returned = << >>
    /\ fill_bw' = MAX_FILL
    /\ UNCHANGED <<walkVars, vmem, upper, lower, externalVars>>

-----------------------------------------------------------------------------
(* Completed walks are answered, and finished steps go to the next level.   *)

\* get_span_p: the longest prefix, of at most width entries, that is ready.
ReadySpan(queue, width) ==
    Greatest({n \in 0 .. Len(queue) : n <= width /\ \A i \in 1 .. n : queue[i].ready = 0})

\* Each upper level that wants it gets the answer.
AnswerWalk(up, m) ==
    [u \in Upper |->
        IF u \in m.to_return
          THEN Push(up[u], "returned", [vpage |-> m.vpage, ppage |-> m.ppage])
          ELSE up[u]]

Complete ==
    LET n == ReadySpan(completed, fill_bw)
    IN  /\ Go("complete", "fill")
        /\ upper' = FoldLeft(AnswerWalk, upper, SubSeq(completed, 1, n))
        /\ completed' = SubSeq(completed, n + 1, Len(completed))
        /\ fill_bw' = fill_bw - n
        /\ UNCHANGED <<MSHR, finished, pscl, vmem, lower, externalVars>>

\* step_translation asks the lower level, which may refuse.
CanStep(low) == HasRoom(low.RQ, LowerSize)

Step(x, m) == [x EXCEPT !.lower = Push(@, "RQ", Block(m.address)), !.MSHR = Append(@, m)]

\* handle_fill.  The pscl is filled also when the lower level then refuses.
HandleFill ==
    /\ stage = "fill" /\ fill_bw > 0 /\ ReadySpan(finished, 1) = 1
    /\ LET m == Head(finished)
           next == Step([lower |-> lower, MSHR |-> MSHR], [m EXCEPT !.level = @ - 1])
       IN  /\ pscl' = [pscl EXCEPT ![m.level] =
                          fill(@, PSCL_WAY, [tag |-> PsclTag(m.vpage, m.level),
                                             page |-> m.address.page])]
           /\ IF CanStep(lower)
                THEN /\ lower' = next.lower /\ MSHR' = next.MSHR
                     /\ finished' = Tail(finished) /\ fill_bw' = fill_bw - 1
                     /\ UNCHANGED stage
                ELSE stage' = "read" /\ UNCHANGED <<lower, MSHR, finished, fill_bw>>
    /\ UNCHANGED <<completed, vmem, upper, externalVars>>

NoFill ==
    /\ Go("fill", "read")
    /\ fill_bw = 0 \/ ReadySpan(finished, 1) = 0
    /\ UNCHANGED <<walkVars, vmem, upper, lower, fill_bw, externalVars>>

-----------------------------------------------------------------------------
(* handle_read: a walk starts at the lowest level whose pscl hits, else at  *)
(* the root, where it reads at the offset of the level below the root's.    *)

HitLevel(tables, vpage) ==
    LET hits == {level \in PsclLevels : PsclTag(vpage, level) \in Tags(tables[level])}
    IN  IF hits = {} THEN pt_levels - 1 ELSE Smallest(hits)

WalkPage(tables, vpage, level) ==
    IF PsclTag(vpage, level) \in Tags(tables[level])
      THEN EntryOf(tables[level], PsclTag(vpage, level)).page
      ELSE CR3_addr

\* page_number{ptw_addr} is the frame alone: what is left of the address of a page
\* of the page table is the first one in its frame.
FirstPiece(page) == <<page[1], 0>>

Started(tables, vpage, u, level) ==
    [vpage |-> vpage, level |-> level, ppage |-> FirstFrame, ready |-> 0, to_return |-> {u},
     address |-> [page |-> FirstPiece(WalkPage(tables, vpage, level)),
                  offset |-> vpage[level]]]

UsedPscl(tables, vpage) ==
    [level \in PsclLevels |-> check_hit(tables[level], PsclTag(vpage, level))]

\* One request of u.  The pscls are asked, and used, also when the lower level
\* refuses: the request is tried again in the next cycle.
HandleRead(x, u, vpage) ==
    LET asked == [x EXCEPT !.pscl = UsedPscl(x.pscl, vpage)]
    IN  IF x.stop \/ x.bw = 0 THEN x
        ELSE IF ~CanStep(x.lower) THEN [asked EXCEPT !.stop = TRUE]
        ELSE Step([asked EXCEPT !.bw = @ - 1],
                  Started(x.pscl, vpage, u, HitLevel(x.pscl, vpage)))

HandleReads(x, u) ==
    FoldLeft(LAMBDA y, vpage : HandleRead(y, u, vpage), [x EXCEPT !.stop = FALSE], x.upper[u].RQ)

\* The requests of u that start a walk leave its queue.
ReadUpper(x, u) ==
    LET end == HandleReads(x, u)
    IN  [end EXCEPT !.upper[u].RQ = SubSeq(@, x.bw - end.bw + 1, Len(@))]

Read ==
    LET end == FoldLeft(ReadUpper,
                        [lower |-> lower, MSHR |-> MSHR, pscl |-> pscl, upper |-> upper,
                         bw |-> MAX_READ, stop |-> FALSE],
                        SetToSeq(Upper))
    IN  /\ Go("read", "outside")
        /\ lower' = end.lower /\ MSHR' = end.MSHR /\ pscl' = end.pscl /\ upper' = end.upper
        /\ fill_bw' = 0
        /\ UNCHANGED <<finished, completed, vmem, externalVars>>

-----------------------------------------------------------------------------
(* Outside operate(). *)

Waited(queue) == [i \in DOMAIN queue |-> [queue[i] EXCEPT !.ready = IF @ > 0 THEN @ - 1 ELSE 0]]

StartCycle ==
    /\ Go("outside", "returns")
    /\ finished' = Waited(finished) /\ completed' = Waited(completed)
    /\ UNCHANGED <<MSHR, pscl, vmem, upper, lower, fill_bw, externalVars>>

\* An upper level, a TLB, wants an answer, and asks for a page again when it has it.
Request(u, vpage) ==
    /\ stage = "outside" /\ HasRoom(upper[u].RQ, UpperSize) /\ vpage \notin wait[u]
    /\ upper' = [upper EXCEPT ![u] = Push(@, "RQ", vpage)]
    /\ wait' = [wait EXCEPT ![u] = @ \cup {vpage}]
    /\ UNCHANGED <<walkVars, vmem, lower, stage, fill_bw, pending>>

TakeAnswer(u) ==
    /\ stage = "outside" /\ upper[u].returned # << >>
    /\ upper' = [upper EXCEPT ![u] = Pop(@, "returned")]
    /\ wait' = [wait EXCEPT ![u] = @ \ {Head(upper[u].returned).vpage}]
    /\ UNCHANGED <<walkVars, vmem, lower, stage, fill_bw, pending>>

\* The lower level is a cache: requests for a block it already works on may be
\* merged, and then get one response; it answers in any order.
Accept ==
    /\ stage = "outside" /\ lower.RQ # << >>
    /\ lower' = Pop(lower, "RQ")
    /\ LET same == Cardinality({i \in DOMAIN pending : pending[i] = Head(lower.RQ)})
       IN  \/ same < MaxSame /\ pending' = Append(pending, Head(lower.RQ))
           \/ same > 0 /\ UNCHANGED pending
    /\ UNCHANGED <<walkVars, vmem, upper, stage, fill_bw, wait>>

Respond(i) ==
    /\ stage = "outside"
    /\ lower' = Push(lower, "returned", pending[i])
    /\ pending' = RemoveAt(pending, i)
    /\ UNCHANGED <<walkVars, vmem, upper, stage, fill_bw, wait>>

PTWOperate ==
    StartCycle \/ FinishPacket \/ NoReturns \/ Complete \/ HandleFill \/ NoFill \/ Read

PTWNext ==
    \/ PTWOperate
    \/ \E u \in Upper :
          TakeAnswer(u) \/ \E vpage \in WalkPages : Request(u, vpage)
    \/ Accept
    \/ \E i \in DOMAIN pending : Respond(i)

PTWSpec == PTWInit /\ [][PTWNext]_ptwVars

\* operate() is called again and again, and returns; the neighbours take what is
\* at the front of their queues, and no block waits forever.
FairPTWSpec ==
    /\ PTWSpec
    /\ []<><<StartCycle>>_stage
    /\ \A u \in Upper : SF_ptwVars(TakeAnswer(u))
    /\ SF_ptwVars(Accept)
    /\ SF_ptwVars(pending # << >> /\ Respond(1))

-----------------------------------------------------------------------------
(* Properties. *)

StepType == [vpage : VPage, level : 0 .. pt_levels - 1, ppage : Frame \cup {FirstFrame},
             ready : Nat, to_return : SUBSET Upper,
             address : [page : (Frame \cup {FirstFrame}) \X (0 .. PtePages - 1), offset : Offset]]

\* Every step keeps its type, the lower queue its size, and each pscl its ways with
\* a tag of its own.
PTWTypeOK ==
    /\ \A q \in {MSHR, finished, completed} : \A i \in DOMAIN q : q[i] \in StepType
    /\ Len(lower.RQ) <= LowerSize /\ fill_bw \in 0 .. MAX_FILL
    /\ \A level \in PsclLevels :
          /\ Len(pscl[level]) <= PSCL_WAY
          /\ Cardinality(Tags(pscl[level])) = Len(pscl[level])

\* Every step in MSHR has a read of its block under way, although a response may be
\* for another step of the block, and the lower level may merge two reads.
StepsOutstanding ==
    /\ PTWTypeOK
    /\ \A i \in DOMAIN MSHR :
          \/ Contains(lower.RQ, Block(MSHR[i].address))
          \/ Contains(pending, Block(MSHR[i].address))
          \/ Contains(lower.returned, Block(MSHR[i].address))

\* The page of the page table for vpage at a level, once there is one.
InTable(page, vpage, level) ==
    /\ PteKey(cpu, vpage, level) \in DOMAIN vmem.page_table
    /\ page = vmem.page_table[PteKey(cpu, vpage, level)]

ReadsNext(m) == m.level + 1 \in PsclLevels /\ InTable(m.address.page, m.vpage, m.level + 1)

ReadsFirst(m) ==
    \E level \in {m.level} \cup ({m.level + 1} \cap {pt_levels}) :
        /\ PteKey(cpu, m.vpage, level) \in DOMAIN vmem.page_table
        /\ m.address.page = FirstPiece(vmem.page_table[PteKey(cpu, m.vpage, level)])

\* A walk stays with its own page.  What finish_packet gives a step is exactly the page
\* on its path, which handle_fill reads at the next level; a walk that handle_read
\* starts, from a pscl or from CR3, is in the frame of such a page, as its first piece
\* (ptw.cc:69); and the answer is the frame its page has.
WalkStaysOnPath ==
    /\ \A i \in DOMAIN finished :
          InTable(finished[i].address.page, finished[i].vpage, finished[i].level)
    /\ \A i \in DOMAIN MSHR : ReadsNext(MSHR[i]) \/ ReadsFirst(MSHR[i])
    /\ \A u \in Upper : \A i \in DOMAIN upper[u].returned :
          LET answer == upper[u].returned[i]
          IN  answer.ppage = vmem.vpage_to_ppage_map[<<cpu, answer.vpage>>]

\* Each step reads an entry of a page table on its path, wherever the entry came from.
StepsReadTheirTables ==
    \A i \in DOMAIN MSHR :
        \E level \in {MSHR[i].level, MSHR[i].level + 1} :
            InTable(MSHR[i].address.page, MSHR[i].vpage, level)

\* A page that an upper level waits for is in one place: its queue, one step of one
\* walk, or one answer.
WalksOwedOnce ==
    \A u \in Upper, vpage \in WalkPages :
        LET mine(q) == Cardinality({i \in DOMAIN q : q[i].vpage = vpage /\ u \in q[i].to_return})
        IN  mine(MSHR) + mine(finished) + mine(completed)
              + Cardinality({i \in DOMAIN upper[u].RQ : upper[u].RQ[i] = vpage})
              + Cardinality({i \in DOMAIN upper[u].returned : upper[u].returned[i].vpage = vpage})
            = IF vpage \in wait[u] THEN 1 ELSE 0

\* Every walk comes to an end, through refusals of the lower level, merged
\* responses and page faults.
EveryWalkEnds ==
    \A u \in Upper, vpage \in WalkPages : vpage \in wait[u] ~> vpage \notin wait[u]
=============================================================================

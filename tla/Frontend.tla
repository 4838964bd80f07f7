------------------------------ MODULE Frontend ------------------------------
(***************************************************************************)
(* The in-order half of O3_CPU (src/ooo_cpu.cc): instructions are read     *)
(* from the trace and predicted, looked up in the decoded instruction      *)
(* buffer (DIB), fetched from the L1I, decoded, and handed over in program *)
(* order.  One call of operate() is a round of its stages in the order of  *)
(* the code:                                                               *)
(*                                                                         *)
(*   return -> decode -> promote -> fetch -> dib -> init -> outside        *)
(*                                                                         *)
(* Outside, the back end dispatches and executes, and the L1I serves its   *)
(* queue: both external.  What the predictors say is any value.  A time is *)
(* the number of cycles still to wait.                                     *)
(***************************************************************************)
EXTENDS Instruction, Channel, LRUTable, FiniteSets, SequencesExt

CONSTANTS
    Programs,    \* traces: instructions with their line and their DIB window
    Configs      \* sizes, widths and latencies, and whether this is warmup

VARIABLES
    cfg, program,
    initialized,       \* instructions taken from input_queue
    IFETCH_BUFFER, DIB_HIT_BUFFER, DECODE_BUFFER, DISPATCH_BUFFER,
    DIB,               \* one set
    L1I,               \* the channel of L1I_bus
    fetch_resume,      \* cycles to fetch_resume_time
    budget,            \* instrs_to_read_this_cycle
    stage,
    owed,              \* external: reads the L1I has taken and not answered
    dispatched,        \* external: how many instructions the back end has taken
    executing          \* external: those it has not completed

configVars == <<cfg, program>>
bufferVars == <<IFETCH_BUFFER, DIB_HIT_BUFFER, DECODE_BUFFER, DISPATCH_BUFFER>>
fetchVars == <<initialized, fetch_resume, budget, DIB>>
externalVars == <<owed, dispatched, executing>>
frontendVars == <<configVars, bufferVars, fetchVars, L1I, stage, externalVars>>

Never == 99   \* time_point::max()

ASSUME FrontendAssumption ==
    /\ \A trace \in Programs : trace \in Seq(Range(trace))
    /\ \A config \in Configs :
          /\ {config.FETCH_WIDTH, config.DECODE_WIDTH, config.DIB_INORDER_WIDTH,
              config.L1I_BANDWIDTH, config.IFETCH_BUFFER_SIZE, config.DIB_HIT_BUFFER_SIZE,
              config.DECODE_BUFFER_SIZE, config.DISPATCH_BUFFER_SIZE, config.DIB_WAY,
              config.RQ_SIZE, config.DIB_HIT_LATENCY, config.DECODE_LATENCY,
              config.DISPATCH_LATENCY} \subseteq Nat
          /\ config.BRANCH_MISPREDICT_PENALTY \in 0 .. Never - 1

Least(a, b) == IF a < b THEN a ELSE b

\* get_span_p: how many entries from the front satisfy the predicate, n at most.
SpanOf(s, n, P(_)) ==
    Cardinality({k \in 1 .. Len(s) : k <= n /\ \A i \in 1 .. k : P(s[i])})

Go(from, to) == stage = from /\ stage' = to

FrontendInit ==
    /\ cfg \in Configs /\ program \in Programs
    /\ initialized = 0 /\ fetch_resume = 0 /\ budget = 0
    /\ IFETCH_BUFFER = << >> /\ DIB_HIT_BUFFER = << >>
    /\ DECODE_BUFFER = << >> /\ DISPATCH_BUFFER = << >>
    /\ DIB = << >> /\ L1I = EmptyChannel /\ owed = << >>
    /\ dispatched = 0 /\ executing = {}
    /\ stage = "outside"

-----------------------------------------------------------------------------
(* handle_memory_return, the L1I's part: a response completes the           *)
(* instructions that wait for it, FETCH_WIDTH of them a cycle at most.      *)

Fetched(instr, response) == program[instr.id].line = response.line /\ instr.issued

WaitingFor(buffer, response, id) ==
    {i \in DOMAIN buffer : buffer[i].id = id /\ Fetched(buffer[i], response)}

Complete(buffer, found) ==
    [i \in DOMAIN buffer |-> IF i \in found THEN [buffer[i] EXCEPT !.completed = TRUE]
                             ELSE buffer[i]]

\* One id of the response at the front: bandwidth is for those still waiting.
ReturnOne(response, x, id) ==
    LET found == WaitingFor(x.buffer, response, id)
    IN  IF x.bw = 0 THEN [x EXCEPT !.rest = Append(x.rest, id)]
        ELSE [x EXCEPT !.buffer = Complete(x.buffer, found), !.bw = x.bw - Cardinality(found)]

ReturnIds(response, x, ids) == FoldLeft(LAMBDA y, id : ReturnOne(response, y, id), x, ids)

MutantLeftOver(returned, rest) == Tail(returned)

\* A response of which some instructions are left stays at the front.
LeftOver(returned, rest) ==
    IF rest = << >> THEN Tail(returned)
    ELSE [returned EXCEPT ![1] = [returned[1] EXCEPT !.ids = rest]]

ReturnResponse(x, k) ==
    IF x.bw = 0 \/ x.returned = << >> THEN x
    ELSE LET response == Head(x.returned)
             end == ReturnIds(response, [x EXCEPT !.rest = << >>], response.ids)
         IN  [end EXCEPT !.returned = LeftOver(x.returned, end.rest)]

MemoryReturn ==
    LET end == FoldLeft(ReturnResponse,
                        [returned |-> L1I.returned, buffer |-> IFETCH_BUFFER,
                         bw |-> cfg.FETCH_WIDTH, rest |-> << >>],
                        [k \in 1 .. cfg.L1I_BANDWIDTH |-> k])
    IN  /\ Go("return", "decode")
        /\ IFETCH_BUFFER' = end.buffer /\ L1I' = [L1I EXCEPT !.returned = end.returned]
        /\ UNCHANGED <<DIB_HIT_BUFFER, DECODE_BUFFER, DISPATCH_BUFFER, fetchVars,
                       configVars, externalVars>>

-----------------------------------------------------------------------------
(* decode_instruction: the two buffers are merged into program order.       *)

MutantFromDIB(x) == x.dib # << >>

FromDIB(x) == /\ x.dib # << >>
              /\ x.dec = << >> \/ Head(x.dib).id < Head(x.dec).id

\* One step of its three loops: the older of the two fronts, if it is ready.
TakeOldest(x, k) ==
    IF FromDIB(x)
      THEN IF Head(x.dib).ready = 0
             THEN [x EXCEPT !.dib = Tail(@), !.out = Append(@, Head(x.dib))] ELSE x
    ELSE IF x.dec # << >> /\ x.bw > 0 /\ Head(x.dec).ready = 0
      THEN [x EXCEPT !.dec = Tail(@), !.out = Append(@, Head(x.dec)), !.bw = @ - 1]
    ELSE x

Kind(instr) == branch(program[instr.id])

\* These branches detect the misprediction at decode.
ResumesAtDecode(instr) ==
    /\ ~instr.decoded /\ instr.mispredicted
    /\ \/ Kind(instr) \in {"DIRECT_JUMP", "DIRECT_CALL"}
       \/ /\ Kind(instr) \in {"CONDITIONAL", "OTHER"}
          /\ branch_taken(program[instr.id]) = instr.prediction

MutantDecoded(instr) ==
    [instr EXCEPT !.ready = IF cfg.warmup THEN 0 ELSE cfg.DISPATCH_LATENCY]

Decoded(instr) ==
    [instr EXCEPT !.mispredicted = @ /\ ~ResumesAtDecode(instr),
                  !.ready = IF cfg.warmup THEN 0 ELSE cfg.DISPATCH_LATENCY]

do_dib_update(table, instr) ==
    IF instr.decoded THEN table
    ELSE fill(table, cfg.DIB_WAY, [tag |-> program[instr.id].window])

Decode ==
    LET width == Least(cfg.DIB_INORDER_WIDTH, cfg.DISPATCH_BUFFER_SIZE - Len(DISPATCH_BUFFER))
        end == FoldLeft(TakeOldest, [dib |-> DIB_HIT_BUFFER, dec |-> DECODE_BUFFER,
                                     out |-> << >>, bw |-> cfg.DECODE_WIDTH],
                        [k \in 1 .. width |-> k])
    IN  /\ Go("decode", "promote")
        /\ DIB_HIT_BUFFER' = end.dib /\ DECODE_BUFFER' = end.dec
        /\ DISPATCH_BUFFER' = DISPATCH_BUFFER \o [i \in DOMAIN end.out |-> Decoded(end.out[i])]
        /\ DIB' = FoldLeft(do_dib_update, DIB, end.out)
        /\ fetch_resume' = IF \E i \in DOMAIN end.out : ResumesAtDecode(end.out[i])
                             THEN cfg.BRANCH_MISPREDICT_PENALTY ELSE fetch_resume
        /\ UNCHANGED <<IFETCH_BUFFER, initialized, budget, L1I, configVars, externalVars>>

-----------------------------------------------------------------------------
(* promote_to_decode, fetch_instruction and check_dib.                      *)

IsCompleted(instr) == instr.completed

PromoteRoom == Least(cfg.DIB_HIT_BUFFER_SIZE - Len(DIB_HIT_BUFFER),
                     cfg.DECODE_BUFFER_SIZE - Len(DECODE_BUFFER))

\* A decoded instruction goes by way of the DIB.
PromoteOne(x, instr) ==
    IF instr.decoded
      THEN [x EXCEPT !.dib = Append(@, [instr EXCEPT !.ready = cfg.DIB_HIT_LATENCY])]
      ELSE [x EXCEPT !.dec = Append(@, [instr EXCEPT !.ready =
                                           IF cfg.warmup THEN 0 ELSE cfg.DECODE_LATENCY])]

Promote ==
    LET n == SpanOf(IFETCH_BUFFER, Least(cfg.FETCH_WIDTH, PromoteRoom), IsCompleted)
        end == FoldLeft(PromoteOne, [dib |-> DIB_HIT_BUFFER, dec |-> DECODE_BUFFER],
                        SubSeq(IFETCH_BUFFER, 1, n))
    IN  /\ Go("promote", "fetch")
        /\ DIB_HIT_BUFFER' = end.dib /\ DECODE_BUFFER' = end.dec
        /\ IFETCH_BUFFER' = SubSeq(IFETCH_BUFFER, n + 1, Len(IFETCH_BUFFER))
        /\ UNCHANGED <<DISPATCH_BUFFER, fetchVars, L1I, configVars, externalVars>>

\* A chunk: from the first instruction to fetch, as far as the line is the same.
ToFetch(buffer) == {i \in DOMAIN buffer : buffer[i].dib_checked /\ ~buffer[i].issued}

Line(instr) == program[instr.id].line

FirstToFetch(buffer) == CHOOSE i \in ToFetch(buffer) : \A j \in ToFetch(buffer) : i <= j

Chunk(buffer) ==
    {i \in FirstToFetch(buffer) .. Len(buffer) :
        \A j \in FirstToFetch(buffer) .. i : Line(buffer[j]) = Line(buffer[FirstToFetch(buffer)])}

Mark(buffer, chunk) ==
    [i \in DOMAIN buffer |-> IF i \in chunk THEN [buffer[i] EXCEPT !.issued = TRUE]
                             ELSE buffer[i]]

Asked(x, chunk) ==
    LET before == FirstToFetch(x.buffer) - 1
    IN  Append(x.rq, [line |-> Line(x.buffer[before + 1]),
                      ids |-> [i \in 1 .. Cardinality(chunk) |-> x.buffer[before + i].id]])

MutantFetchChunk(x, k) ==
    IF ToFetch(x.buffer) = {} THEN x
    ELSE [rq |-> IF Len(x.rq) >= cfg.RQ_SIZE THEN x.rq ELSE Asked(x, Chunk(x.buffer)),
          buffer |-> Mark(x.buffer, Chunk(x.buffer))]

\* A refused read is tried again in the next cycle.
FetchChunk(x, k) ==
    IF ToFetch(x.buffer) = {} \/ Len(x.rq) >= cfg.RQ_SIZE THEN x
    ELSE [rq |-> Asked(x, Chunk(x.buffer)), buffer |-> Mark(x.buffer, Chunk(x.buffer))]

Fetch ==
    LET end == FoldLeft(FetchChunk, [rq |-> L1I.RQ, buffer |-> IFETCH_BUFFER],
                        [k \in 1 .. cfg.L1I_BANDWIDTH |-> k])
    IN  /\ Go("fetch", "dib")
        /\ L1I' = [L1I EXCEPT !.RQ = end.rq] /\ IFETCH_BUFFER' = end.buffer
        /\ UNCHANGED <<DIB_HIT_BUFFER, DECODE_BUFFER, DISPATCH_BUFFER, fetchVars, configVars,
                       externalVars>>

\* A hit needs neither the L1I nor the decoder, although it may be fetched.
Checked(instr, hit) ==
    [instr EXCEPT !.dib_checked = TRUE, !.completed = @ \/ hit, !.decoded = @ \/ hit]

do_check_dib(x, i) ==
    LET window == program[x.buffer[i].id].window
    IN  [dib |-> check_hit(x.dib, window),
         buffer |-> [x.buffer EXCEPT ![i] = Checked(x.buffer[i], window \in Tags(x.dib))]]

CheckDIB ==
    LET checked == SpanOf(IFETCH_BUFFER, Len(IFETCH_BUFFER), LAMBDA instr : instr.dib_checked)
        width == Least(cfg.FETCH_WIDTH, Len(IFETCH_BUFFER) - checked)
        end == FoldLeft(do_check_dib, [dib |-> DIB, buffer |-> IFETCH_BUFFER],
                        [i \in 1 .. width |-> checked + i])
    IN  /\ Go("dib", "init")
        /\ DIB' = end.dib /\ IFETCH_BUFFER' = end.buffer
        /\ budget' = Least(cfg.FETCH_WIDTH, cfg.IFETCH_BUFFER_SIZE - Len(IFETCH_BUFFER))
        /\ UNCHANGED <<DIB_HIT_BUFFER, DECODE_BUFFER, DISPATCH_BUFFER, initialized,
                       fetch_resume, L1I, configVars, externalVars>>

-----------------------------------------------------------------------------
(* initialize_instruction, one instruction of the trace at a time.          *)

\* do_predict_branch: the target the front end follows, and the one of the trace.
PredictedTarget(direction, btb) == IF direction THEN btb ELSE "zero"
branch_target(instr) == IF branch_taken(instr) THEN "target" ELSE "zero"

Mispredicts(instr, direction, btb) ==
    /\ is_branch(instr)
    /\ \/ PredictedTarget(direction, btb) # branch_target(instr)
       \/ branch(instr) \in {"CONDITIONAL", "OTHER"} /\ branch_taken(instr) # direction

CanInitialize == fetch_resume = 0 /\ budget > 0 /\ initialized < Len(program)

InitializeInstruction(direction, btb) ==
    LET id == initialized + 1
        instr == program[id]
        stops == Mispredicts(instr, direction, btb) /\ ~cfg.warmup
        follows == is_branch(instr) /\ ~Mispredicts(instr, direction, btb) /\ branch_taken(instr)
    IN  /\ stage = "init" /\ CanInitialize
        /\ initialized' = id
        /\ IFETCH_BUFFER' = Append(IFETCH_BUFFER,
              [id |-> id, dsts |-> IF cfg.warmup THEN {} ELSE do_stack_pointer_folding(instr).dsts,
               prediction |-> is_branch(instr) /\ direction, mispredicted |-> stops,
               dib_checked |-> FALSE, issued |-> FALSE, completed |-> FALSE,
               decoded |-> FALSE, ready |-> 0])
        /\ fetch_resume' = IF stops THEN Never ELSE fetch_resume
        /\ budget' = IF stops \/ follows THEN 0 ELSE budget - 1
        /\ UNCHANGED <<DIB_HIT_BUFFER, DECODE_BUFFER, DISPATCH_BUFFER, DIB, L1I, stage,
                       configVars, externalVars>>

Passed(t) == IF t \in {0, Never} THEN t ELSE t - 1
AllPassed(instrs) == [i \in DOMAIN instrs |-> [instrs[i] EXCEPT !.ready = Passed(@)]]

\* operate() returns, and the clock moves on before the next.
EndCycle ==
    /\ Go("init", "outside") /\ ~CanInitialize
    /\ budget' = 0 /\ fetch_resume' = Passed(fetch_resume)
    /\ DIB_HIT_BUFFER' = AllPassed(DIB_HIT_BUFFER) /\ DECODE_BUFFER' = AllPassed(DECODE_BUFFER)
    /\ DISPATCH_BUFFER' = AllPassed(DISPATCH_BUFFER)
    /\ UNCHANGED <<IFETCH_BUFFER, initialized, DIB, L1I, configVars, externalVars>>

-----------------------------------------------------------------------------
(* Outside. *)

StartCycle ==
    /\ Go("outside", "return")
    /\ UNCHANGED <<bufferVars, fetchVars, L1I, configVars, externalVars>>

\* dispatch_instruction takes the front of DISPATCH_BUFFER when it has room.
Dispatch ==
    /\ stage = "outside" /\ DISPATCH_BUFFER # << >> /\ Head(DISPATCH_BUFFER).ready = 0
    /\ DISPATCH_BUFFER' = Tail(DISPATCH_BUFFER)
    /\ dispatched' = dispatched + 1
    /\ executing' = executing \cup {Head(DISPATCH_BUFFER)}
    /\ UNCHANGED <<IFETCH_BUFFER, DIB_HIT_BUFFER, DECODE_BUFFER, fetchVars, L1I, stage, owed,
                   configVars>>

\* do_complete_execution, of any instruction.
CompleteExecution(instr) ==
    /\ stage = "outside" /\ instr \in executing
    /\ executing' = executing \ {instr}
    /\ fetch_resume' = IF instr.mispredicted THEN cfg.BRANCH_MISPREDICT_PENALTY ELSE fetch_resume
    /\ UNCHANGED <<bufferVars, initialized, budget, DIB, L1I, stage, owed, dispatched, configVars>>

\* The L1I may merge a read with one of the same line, and answers in any order.
L1ITake ==
    /\ stage = "outside" /\ L1I.RQ # << >>
    /\ L1I' = Pop(L1I, "RQ")
    /\ LET read == Head(L1I.RQ)
       IN  \/ owed' = Append(owed, read)
           \/ \E k \in DOMAIN owed :
                 /\ owed[k].line = read.line
                 /\ owed' = [owed EXCEPT ![k].ids = @ \o read.ids]
    /\ UNCHANGED <<bufferVars, fetchVars, stage, dispatched, executing, configVars>>

L1IAnswer ==
    /\ stage = "outside"
    /\ \E k \in DOMAIN owed :
          L1I' = Push(L1I, "returned", owed[k]) /\ owed' = RemoveAt(owed, k)
    /\ UNCHANGED <<bufferVars, fetchVars, stage, dispatched, executing, configVars>>

FrontendOperate ==
    \/ StartCycle \/ MemoryReturn \/ Decode \/ Promote \/ Fetch \/ CheckDIB
    \/ \E direction \in BOOLEAN, btb \in {"zero", "target", "wrong"} :
          InitializeInstruction(direction, btb)
    \/ EndCycle

FrontendNext ==
    \/ FrontendOperate
    \/ Dispatch
    \/ \E instr \in executing : CompleteExecution(instr)
    \/ L1ITake \/ L1IAnswer

FrontendSpec == FrontendInit /\ [][FrontendNext]_frontendVars

\* operate() is called again and again, and returns; the back end and the L1I take
\* and finish what they are given, some time.
FairFrontendSpec ==
    /\ FrontendSpec
    /\ []<><<StartCycle>>_stage
    /\ SF_frontendVars(Dispatch)
    /\ SF_frontendVars(\E instr \in executing : CompleteExecution(instr))
    /\ SF_frontendVars(L1ITake) /\ SF_frontendVars(L1IAnswer)

-----------------------------------------------------------------------------
(* Properties. *)

\* No buffer outgrows its size, though each is filled by a stage that computes its
\* room from several of them, and the DIB has a window once.
BuffersBounded ==
    /\ Len(IFETCH_BUFFER) + budget <= cfg.IFETCH_BUFFER_SIZE \/ budget = 0
    /\ Len(IFETCH_BUFFER) <= cfg.IFETCH_BUFFER_SIZE
    /\ Len(DIB_HIT_BUFFER) <= cfg.DIB_HIT_BUFFER_SIZE
    /\ Len(DECODE_BUFFER) <= cfg.DECODE_BUFFER_SIZE
    /\ Len(DISPATCH_BUFFER) <= cfg.DISPATCH_BUFFER_SIZE
    /\ Len(L1I.RQ) <= cfg.RQ_SIZE
    /\ Len(DIB) <= cfg.DIB_WAY /\ Cardinality(Tags(DIB)) = Len(DIB)

Ids(buffer) == [i \in DOMAIN buffer |-> buffer[i].id]

\* The DIB lets instructions overtake others in the decoder, and the merge puts them
\* back: what has been dispatched is a prefix of the program, and every instruction
\* after it is in one buffer, the oldest of them in DISPATCH_BUFFER, and no buffer
\* is too full.
ProgramOrderRestored ==
    LET merged == DIB_HIT_BUFFER \o DECODE_BUFFER
        k == dispatched + Len(DISPATCH_BUFFER)
        m == k + Len(merged)
    IN  /\ BuffersBounded
        /\ Ids(DISPATCH_BUFFER) = [i \in 1 .. Len(DISPATCH_BUFFER) |-> dispatched + i]
        /\ {merged[i].id : i \in DOMAIN merged} = k + 1 .. m
        /\ Ids(IFETCH_BUFFER) = [i \in 1 .. Len(IFETCH_BUFFER) |-> m + i]
        /\ m + Len(IFETCH_BUFFER) = initialized

\* An instruction whose line has been asked for is named by a read under way or by a
\* response not yet used up, although responses are split over cycles, merged, and
\* name instructions that have gone by way of the DIB.
FetchIsOutstanding ==
    LET reads == L1I.RQ \o owed \o L1I.returned
    IN  \A i \in DOMAIN IFETCH_BUFFER :
           (IFETCH_BUFFER[i].issued /\ ~IFETCH_BUFFER[i].completed) =>
              \E k \in DOMAIN reads : /\ reads[k].line = Line(IFETCH_BUFFER[i])
                                      /\ Contains(reads[k].ids, IFETCH_BUFFER[i].id)

\* Fetch stands still exactly while one mispredicted branch is on its way to the
\* stage that finds out, decode or execution: it is restarted once.
StoppedFetchHasCause ==
    LET waiting == DISPATCH_BUFFER \o DIB_HIT_BUFFER \o DECODE_BUFFER \o IFETCH_BUFFER
    IN  Cardinality({i \in DOMAIN waiting : waiting[i].mispredicted})
          + Cardinality({instr \in executing : instr.mispredicted})
        = IF fetch_resume = Never THEN 1 ELSE 0

\* The whole program goes through the front end, whatever is predicted, and with the
\* smallest buffers.
EveryInstructionDelivered == <>(dispatched = Len(program) /\ executing = {})
=============================================================================

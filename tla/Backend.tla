------------------------------ MODULE Backend -------------------------------
(***************************************************************************)
(* The out-of-order half of O3_CPU (src/ooo_cpu.cc): reorder buffer, load  *)
(* and store queues, register renaming, and the bus to the L1D.  One call  *)
(* of operate() is a round through the stages, in the order of the code:   *)
(*                                                                         *)
(*   retire -> complete -> execute -> schedule -> return -> lsq ->         *)
(*   dispatch -> outside                                                   *)
(*                                                                         *)
(* Outside, the front end hands over the next instruction of the program   *)
(* and the L1D serves its queues: both are external, and as slow as they   *)
(* like.  An instruction is named by its place in the program; a time is   *)
(* the number of cycles still to wait.                                     *)
(***************************************************************************)
EXTENDS RegisterAllocator, Channel, FiniteSets, SequencesExt

CONSTANTS
    Programs,    \* instruction sequences to run
    Configs,     \* sizes, widths and latencies of the core
    Addresses,   \* virtual addresses of loads and stores
    BlockOf(_),  \* block_number of an address
    Never,       \* time_point::max(), and the producer_id of a load that waits for none
    NoEntry      \* a free slot of the load queue

Instruction == [srcs : Seq(ArchRegs), dsts : Seq(ArchRegs),
                loads : Seq(Addresses), stores : Seq(Addresses)]

Core == [ROB_SIZE : Nat, LQ_SIZE : Nat, SQ_SIZE : Nat, RQ_SIZE : Nat, WQ_SIZE : Nat,
         DISPATCH_WIDTH : Nat, SCHEDULER_SIZE : Nat, EXEC_WIDTH : Nat, RETIRE_WIDTH : Nat,
         LQ_WIDTH : Nat, SQ_WIDTH : Nat, L1D_BANDWIDTH : Nat,
         SCHEDULING_LATENCY : 0 .. Never - 1, EXEC_LATENCY : 0 .. Never - 1]

LoadEntry == [id : Nat, addr : Addresses, ready : Int, issued : BOOLEAN, producer : Nat]

ASSUME BackendAssumption ==
    /\ Never \in Nat
    /\ Configs \subseteq Core
    /\ Programs \subseteq Seq(Instruction)
    /\ \A p \in Programs : Len(p) < Never
    /\ NoEntry \notin LoadEntry

VARIABLES
    cfg,          \* the configuration
    program,      \* the instructions, in program order
    arrived,      \* external: how many of them the front end has delivered
    ROB,          \* instructions dispatched and not retired
    LQ, SQ,       \* loads and stores of the ROB; retired stores not yet written
    ra,           \* reg_allocator
    L1D,          \* the channel of L1D_bus
    owed,         \* external: reads the L1D has taken and not answered
    num_retired,
    stage

configVars == <<cfg, program>>
coreVars == <<ROB, LQ, SQ, ra, num_retired>>
busVars == <<L1D, owed, arrived>>
backendVars == <<configVars, coreVars, busVars, stage>>

Ids == 1 .. Len(program)

NumMemOps(id) == Len(program[id].loads) + Len(program[id].stores)

BackendInit ==
    /\ cfg \in Configs /\ program \in Programs
    /\ arrived = 0 /\ num_retired = 0
    /\ ROB = << >> /\ SQ = << >> /\ LQ = [i \in 1 .. cfg.LQ_SIZE |-> NoEntry]
    /\ ra = FreshAllocator
    /\ L1D = EmptyChannel /\ owed = << >>
    /\ stage = "outside"

\* The first n members of a set of positions: what a loop with a bandwidth takes.
FirstOf(S, n) == {i \in S : Cardinality({j \in S : j < i}) < n}

\* The k-th of them, in order.
Nth(S, k) == CHOOSE i \in S : Cardinality({j \in S : j < i}) = k - 1

\* get_span_p: how many entries from the front satisfy the predicate, n at most.
SpanOf(s, n, P(_)) ==
    Cardinality({k \in 1 .. Len(s) : k <= n /\ \A i \in 1 .. k : P(s[i])})

Ready(x) == x.ready <= 0

-----------------------------------------------------------------------------
(* Retirement, completion, execution and scheduling. *)

Completed(instr) == instr.completed

\* retire_rob: registers commit in program order.
RetireOne(a, instr) == FoldLeft(retire_dest_register, a, instr.dsts)

Retire ==
    LET n == SpanOf(ROB, cfg.RETIRE_WIDTH, Completed)
    IN  /\ stage = "retire" /\ stage' = "complete"
        /\ ra' = FoldLeft(RetireOne, ra, SubSeq(ROB, 1, n))
        /\ ROB' = SubSeq(ROB, n + 1, Len(ROB))
        /\ num_retired' = num_retired + n
        /\ UNCHANGED <<LQ, SQ, busVars, configVars>>

\* complete_inflight_instruction: in any order, once the memory is done.
MutantCompleteEarly(instr) == instr.executed /\ ~instr.completed /\ Ready(instr)

CanComplete(instr) ==
    /\ instr.executed /\ ~instr.completed /\ Ready(instr)
    /\ instr.memops = NumMemOps(instr.id)

Complete ==
    LET done == FirstOf({i \in DOMAIN ROB : CanComplete(ROB[i])}, cfg.EXEC_WIDTH)
        written == UNION {Members(ROB[i].dsts) : i \in done}
    IN  /\ stage = "complete" /\ stage' = "execute"
        /\ ra' = complete_dest_registers(ra, written)
        /\ ROB' = [i \in DOMAIN ROB |-> IF i \in done
                                          THEN [ROB[i] EXCEPT !.completed = TRUE]
                                          ELSE ROB[i]]
        /\ UNCHANGED <<LQ, SQ, num_retired, busVars, configVars>>

\* execute_instruction: whoever has its sources; its loads and stores may start
\* when it is done.
CanExecute(instr) ==
    /\ instr.scheduled /\ ~instr.executed /\ Ready(instr)
    /\ \A k \in DOMAIN instr.srcs : isValid(ra, instr.srcs[k])

Execute ==
    LET started == FirstOf({i \in DOMAIN ROB : CanExecute(ROB[i])}, cfg.EXEC_WIDTH)
        ids == {ROB[i].id : i \in started}
    IN  /\ stage = "execute" /\ stage' = "schedule"
        /\ ROB' = [i \in DOMAIN ROB |->
                     IF i \in started
                       THEN [ROB[i] EXCEPT !.executed = TRUE, !.ready = cfg.EXEC_LATENCY]
                       ELSE ROB[i]]
        /\ LQ' = [s \in DOMAIN LQ |->
                    IF LQ[s] # NoEntry /\ LQ[s].id \in ids
                      THEN [LQ[s] EXCEPT !.ready = cfg.EXEC_LATENCY] ELSE LQ[s]]
        /\ SQ' = [i \in DOMAIN SQ |->
                    IF SQ[i].id \in ids
                      THEN [SQ[i] EXCEPT !.ready = cfg.EXEC_LATENCY] ELSE SQ[i]]
        /\ UNCHANGED <<ra, num_retired, busVars, configVars>>

\* do_scheduling: the sources are renamed, then the destinations.
RenameSources(a, instr) ==
    LET end == FoldLeft(rename_src_register, a, instr.srcs)
    IN  [ra |-> end, out |-> [k \in DOMAIN instr.srcs |-> end.frontend[instr.srcs[k]]]]

RenameDests(a, instr) ==
    [ra  |-> FoldLeft(LAMBDA x, reg : rename_dest_register(x, reg, instr.id), a, instr.dsts),
     out |-> SubSeq(a.free, 1, Len(instr.dsts))]

Scheduled(instr, srcs, dsts) ==
    [instr EXCEPT !.srcs = srcs, !.dsts = dsts, !.scheduled = TRUE]

MutantDestsFirst(a, instr) ==
    LET d == RenameDests(a, instr)
        s == RenameSources(d.ra, instr)
    IN  [ra |-> s.ra, instr |-> Scheduled(instr, s.out, d.out)]

do_scheduling(a, instr) ==
    LET s == RenameSources(a, instr)
        d == RenameDests(s.ra, instr)
    IN  [ra |-> d.ra, instr |-> Scheduled(instr, s.out, d.out)]

\* The check is asked of every instruction met, also of those scheduled before,
\* whose registers are physical ones by now.
RegistersFor(a, instr) ==
    Cardinality({k \in DOMAIN instr.srcs : ~isAllocated(a, instr.srcs[k])})
        + Len(instr.dsts)

\* schedule_instruction: a window of SCHEDULER_SIZE unexecuted instructions.
ScheduleOne(x, i) ==
    LET instr == x.rob[i]
        new == do_scheduling(x.ra, instr)
        now == ~instr.scheduled /\ Ready(instr)
    IN  IF x.stop \/ x.width = 0
           \/ count_free_registers(x.ra) < RegistersFor(x.ra, instr)
          THEN [x EXCEPT !.stop = TRUE]
          ELSE [ra    |-> IF now THEN new.ra ELSE x.ra,
                rob   |-> IF now THEN [x.rob EXCEPT ![i] = new.instr] ELSE x.rob,
                stop  |-> FALSE,
                width |-> IF instr.executed THEN x.width ELSE x.width - 1]

Schedule ==
    LET end == FoldLeft(ScheduleOne,
                        [ra |-> ra, rob |-> ROB, stop |-> FALSE, width |-> cfg.SCHEDULER_SIZE],
                        [i \in 1 .. Len(ROB) |-> i])
    IN  /\ stage = "schedule" /\ stage' = "return"
        /\ ra' = end.ra /\ ROB' = end.rob
        /\ UNCHANGED <<LQ, SQ, num_retired, busVars, configVars>>

-----------------------------------------------------------------------------
(* Memory. *)

\* LSQ_ENTRY::finish for a set of loads and a set of stores.
Finish(rob, loads, stores) ==
    [i \in DOMAIN rob |->
        [rob[i] EXCEPT !.memops = @ + Cardinality({s \in loads : LQ[s].id = rob[i].id})
                                    + Cardinality({j \in stores : SQ[j].id = rob[i].id})]]

\* handle_memory_return: a response finishes every issued load of its block.
LoadsOf(block) ==
    {s \in DOMAIN LQ : LQ[s] # NoEntry /\ LQ[s].issued /\ BlockOf(LQ[s].addr) = block}

MemoryReturn ==
    LET n == IF Len(L1D.returned) < cfg.L1D_BANDWIDTH
               THEN Len(L1D.returned) ELSE cfg.L1D_BANDWIDTH
        slots == UNION {LoadsOf(L1D.returned[k]) : k \in 1 .. n}
    IN  /\ stage = "return" /\ stage' = "lsq"
        /\ ROB' = Finish(ROB, slots, {})
        /\ LQ' = [s \in DOMAIN LQ |-> IF s \in slots THEN NoEntry ELSE LQ[s]]
        /\ L1D' = [L1D EXCEPT !.returned = SubSeq(@, n + 1, Len(@))]
        /\ UNCHANGED <<SQ, ra, num_retired, owed, arrived, configVars>>

\* operate_lsq, first part: stores issue in program order, and release the loads
\* that wait for them (do_finish_store).
CanIssue(store) == ~store.issued /\ Ready(store)

Issued(store) == store.issued

\* Second part: issued stores of retired instructions are written, in order,
\* with what is left of the width and while the write queue has room.
MutantCompleteId == IF ROB = << >> THEN 0 ELSE ROB[1].id

complete_id == IF ROB = << >> THEN Never ELSE ROB[1].id

MayWrite(store) == store.id < complete_id /\ Ready(store)

Smaller(a, b) == IF a < b THEN a ELSE b

OperateLSQ ==
    LET first == SpanOf(SQ, Len(SQ), Issued)
        rest == SubSeq(SQ, first + 1, Len(SQ))
        n == SpanOf(rest, cfg.SQ_WIDTH, CanIssue)
        issue == first + 1 .. first + n
        woken == UNION {SQ[i].waiters : i \in issue}
        stores == [i \in DOMAIN SQ |->
                     IF i \in issue THEN [SQ[i] EXCEPT !.issued = TRUE, !.ready = 0]
                     ELSE SQ[i]]
        w == SpanOf(stores, Smaller(cfg.SQ_WIDTH - n, cfg.WQ_SIZE - Len(L1D.WQ)), MayWrite)
        lq == [s \in DOMAIN LQ |-> IF s \in woken THEN NoEntry ELSE LQ[s]]
        reads == FirstOf({s \in DOMAIN lq : /\ lq[s] # NoEntry
                                            /\ lq[s].producer = Never
                                            /\ ~lq[s].issued /\ lq[s].ready < 0},
                         Smaller(cfg.LQ_WIDTH, cfg.RQ_SIZE - Len(L1D.RQ)))
    IN  /\ stage = "lsq" /\ stage' = "dispatch"
        /\ ROB' = Finish(ROB, woken, issue)
        /\ SQ' = SubSeq(stores, w + 1, Len(stores))
        /\ LQ' = [s \in DOMAIN lq |-> IF s \in reads
                                        THEN [lq[s] EXCEPT !.issued = TRUE]
                                        ELSE lq[s]]
        /\ L1D' = [L1D EXCEPT !.WQ = @ \o [i \in 1 .. w |-> stores[i].addr],
                              !.RQ = @ \o [k \in 1 .. Cardinality(reads) |-> lq[Nth(reads, k)].addr]]
        /\ UNCHANGED <<ra, num_retired, owed, arrived, configVars>>

-----------------------------------------------------------------------------
(* Dispatch: a fold whose accumulator holds the queues the loop changes. *)

FreeSlots(lq) == {s \in DOMAIN lq : lq[s] = NoEntry}

MutantForwarderOldest(sq, addr) ==
    LET same == {i \in DOMAIN sq : sq[i].addr = addr}
    IN  {i \in same : \A j \in same : i <= j}

\* The youngest store of the address; of two of one instruction, the first.
Forwarder(sq, addr) ==
    LET same == {i \in DOMAIN sq : sq[i].addr = addr}
    IN  {i \in same : \A j \in same : \/ sq[j].id < sq[i].id
                                      \/ sq[j].id = sq[i].id /\ i <= j}

\* do_memory_scheduling, one load: it is done if the store has its value, waits
\* if the store will have it, and goes to memory otherwise.
NewLoad(id, addr, producer) ==
    [id |-> id, addr |-> addr, ready |-> Never, issued |-> FALSE, producer |-> producer]

AddLoad(x, addr) ==
    LET slot == Min(FreeSlots(x.lq))
        from == Forwarder(x.sq, addr)
        i == CHOOSE i \in from : TRUE
        waited == [x.sq[i] EXCEPT !.waiters = @ \cup {slot}]
    IN  IF from = {}
          THEN [x EXCEPT !.lq = [@ EXCEPT ![slot] = NewLoad(x.id, addr, Never)]]
        ELSE IF x.sq[i].issued THEN [x EXCEPT !.memops = @ + 1]
        ELSE [id |-> x.id, memops |-> x.memops,
              lq |-> [x.lq EXCEPT ![slot] = NewLoad(x.id, addr, x.sq[i].id)],
              sq |-> [x.sq EXCEPT ![i] = waited]]

\* One instruction enters the ROB.
DispatchInto(x, id) ==
    LET instr == program[id]
        m == FoldLeft(AddLoad, [id |-> id, memops |-> 0, lq |-> x.lq, sq |-> x.sq],
                      instr.loads)
    IN  [lq  |-> m.lq,
         sq  |-> m.sq \o [k \in DOMAIN instr.stores |->
                            [id |-> id, addr |-> instr.stores[k], ready |-> Never,
                             issued |-> FALSE, waiters |-> {}]],
         rob |-> Append(x.rob,
                        [id |-> id, ready |-> cfg.SCHEDULING_LATENCY,
                         scheduled |-> FALSE, executed |-> FALSE, completed |-> FALSE,
                         memops |-> m.memops, srcs |-> instr.srcs, dsts |-> instr.dsts])]

HasRoomFor(x, id) ==
    /\ id <= arrived
    /\ Len(x.rob) # cfg.ROB_SIZE
    /\ Cardinality(FreeSlots(x.lq)) >= Len(program[id].loads)
    /\ Len(program[id].stores) + Len(x.sq) <= cfg.SQ_SIZE

\* The next instruction to dispatch, the front of DISPATCH_BUFFER, if there is
\* room: one of up to DISPATCH_WIDTH rounds.
DispatchOne(x, round) ==
    LET next == num_retired + Len(x.rob) + 1
    IN  IF HasRoomFor(x, next) THEN DispatchInto(x, next) ELSE x

Dispatch ==
    LET end == FoldLeft(DispatchOne, [lq |-> LQ, sq |-> SQ, rob |-> ROB],
                        [k \in 1 .. cfg.DISPATCH_WIDTH |-> k])
    IN  /\ stage = "dispatch" /\ stage' = "outside"
        /\ ROB' = end.rob /\ LQ' = end.lq /\ SQ' = end.sq
        /\ UNCHANGED <<ra, num_retired, busVars, configVars>>

-----------------------------------------------------------------------------
(* Outside operate(). *)

Passed(t, floor) == IF t = Never \/ t = floor THEN t ELSE t - 1

\* The clock moves on.  Only a load asks whether its time is strictly past.
StartCycle ==
    /\ stage = "outside" /\ stage' = "retire"
    /\ ROB' = [i \in DOMAIN ROB |-> [ROB[i] EXCEPT !.ready = Passed(@, 0)]]
    /\ SQ' = [i \in DOMAIN SQ |-> [SQ[i] EXCEPT !.ready = Passed(@, 0)]]
    /\ LQ' = [s \in DOMAIN LQ |-> IF LQ[s] = NoEntry THEN NoEntry
                                  ELSE [LQ[s] EXCEPT !.ready = Passed(@, -1)]]
    /\ UNCHANGED <<ra, num_retired, busVars, configVars>>

Arrive ==
    /\ stage = "outside" /\ arrived < Len(program)
    /\ arrived' = arrived + 1
    /\ UNCHANGED <<coreVars, L1D, owed, stage, configVars>>

L1DTakeRead ==
    /\ stage = "outside" /\ L1D.RQ # << >>
    /\ L1D' = Pop(L1D, "RQ") /\ owed' = Append(owed, BlockOf(Head(L1D.RQ)))
    /\ UNCHANGED <<coreVars, arrived, stage, configVars>>

L1DTakeWrite ==
    /\ stage = "outside" /\ L1D.WQ # << >>
    /\ L1D' = Pop(L1D, "WQ")
    /\ UNCHANGED <<coreVars, owed, arrived, stage, configVars>>

\* Answers in any order: a hit overtakes a miss.
L1DAnswer ==
    /\ stage = "outside"
    /\ \E k \in DOMAIN owed :
          /\ L1D' = Push(L1D, "returned", owed[k])
          /\ owed' = RemoveAt(owed, k)
    /\ UNCHANGED <<coreVars, arrived, stage, configVars>>

BackendOperate ==
    \/ StartCycle \/ Retire \/ Complete \/ Execute \/ Schedule
    \/ MemoryReturn \/ OperateLSQ \/ Dispatch

BackendNext ==
    \/ BackendOperate
    \/ Arrive \/ L1DTakeRead \/ L1DTakeWrite \/ L1DAnswer

BackendSpec == BackendInit /\ [][BackendNext]_backendVars

\* operate() is called again and again, and returns: StartCycle is always ahead,
\* so this is its weak fairness and that of every stage.  The front end delivers,
\* and the L1D serves each queue and answers, some time.
BackendFairness ==
    /\ []<><<StartCycle>>_stage
    /\ SF_backendVars(Arrive)
    /\ SF_backendVars(L1DTakeRead)
    /\ SF_backendVars(L1DTakeWrite)
    /\ SF_backendVars(L1DAnswer)

FairBackendSpec == BackendSpec /\ BackendFairness

-----------------------------------------------------------------------------
(* Properties. *)

\* The queues keep their sizes and the order of the program: the asserts of
\* do_memory_scheduling and the binary searches of finish and operate_lsq
\* (partition_point) rely on it.
QueuesInOrder ==
    /\ Len(ROB) <= cfg.ROB_SIZE /\ Len(SQ) <= cfg.SQ_SIZE
    /\ Len(L1D.RQ) <= cfg.RQ_SIZE /\ Len(L1D.WQ) <= cfg.WQ_SIZE
    /\ \A i \in DOMAIN ROB : ROB[i].id = num_retired + i
    /\ \A i, j \in DOMAIN SQ : i < j => /\ SQ[i].id <= SQ[j].id
                                        /\ SQ[j].issued => SQ[i].issued
    /\ \A s \in DOMAIN LQ : LQ[s] # NoEntry => LQ[s].id \in num_retired + 1 .. num_retired + Len(ROB)

\* completed_mem_ops counts every load and store of an instruction exactly once,
\* whether it was answered by the L1D, forwarded at dispatch, released by a
\* store, or shared the response of another load: finish() never meets an
\* instruction twice for one operation, nor one that has retired; and its binary
\* search finds the instruction, for the queues are in order.
MemOpsAccounted ==
    /\ QueuesInOrder
    /\ \A i \in DOMAIN ROB :
          ROB[i].memops + Cardinality({s \in DOMAIN LQ : LQ[s] # NoEntry /\ LQ[s].id = ROB[i].id})
              + Cardinality({j \in DOMAIN SQ : SQ[j].id = ROB[i].id /\ ~SQ[j].issued})
          = NumMemOps(ROB[i].id)
    /\ \A j \in DOMAIN SQ : SQ[j].id <= num_retired => SQ[j].issued

\* A load never goes to memory before an older store of its address has issued,
\* and a load that waits is on the list of a store that will still release it
\* (the asserts of do_finish_store), so its wake-up cannot be lost.
NoLoadPassesItsStore ==
    \A s \in DOMAIN LQ : LQ[s] # NoEntry =>
        /\ \A i \in DOMAIN SQ :
              (SQ[i].addr = LQ[s].addr /\ SQ[i].id < LQ[s].id /\ ~SQ[i].issued)
                 => LQ[s].producer \in SQ[i].id .. LQ[s].id - 1
        /\ LQ[s].producer # Never =>
              /\ ~LQ[s].issued
              /\ \E i \in DOMAIN SQ : /\ SQ[i].id = LQ[s].producer /\ ~SQ[i].issued
                                      /\ SQ[i].addr = LQ[s].addr /\ s \in SQ[i].waiters

\* The results of the instructions in flight, by <<instruction, operand>>.
Results(rob) ==
    UNION {{<<rob[i].id, k>> : k \in DOMAIN rob[i].dsts} :
           i \in {i \in DOMAIN rob : rob[i].scheduled}}

InFlight == [w \in Results(ROB) |-> ROB[w[1] - num_retired].dsts[w[2]]]

\* However scheduling, completion and retirement interleave, a physical register
\* is free, or the result of one instruction in flight, or one committed value.
RegistersAreAccounted == Partitioned(ra, InFlight) /\ FrontendIsLatest(ra, InFlight)

\* Every renamed source names the result of the youngest older instruction that
\* writes its register, or the committed value if those have all retired; an
\* instruction executes only on values that were produced, and the register is
\* not given to another writer before it has retired.
SourcesAreLatestWriters ==
    \A i \in DOMAIN ROB : ROB[i].scheduled =>
        /\ \A j \in 1 .. i : ROB[j].scheduled
        /\ \A k \in DOMAIN ROB[i].srcs :
              LET reg == program[ROB[i].id].srcs[k]
                  writers == {w \in DOMAIN InFlight : /\ w[1] < ROB[i].id
                                                     /\ program[w[1]].dsts[w[2]] = reg}
                  last == CHOOSE w \in writers : \A v \in writers : ~Before(w, v)
              IN  /\ ROB[i].srcs[k] = IF writers = {} THEN ra.backend[reg] ELSE InFlight[last]
                  /\ ROB[i].executed => isValid(ra, ROB[i].srcs[k])

\* Every instruction retires and every store is written, with queues, registers
\* and widths as small as they can be.
EveryInstructionRetires == <>(num_retired = Len(program) /\ SQ = << >>)
=============================================================================

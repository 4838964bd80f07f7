-------------------------------- MODULE DRAM --------------------------------
(***************************************************************************)
(* MEMORY_CONTROLLER with one DRAM_CHANNEL (src/dram_controller.cc).  One  *)
(* call of operate() is a round through its steps, in the order of the     *)
(* code; the upper levels act outside.  Controller and channel have equal  *)
(* clocks.  A time to come is the cycles still to wait; of times past only *)
(* the order matters: the age of a packet and the wait of a bank, zero or  *)
(* less, are ranks.  An upper level is a CACHE: it asks for a line again   *)
(* only when it has the answer.                                            *)
(***************************************************************************)
EXTENDS Channel, Integers, FiniteSets, SequencesExt

CONSTANTS
    Upper, Line,
    NumBanks,          \* the size of bank_request
    BankOf, RowOf,     \* bank_request_index and get_row of a line
    GroupOf,           \* bankgroup_request_index of a bank
    RQ_SIZE, WQ_SIZE,
    tCAS, tRP, tRCD, tRFC, tREF, TURN_AROUND, RETURN, STALL,
    NoPacket, NoRow,
    UpperSize,         \* external: sizes of the upper channels
    MaxWrites          \* bound on the writes sent: see EveryReadAnswered

Banks == 1 .. NumBanks
Groups == {GroupOf[b] : b \in Banks}
NoBank == 0

\* A bank that refreshes all the time would serve nobody.
ASSUME DRAMAssumption ==
    /\ IsFiniteSet(Upper) /\ {NumBanks, UpperSize} \subseteq Nat
    /\ BankOf \in [Line -> Banks] /\ DOMAIN RowOf = Line /\ DOMAIN GroupOf = Banks
    /\ NoRow \notin {RowOf[l] : l \in Line}
    /\ {RQ_SIZE, tCAS, tRFC, RETURN} \subseteq Nat \ {0}
    /\ {tRP, tRCD, TURN_AROUND, STALL, MaxWrites} \subseteq Nat
    /\ WQ_SIZE \in Nat \ {0} /\ tREF \in Nat /\ tRFC < tREF

VARIABLES
    upper,             \* queues: the channel of each upper level
    RQ, WQ,            \* slots of the channel
    bank_request,
    active_request,    \* the bank whose request is on the data bus
    write_mode,
    dbus_cycle_available, bankgroup_readytime,
    refresh_in,        \* cycles to last_refresh + tREF
    warmup,
    stage,
    wait,              \* external: per upper, the lines it waits for
    writes             \* external: writes sent

queueVars == <<upper, RQ, WQ>>
bankVars == <<bank_request, active_request, write_mode, dbus_cycle_available,
              bankgroup_readytime, refresh_in>>
externalVars == <<wait, writes>>
dramVars == <<queueVars, bankVars, warmup, stage, externalVars>>

IdleBank == [valid |-> FALSE, need_refresh |-> FALSE, under_refresh |-> FALSE,
             open_row |-> NoRow, ready |-> 0, write |-> FALSE, pkt |-> 0]

Packet == [line : Line, forward_checked : BOOLEAN, scheduled : BOOLEAN, age : Nat,
           to_return : SUBSET Upper]

ASSUME NoPacketAssumption == NoPacket \notin Packet

DRAMInit ==
    /\ upper = [u \in Upper |-> EmptyChannel]
    /\ RQ = [i \in 1 .. RQ_SIZE |-> NoPacket] /\ WQ = [i \in 1 .. WQ_SIZE |-> NoPacket]
    /\ bank_request = [b \in Banks |-> IdleBank] /\ active_request = NoBank
    /\ write_mode = FALSE /\ dbus_cycle_available = 0
    /\ bankgroup_readytime = [g \in Groups |-> 0]
    /\ refresh_in = tREF /\ warmup \in BOOLEAN /\ stage = "outside"
    /\ wait = [u \in Upper |-> {}] /\ writes = 0

Occupied(q) == {i \in DOMAIN q : q[i] # NoPacket}
Smallest(S) == CHOOSE x \in S : \A y \in S : x <= y
Greatest(S) == CHOOSE x \in S : \A y \in S : y <= x
Slots(q) == [i \in 1 .. Len(q) |-> i]

\* A response goes to every channel of to_return.
Return(up, packet) ==
    [u \in Upper |-> IF u \in packet.to_return THEN Push(up[u], "returned", packet.line)
                     ELSE up[u]]

Go(from, to) == stage = from /\ stage' = to

-----------------------------------------------------------------------------
(* initiate_requests: each upper's reads, prefetches and writes, in order,  *)
(* while there is an empty slot (add_rq, add_wq).                           *)

Add(q, packet, to_return) ==
    [q EXCEPT ![Smallest(DOMAIN q \ Occupied(q))] =
        [line |-> packet.line, forward_checked |-> FALSE, scheduled |-> FALSE,
         age |-> 0, to_return |-> to_return]]

\* add_rq, add_wq: a packet goes to the first empty slot, if there is one.
AddOne(y, u, packet) ==
    IF Occupied(y.slots) = DOMAIN y.slots THEN y
    ELSE [slots |-> Add(y.slots, packet, IF packet.response_requested THEN {u} ELSE {}),
          added |-> y.added + 1]

AddAll(slots, u, queue) ==
    FoldLeft(LAMBDA y, packet : AddOne(y, u, packet), [slots |-> slots, added |-> 0], queue)

\* The first n requests leave a queue of u.
Rest(up, u, name, n) == [up EXCEPT ![u][name] = SubSeq(@, n + 1, Len(@))]

\* Reads and prefetches share the read slots.
MoveReads(x, u, name) ==
    LET end == AddAll(x.RQ, u, x.up[u][name])
    IN  [x EXCEPT !.RQ = end.slots, !.up = Rest(@, u, name, end.added)]

MoveWrites(x, u) ==
    LET end == AddAll(x.WQ, u, x.up[u].WQ)
    IN  [x EXCEPT !.WQ = end.slots, !.up = Rest(@, u, "WQ", end.added)]

MoveUpper(x, u) == MoveWrites(MoveReads(MoveReads(x, u, "RQ"), u, "PQ"), u)

Initiate ==
    LET end == FoldLeft(MoveUpper, [up |-> upper, RQ |-> RQ, WQ |-> WQ],
                        SetToSeq(Upper))
    IN  /\ Go("initiate", "collide")
        /\ upper' = end.up /\ RQ' = end.RQ /\ WQ' = end.WQ
        /\ UNCHANGED <<bankVars, warmup, externalVars>>

-----------------------------------------------------------------------------
(* Collisions. *)

Same(q, line) == {i \in Occupied(q) : q[i].line = line}

\* check_write_collision: a new write of a line already written goes.
CheckWrite(q, i) ==
    IF q[i] = NoPacket \/ q[i].forward_checked THEN q
    ELSE IF Same(q, q[i].line) # {i} THEN [q EXCEPT ![i] = NoPacket]
    ELSE [q EXCEPT ![i].forward_checked = TRUE]

CheckWrites(wq) == FoldLeft(CheckWrite, wq, Slots(wq))

\* The read in slot i joins the one in slot m.
Merge(q, i, m) == [q EXCEPT ![i] = NoPacket, ![m].to_return = @ \cup q[i].to_return]

\* check_read_collision: a new read is answered from the write queue, or joins a
\* read of the same line, in an earlier slot if there is one.
MutantCheckRead(x, i, wq) ==
    LET others == Same(x.rq, x.rq[i].line) \ {i}
    IN  IF x.rq[i] = NoPacket \/ x.rq[i].forward_checked THEN x
        ELSE IF Same(wq, x.rq[i].line) # {}
          THEN [rq |-> [x.rq EXCEPT ![i] = NoPacket], up |-> Return(x.up, x.rq[i])]
        ELSE IF others # {} THEN [x EXCEPT !.rq = [@ EXCEPT ![i] = NoPacket]]
        ELSE [x EXCEPT !.rq = [@ EXCEPT ![i].forward_checked = TRUE]]

CheckRead(x, i, wq) ==
    LET others == Same(x.rq, x.rq[i].line) \ {i}
    IN  IF x.rq[i] = NoPacket \/ x.rq[i].forward_checked THEN x
        ELSE IF Same(wq, x.rq[i].line) # {}
          THEN [rq |-> [x.rq EXCEPT ![i] = NoPacket], up |-> Return(x.up, x.rq[i])]
        ELSE IF others # {} THEN [x EXCEPT !.rq = Merge(@, i, Smallest(others))]
        ELSE [x EXCEPT !.rq = [@ EXCEPT ![i].forward_checked = TRUE]]

CheckReads(rq, up, wq) ==
    FoldLeft(LAMBDA x, i : CheckRead(x, i, wq), [rq |-> rq, up |-> up], Slots(rq))

\* In a warmup phase all requests are answered at once, before that.
AnswerSlot(up, packet) == IF packet = NoPacket THEN up ELSE Return(up, packet)

Collide ==
    LET up == IF warmup THEN FoldLeft(AnswerSlot, upper, RQ) ELSE upper
        rq == IF warmup THEN [i \in DOMAIN RQ |-> NoPacket] ELSE RQ
        wq == CheckWrites(IF warmup THEN [i \in DOMAIN WQ |-> NoPacket] ELSE WQ)
        end == CheckReads(rq, up, wq)
    IN  /\ Go("collide", "finish")
        /\ upper' = end.up /\ RQ' = end.rq /\ WQ' = wq
        /\ UNCHANGED <<bankVars, warmup, externalVars>>

-----------------------------------------------------------------------------
(* Banks and the data bus. *)

PacketOf(b) == IF bank_request[b].write THEN WQ[bank_request[b].pkt]
               ELSE RQ[bank_request[b].pkt]

\* finish_dbus_request
FinishDbus ==
    /\ Go("finish", "swap")
    /\ IF active_request # NoBank /\ bank_request[active_request].ready <= 0
         THEN LET b == bank_request[active_request]
              IN  /\ upper' = Return(upper, PacketOf(active_request))
                  /\ RQ' = IF b.write THEN RQ ELSE [RQ EXCEPT ![b.pkt] = NoPacket]
                  /\ WQ' = IF b.write THEN [WQ EXCEPT ![b.pkt] = NoPacket] ELSE WQ
                  /\ bank_request' = [bank_request EXCEPT ![active_request].valid = FALSE]
                  /\ active_request' = NoBank
         ELSE UNCHANGED <<queueVars, bank_request, active_request>>
    /\ UNCHANGED <<write_mode, dbus_cycle_available, bankgroup_readytime, refresh_in,
                   warmup, externalVars>>

\* Writes go out in bursts, between the watermarks.
HighWatermark == (WQ_SIZE * 7) \div 8
LowWatermark == (WQ_SIZE * 6) \div 8

SwapNow ==
    LET w == Cardinality(Occupied(WQ))
        r == Cardinality(Occupied(RQ))
    IN  \/ ~write_mode /\ (w >= HighWatermark \/ (r = 0 /\ w > 0))
        \/ write_mode /\ (w = 0 \/ (r > 0 /\ w < LowWatermark))

\* The banks whose scheduled request is taken back: not the one on the bus.
MutantRecalled == {b \in Banks : bank_request[b].valid}

Recalled == {b \in Banks \ {active_request} : bank_request[b].valid}

MutantUnschedule(q, slots) ==
    [i \in DOMAIN q |-> IF i \in slots THEN [q[i] EXCEPT !.age = 0] ELSE q[i]]

Unschedule(q, slots) ==
    [i \in DOMAIN q |-> IF i \in slots THEN [q[i] EXCEPT !.scheduled = FALSE, !.age = 0]
                        ELSE q[i]]

SwapWriteMode ==
    /\ Go("swap", "refresh")
    /\ IF SwapNow
         THEN /\ bank_request' =
                    [b \in Banks |->
                       IF b \notin Recalled THEN bank_request[b]
                       ELSE [bank_request[b] EXCEPT
                               !.valid = FALSE,
                               !.open_row = IF bank_request[b].ready < tCAS THEN NoRow ELSE @]]
              /\ RQ' = Unschedule(RQ, {bank_request[b].pkt : b \in
                                          {c \in Recalled : ~bank_request[c].write}})
              /\ WQ' = Unschedule(WQ, {bank_request[b].pkt : b \in
                                          {c \in Recalled : bank_request[c].write}})
              /\ dbus_cycle_available' =
                    TURN_AROUND + (IF active_request = NoBank THEN 0
                                   ELSE bank_request[active_request].ready)
              /\ write_mode' = ~write_mode
         ELSE UNCHANGED <<RQ, WQ, bank_request, dbus_cycle_available, write_mode>>
    /\ UNCHANGED <<upper, active_request, bankgroup_readytime, refresh_in, warmup,
                   externalVars>>

\* schedule_refresh: a busy bank refreshes when it is free again.
MutantRefreshed(b, due) ==
    IF (due \/ b.need_refresh) /\ ~b.valid
      THEN [b EXCEPT !.ready = tRFC, !.need_refresh = FALSE, !.under_refresh = TRUE]
    ELSE IF b.under_refresh /\ b.ready <= 0
      THEN [b EXCEPT !.need_refresh = due, !.under_refresh = FALSE, !.open_row = NoRow]
    ELSE [b EXCEPT !.need_refresh = due]

Refreshed(b, due) ==
    IF (due \/ b.need_refresh) /\ ~b.valid
      THEN [b EXCEPT !.ready = tRFC, !.need_refresh = FALSE, !.under_refresh = TRUE]
    ELSE IF b.under_refresh /\ b.ready <= 0
      THEN [b EXCEPT !.need_refresh = @ \/ due, !.under_refresh = FALSE, !.open_row = NoRow]
    ELSE [b EXCEPT !.need_refresh = @ \/ due]

ScheduleRefresh ==
    LET due == refresh_in <= 0
    IN  /\ Go("refresh", "populate")
        /\ refresh_in' = IF due THEN tREF ELSE refresh_in
        /\ bank_request' = [b \in Banks |-> Refreshed(bank_request[b], due)]
        /\ UNCHANGED <<queueVars, active_request, write_mode, dbus_cycle_available,
                       bankgroup_readytime, warmup, externalVars>>

\* populate_dbus: the first of the banks that were ready earliest.
NextOnBus ==
    LET valid == {b \in Banks : bank_request[b].valid}
    IN  Smallest({b \in valid : \A c \in valid :
                     bank_request[b].ready <= bank_request[c].ready})

CanPopulate ==
    /\ \E b \in Banks : bank_request[b].valid
    /\ bank_request[NextOnBus].ready <= 0
    /\ active_request = NoBank /\ dbus_cycle_available <= 0

PopulateDbus ==
    LET b == NextOnBus
        g == GroupOf[b]
    IN  /\ Go("populate", "service")
        /\ IF CanPopulate
             THEN /\ active_request' = b
                  /\ bank_request' = [bank_request EXCEPT ![b].ready = bankgroup_readytime[g] + RETURN]
                  /\ bankgroup_readytime' = [bankgroup_readytime EXCEPT ![g] = RETURN + STALL]
             ELSE UNCHANGED <<active_request, bank_request, bankgroup_readytime>>
        /\ UNCHANGED <<queueVars, write_mode, dbus_cycle_available, refresh_in, warmup,
                       externalVars>>

\* schedule_packet: those whose bank is free first, then the oldest; of equals,
\* the last slot.
Unscheduled(q) == {i \in Occupied(q) : ~q[i].scheduled}

Before(q, i, j) ==
    LET busy(k) == bank_request[BankOf[q[k].line]].valid
    IN  IF busy(i) = busy(j) THEN q[i].age > q[j].age \/ (q[i].age = q[j].age /\ i >= j)
        ELSE ~busy(i)

NextPacket(q) == CHOOSE i \in Unscheduled(q) : \A j \in Unscheduled(q) : Before(q, i, j)

FreeBank(b) == ~bank_request[b].valid /\ ~bank_request[b].under_refresh

RowDelay(b, row) == IF b.open_row = row THEN 0
                    ELSE IF b.open_row = NoRow THEN tRCD ELSE tRP + tRCD

\* service_packet
ServicePacket ==
    LET q == IF write_mode THEN WQ ELSE RQ
        i == NextPacket(q)
        b == BankOf[q[i].line]
        row == RowOf[q[i].line]
        served == [q EXCEPT ![i].scheduled = TRUE, ![i].age = 0]
    IN  /\ Go("service", "outside")
        /\ IF Unscheduled(q) # {} /\ FreeBank(b)
             THEN /\ bank_request' =
                        [bank_request EXCEPT ![b] =
                            [valid |-> TRUE, need_refresh |-> FALSE, under_refresh |-> FALSE,
                             open_row |-> row, pkt |-> i, write |-> write_mode,
                             ready |-> tCAS + RowDelay(@, row)]]
                  /\ RQ' = IF write_mode THEN RQ ELSE served
                  /\ WQ' = IF write_mode THEN served ELSE WQ
             ELSE UNCHANGED <<bank_request, RQ, WQ>>
        /\ UNCHANGED <<upper, active_request, write_mode, dbus_cycle_available,
                       bankgroup_readytime, refresh_in, warmup, externalVars>>

-----------------------------------------------------------------------------
(* Outside operate(). *)

Passed(t) == IF t > 0 THEN t - 1 ELSE 0

\* Ages and past waits, ranked anew one cycle later.
Aged(q) ==
    LET ages == {q[i].age : i \in Unscheduled(q)}
    IN  [i \in DOMAIN q |-> IF i \in Unscheduled(q)
                              THEN [q[i] EXCEPT !.age = 1 + Cardinality({a \in ages : a < q[i].age})]
                              ELSE q[i]]

BankPassed(b) ==
    LET past == {bank_request[c].ready : c \in {d \in Banks : bank_request[d].valid
                                                              /\ bank_request[d].ready <= 1}}
    IN  [bank_request[b] EXCEPT
           !.ready = IF @ > 1 THEN @ - 1
                     ELSE IF bank_request[b].valid THEN -Cardinality({t \in past : t > @})
                     ELSE 0]

StartCycle ==
    /\ Go("outside", "initiate")
    /\ RQ' = Aged(RQ) /\ WQ' = Aged(WQ)
    /\ bank_request' = [b \in Banks |-> BankPassed(b)]
    /\ dbus_cycle_available' = Passed(dbus_cycle_available)
    /\ bankgroup_readytime' = [g \in Groups |-> Passed(bankgroup_readytime[g])]
    /\ refresh_in' = Passed(refresh_in)
    /\ UNCHANGED <<upper, active_request, write_mode, warmup, externalVars>>

\* begin_phase: the warmup phase is over.
BeginPhase ==
    /\ stage = "outside" /\ warmup
    /\ warmup' = FALSE
    /\ UNCHANGED <<queueVars, bankVars, stage, externalVars>>

\* A prefetch that no level fills wants no answer.
Read(u, q, line, response) ==
    /\ stage = "outside" /\ HasRoom(upper[u][q], UpperSize)
    /\ IF response THEN line \notin wait[u] ELSE q = "PQ"
    /\ upper' = [upper EXCEPT ![u] = Push(@, q, [line |-> line, response_requested |-> response])]
    /\ wait' = [wait EXCEPT ![u] = IF response THEN @ \cup {line} ELSE @]
    /\ UNCHANGED <<RQ, WQ, bankVars, warmup, stage, writes>>

Write(u, line) ==
    /\ stage = "outside" /\ HasRoom(upper[u].WQ, UpperSize) /\ writes < MaxWrites
    /\ upper' = [upper EXCEPT ![u] = Push(@, "WQ", [line |-> line, response_requested |-> FALSE])]
    /\ writes' = writes + 1
    /\ UNCHANGED <<RQ, WQ, bankVars, warmup, stage, wait>>

TakeAnswer(u) ==
    /\ stage = "outside" /\ upper[u].returned # << >>
    /\ upper' = [upper EXCEPT ![u] = Pop(@, "returned")]
    /\ wait' = [wait EXCEPT ![u] = @ \ {Head(upper[u].returned)}]
    /\ UNCHANGED <<RQ, WQ, bankVars, warmup, stage, writes>>

DRAMOperate ==
    \/ StartCycle \/ Initiate \/ Collide \/ FinishDbus \/ SwapWriteMode
    \/ ScheduleRefresh \/ PopulateDbus \/ ServicePacket

DRAMNext ==
    \/ DRAMOperate \/ BeginPhase
    \/ \E u \in Upper :
          \/ \E line \in Line, response \in BOOLEAN, q \in {"RQ", "PQ"} : Read(u, q, line, response)
          \/ \E line \in Line : Write(u, line)
          \/ TakeAnswer(u)

DRAMSpec == DRAMInit /\ [][DRAMNext]_dramVars

\* operate() is called again and again, and returns; an upper level takes its
\* answers.
FairDRAMSpec ==
    /\ DRAMSpec
    /\ []<><<StartCycle>>_stage
    /\ \A u \in Upper : SF_dramVars(TakeAnswer(u))

-----------------------------------------------------------------------------
(* Properties. *)

SlotType == Packet \cup {NoPacket}

\* The queues and banks keep their types; no bank is busy and refreshing at once
\* (service_packet's guard), and no wait is longer than its latency.
DRAMTypeOK ==
    /\ \A i \in DOMAIN RQ : RQ[i] \in SlotType
    /\ \A i \in DOMAIN WQ : WQ[i] \in SlotType
    /\ active_request \in Banks \cup {NoBank}
    /\ refresh_in \in 0 .. tREF
    /\ \A b \in Banks : /\ ~(bank_request[b].valid /\ bank_request[b].under_refresh)
                        /\ bank_request[b].ready <= tRFC + tCAS + tRP + tRCD + 2 * RETURN + STALL

\* bank_request holds iterators into RQ and WQ: a busy bank's packet is there, is
\* scheduled and is for that bank; a scheduled packet is in exactly one bank;
\* the request on the bus is in a busy bank.  Swapping modes, collisions and
\* warmup never leave a bank pointing at an empty slot.
BankPacketsExist ==
    LET here(i, w) == {b \in Banks : bank_request[b].valid /\ bank_request[b].pkt = i
                                     /\ bank_request[b].write = w}
    IN  /\ DRAMTypeOK
        /\ \A b \in Banks : bank_request[b].valid =>
              /\ PacketOf(b) # NoPacket /\ PacketOf(b).scheduled
              /\ BankOf[PacketOf(b).line] = b
        /\ \A i \in Occupied(RQ) : RQ[i].scheduled <=> Cardinality(here(i, FALSE)) = 1
        /\ \A i \in Occupied(WQ) : WQ[i].scheduled <=> Cardinality(here(i, TRUE)) = 1
        /\ active_request # NoBank => bank_request[active_request].valid

\* Every read that wants an answer is owed exactly one, wherever it is: in the
\* upper queue, in a slot of its own, merged with a read of another upper, or
\* answered from a pending write.
EveryReadOwedOnce ==
    LET asked(u, q, line) == {i \in DOMAIN upper[u][q] :
                                 upper[u][q][i].line = line /\ upper[u][q][i].response_requested}
    IN  \A u \in Upper, line \in Line :
        Cardinality(asked(u, "RQ", line)) + Cardinality(asked(u, "PQ", line))
          + Cardinality({i \in Occupied(RQ) : RQ[i].line = line /\ u \in RQ[i].to_return})
          + Cardinality({i \in DOMAIN upper[u].returned : upper[u].returned[i] = line})
        = IF line \in wait[u] THEN 1 ELSE 0

\* A refresh that came due while its bank was busy is not forgotten: the mark
\* goes only when the bank starts to refresh, although service_packet and
\* swap_write_mode write the same record.
RefreshNotForgotten ==
    [][\A b \in Banks : bank_request[b].need_refresh /\ ~bank_request'[b].need_refresh
                           => bank_request'[b].under_refresh]_bank_request

\* Every read is answered, through refreshes, mode swaps and banks that are busy,
\* if the writes do not come forever: a stream of writes that keeps the write
\* queue above its low watermark would starve the reads.  The write queue needs two
\* entries: with one both watermarks are 0, and the mode is swapped in every cycle.
EveryReadAnswered ==
    \A u \in Upper, line \in Line : line \in wait[u] ~> line \notin wait[u]
=============================================================================

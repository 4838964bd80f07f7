----------------------------- MODULE MCBackend ------------------------------
(***************************************************************************)
(* Small programs and cores for Backend.  Addresses 1 and 2 share a block. *)
(***************************************************************************)
EXTENDS Backend

MCBlockOf(addr) == (addr + 1) \div 2

Instr(srcs, dsts, loads, stores) ==
    [srcs |-> srcs, dsts |-> dsts, loads |-> loads, stores |-> stores]

\* Stores that forward, before and after they issue; two stores of one address
\* with a load between; loads of one block.
Forwarding ==
    <<Instr(<<1>>, <<2>>, <<3>>, << >>), Instr(<<2>>, << >>, << >>, <<1, 1>>),
      Instr(<<1>>, <<1>>, <<1, 2>>, <<1>>), Instr(<<1>>, << >>, <<1>>, << >>)>>

\* Results overwritten, read twice, read before they were ever written.
Renaming ==
    <<Instr(<<2, 2>>, <<1>>, <<1>>, << >>), Instr(<<1>>, <<1, 2>>, << >>, << >>),
      Instr(<<2, 1>>, <<1, 1>>, <<2>>, << >>), Instr(<<1>>, <<2>>, << >>, <<3>>)>>

\* Independent loads that complete out of order, then a store.
Loads ==
    <<Instr(<< >>, <<1>>, <<1, 3>>, << >>), Instr(<< >>, <<2>>, <<2>>, << >>),
      Instr(<< >>, << >>, << >>, <<2>>), Instr(<<2>>, <<2>>, <<2>>, <<3, 2>>)>>

MCCore(size, width, latency) ==
    [ROB_SIZE |-> size + 1, LQ_SIZE |-> size, SQ_SIZE |-> size,
     DISPATCH_WIDTH |-> width, SCHEDULER_SIZE |-> width, EXEC_WIDTH |-> width,
     LQ_WIDTH |-> width, SQ_WIDTH |-> width, RETIRE_WIDTH |-> width,
     L1D_BANDWIDTH |-> width, SCHEDULING_LATENCY |-> latency,
     EXEC_LATENCY |-> latency, RQ_SIZE |-> 1, WQ_SIZE |-> 1]

MCPrograms == {Forwarding, Renaming, Loads}

MCConfigs == {MCCore(2, 1, 1), MCCore(3, 2, 0)}
=============================================================================

------------------------------ MODULE MCFrontend ------------------------------
(* Two lines of two DIB windows, four instructions; buffers of one or two. *)
EXTENDS Frontend

MCInstr(srcs, dsts, taken, line, window) ==
    [is_branch |-> FALSE, srcs |-> srcs, dsts |-> dsts, memory |-> FALSE, taken |-> taken,
     line |-> line, window |-> window]

MCAlu(line, window) == MCInstr({"r"}, {"r"}, FALSE, line, window)
MCMarked(line, window) == [MCAlu(line, window) EXCEPT !.is_branch = TRUE]
MCConditional(taken, line, window) == MCInstr({"ip", "flags"}, {"ip"}, taken, line, window)
MCJump(line, window) == MCInstr({"ip"}, {"ip"}, FALSE, line, window)
MCReturn(line, window) == MCInstr({"sp"}, {"ip", "sp"}, FALSE, line, window)

MCPrograms ==
    { << MCAlu("a", "v"), MCAlu("a", "v"), MCAlu("a", "w"), MCAlu("b", "v") >>,
      << MCJump("a", "v"), MCMarked("b", "w"), MCReturn("a", "v"), MCAlu("b", "w") >>,
      << MCConditional(TRUE, "a", "v"), MCAlu("a", "v"), MCConditional(FALSE, "a", "v"),
         MCAlu("b", "w") >> }

\* The smallest buffers, a slow L1I port, and a narrow front end.
MCConfigs ==
    {[FETCH_WIDTH |-> c[1], DECODE_WIDTH |-> 1, DIB_INORDER_WIDTH |-> 2, L1I_BANDWIDTH |-> c[2],
      IFETCH_BUFFER_SIZE |-> 3, DIB_HIT_BUFFER_SIZE |-> 2, DECODE_BUFFER_SIZE |-> c[3],
      DISPATCH_BUFFER_SIZE |-> c[3], DIB_WAY |-> 1, RQ_SIZE |-> 1,
      DIB_HIT_LATENCY |-> 1, DECODE_LATENCY |-> 1, DISPATCH_LATENCY |-> 1,
      BRANCH_MISPREDICT_PENALTY |-> 1, warmup |-> w] :
        w \in BOOLEAN, c \in {<<2, 2, 1>>, <<2, 1, 2>>, <<1, 2, 2>>}}
===============================================================================

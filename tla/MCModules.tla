----------------------------- MODULE MCModules ------------------------------
(***************************************************************************)
(* The parts that keep tables of their own and meet only through the CACHE *)
(* or the core that calls them, each checked by itself: a behaviour is one *)
(* of the component it starts with, and the others stay as they are.       *)
(***************************************************************************)
EXTENDS RRIPSearch, RenameWindow, Modules, OPTgenTrace, TLC

VARIABLES
    component,
    steps,    \* the bounded count of calls of a component that has none of its own
    ST, PT, FILTER, GHR, walk,
    regions, demanded, issued,
    bimodal_table, branch_history_vector, gs_history_table, perceptrons,
    perceptron_state_buf, spec_global_history, global_history, tables, ghist_words,
    theta, tc, outcomes,
    direct, predictor, conditional_history, stack, call_size_trackers, open, returned,
    phase, ahead, left, since, phase_complete, stalled_cycle, livelock_timer, ended_trace,
    aborted, ended

Spp == INSTANCE SPP WITH
    accesses <- steps, Block <- {1, 2, 3, 4, 8}, PageBlocks <- 4, TagSpan <- 3,
    ST_WAY <- 2, PT_SET <- 1, PT_WAY <- 2, SIG_SHIFT <- 1, SIG_BIT <- 3,
    SIG_DELTA_BIT <- 3, C_SIG_MAX <- 3, PF_THRESHOLD <- 25, FILL_THRESHOLD <- 50,
    FILTER_SET <- 2, RemainderSpan <- 2, GLOBAL_COUNTER_MAX <- 3, MAX_GHR_ENTRY <- 2,
    MSHR_SIZE <- 16, MaxAccesses <- 6

Ampm == INSTANCE AMPM WITH
    accesses <- steps, Block <- {4, 5, 6, 7, 8, 9, 10, 14}, PageBlocks <- 4,
    REGION_WAYS <- 2, MAX_DISTANCE <- 2, PREFETCH_DEGREE <- 1, Room <- {0, 1, 2},
    MaxAccesses <- 5

Predictors == INSTANCE BranchPredictors WITH
    instrs <- steps, BranchIPs <- {1, 6}, OtherIPs <- {2}, CounterMax <- 3, TableBits <- 2,
    GLOBAL_HISTORY_LENGTH <- 2, BimodalSize <- 2, PERCEPTRON_HISTORY <- 3,
    NUM_PERCEPTRONS <- 2, NUM_UPDATE_ENTRIES <- 2, WeightMax <- 1, THETA <- 1,
    WORD_LEN <- 2, VALUE_LEN <- 4, history_lengths <- <<0, 3, 4, 5>>, THRESHOLD <- 1,
    SPEED <- 2, MaxInstrs <- 6

Btb == INSTANCE BTB WITH
    instrs <- steps, ways <- 2, size <- 2, HistoryBits <- 1, max_size <- 2,
    num_call_size_trackers <- 8,
    Program <- (16 :> "DIRECT_CALL") @@ (37 :> "INDIRECT_CALL") @@ (20 :> "RETURN")
               @@ (22 :> "CONDITIONAL") @@ (24 :> "INDIRECT") @@ (17 :> "NOT_BRANCH"),
    CallSize <- (16 :> 5) @@ (37 :> 2),
    Targets <- {9}, Outside <- 100, MaxDepth <- 3, MaxInstrs <- 8

MCTraces == UNION {[1 .. n -> BOOLEAN] : n \in 1 .. 5}

\* Records of the CVP-1 format: pages of code and data that overlap, branches that
\* use the link register, and instructions that use the numbers of the registers
\* the simulator knows.
CVP(type, pc, ea, taken, inputs, outputs) ==
    [type |-> type, pc |-> pc, ea |-> ea, taken |-> taken, inputs |-> inputs,
     outputs |-> outputs]

MCRecords ==
    {CVP("load", pc, ea, FALSE, <<"1">>, <<"2">>) : pc \in 1 .. 3, ea \in 1 .. 3}
      \cup {CVP("store", 1, 2, FALSE, <<"sp", "0">>, << >>),
            CVP("alu", 1, 0, FALSE, <<"1", "2", "3", "flags", "4">>, <<"ip">>),
            CVP("fp", 1, 0, FALSE, <<"sp">>, <<"sp">>)}
      \cup {CVP("condBranch", 1, 0, taken, <<"64">>, << >>) : taken \in BOOLEAN}
      \cup {CVP(type, 1, 0, TRUE, inputs, outputs) :
               type \in {"uncondDirectBranch", "uncondIndirectBranch"},
               inputs \in {<< >>, <<"30">>, <<"1">>}, outputs \in {<< >>, <<"30">>}}

Driver == INSTANCE Simulation WITH
    Cores <- {"core0", "core1"}, Others <- {"memory"},
    clock_period <- ("core0" :> 2) @@ ("core1" :> 3) @@ ("memory" :> 3),
    length <- <<1, 3>>, RetireWidth <- 1, DEADLOCK_CYCLE <- 3, livelock_period <- 4,
    LivelockPercent <- 1, eof <- ended_trace

Components == {"optgen", "search", "window", "policies", "lru", "blocks", "spp", "stride",
               "ampm", "predictors", "btb", "reader", "converter", "driver"}

ModulesInit ==
    /\ component \in Components
    /\ steps = 0
    /\ TraceInit /\ SearchInit /\ WindowInit /\ LRUInit /\ PolicyInit /\ BlocksInit /\ StrideInit
    /\ ReaderInit /\ ConverterInit
    /\ Spp!SPPInit /\ Ampm!AMPMInit /\ Predictors!PredictorInit /\ Btb!BTBInit
    /\ Driver!SimulationInit
    /\ component # "policies" => policy = "srrip"
    /\ component # "reader" => trace = <<TRUE>> /\ ~repeats

\* The variables of each component, but for steps.
sppGroup == <<ST, PT, FILTER, GHR, walk>>
ampmGroup == <<regions, demanded, issued>>
predictorGroup == <<bimodal_table, branch_history_vector, gs_history_table, perceptrons,
                    perceptron_state_buf, spec_global_history, global_history, tables,
                    ghist_words, theta, tc, outcomes>>
btbGroup == <<direct, predictor, conditional_history, stack, call_size_trackers, open, returned>>
driverGroup == <<phase, ahead, left, since, phase_complete, stalled_cycle, livelock_timer,
                 ended_trace, aborted, ended>>

modulesVars == <<component, steps, traceVars, searchVars, windowVars, policyVars, lruVars, blocksVars,
                 sppGroup, strideVars, ampmGroup, predictorGroup, btbGroup, readerVars,
                 converterVars, driverGroup>>

\* Only the component of the behaviour moves.
Alone(name) ==
    /\ component = name
    /\ UNCHANGED component
    /\ name \notin {"spp", "ampm", "predictors", "btb"} => UNCHANGED steps
    /\ name # "optgen" => UNCHANGED traceVars
    /\ name # "search" => UNCHANGED searchVars
    /\ name # "window" => UNCHANGED windowVars
    /\ name # "policies" => UNCHANGED policyVars
    /\ name # "lru" => UNCHANGED lruVars
    /\ name # "blocks" => UNCHANGED blocksVars
    /\ name # "spp" => UNCHANGED sppGroup
    /\ name # "stride" => UNCHANGED strideVars
    /\ name # "ampm" => UNCHANGED ampmGroup
    /\ name # "predictors" => UNCHANGED predictorGroup
    /\ name # "btb" => UNCHANGED btbGroup
    /\ name # "reader" => UNCHANGED readerVars
    /\ name # "converter" => UNCHANGED converterVars
    /\ name # "driver" => UNCHANGED driverGroup

DriverStep == Alone("driver") /\ Driver!SimulationNext

\* Nothing tells one line from another: a new one is the next.
NewLinesInOrder ==
    \A s \in Sets : \A i \in DOMAIN answers[s] :
        \/ answers[s][i].addr = 1
        \/ \E j \in 1 .. i - 1 : answers[s][j].addr >= answers[s][i].addr - 1

ModulesNext ==
    \/ Alone("optgen") /\ TraceNext /\ NewLinesInOrder'
    \/ Alone("search") /\ SearchNext
    \/ Alone("window") /\ WindowNext
    \/ Alone("policies") /\ PolicyNext
    \/ Alone("lru") /\ LRUNext
    \/ Alone("blocks") /\ BlocksNext
    \/ Alone("spp") /\ Spp!SPPNext
    \/ Alone("stride") /\ StrideNext
    \/ Alone("ampm") /\ Ampm!AMPMNext
    \/ Alone("predictors") /\ Predictors!PredictorNext
    \/ Alone("btb") /\ Btb!BTBNext
    \/ Alone("reader") /\ ReaderNext
    \/ Alone("converter") /\ ConverterNext
    \/ DriverStep

\* The loops of find_victim and of do_phase run on: the simulator has one thread.
ModulesSpec ==
    /\ ModulesInit /\ [][ModulesNext]_modulesVars
    /\ WF_searchVars(ReturnVictim) /\ WF_searchVars(AgeAll)
    /\ WF_modulesVars(DriverStep)

-----------------------------------------------------------------------------
\* Tables and histories forget nothing they still need.  spp's tables have a victim and
\* keep the order of their counters (spp_dev.cc:255, :301), and va_ampm_lite's copies of
\* its maps lose no bit (va_ampm_lite.cc:29-77); all branch histories are the outcomes
\* of the last branches (folded_shift_register.h:78, perceptron.cc:64), and the return
\* stack holds the calls that are open (return_stack.cc:17).
TablesRemember ==
    /\ Spp!TablesHaveVictims
    /\ Ampm!MapsKeepEverything
    /\ Predictors!HistoriesAgree
    /\ Btb!ReturnsGoHome

\* do_phase ends whatever the operables do (champsim.cc:88-153).
SimulationEnds == component = "driver" => Driver!SimulationEnds
=============================================================================

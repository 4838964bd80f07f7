-------------------------- MODULE BranchPredictors --------------------------
(***************************************************************************)
(* The branch predictors (src/branch/): bimodal, gshare, perceptron and    *)
(* hashed_perceptron, driven as the core drives them: every instruction is *)
(* predicted, and a branch has its result at once.  Histories are sequences*)
(* of bits, the latest first; folded registers are the integers they are.  *)
(***************************************************************************)
EXTENDS FwCounter, SequencesExt, Bitwise

CONSTANTS
    BranchIPs, OtherIPs,    \* addresses of branches, and of other instructions
    CounterMax,             \* maximum of the counters of bimodal and gshare
    TableBits,              \* log2 of GS_HISTORY_TABLE_SIZE
    GLOBAL_HISTORY_LENGTH,
    BimodalSize,            \* PRIME
    PERCEPTRON_HISTORY, NUM_PERCEPTRONS, NUM_UPDATE_ENTRIES,
    WeightMax,              \* the largest weight
    THETA,
    WORD_LEN, VALUE_LEN,    \* bits of a word of a folded register, and of a value
    history_lengths,
    THRESHOLD, SPEED,
    MaxInstrs               \* bound on the instructions, for model checking

VARIABLES
    bimodal_table,
    branch_history_vector, gs_history_table,
    perceptrons, perceptron_state_buf, spec_global_history, global_history,
    tables, ghist_words, theta, tc,
    outcomes,    \* history: what the branches did, the latest first
    instrs       \* instructions so far

predictorVars == <<bimodal_table, branch_history_vector, gs_history_table, perceptrons,
                   perceptron_state_buf, spec_global_history, global_history, tables,
                   ghist_words, theta, tc, outcomes, instrs>>

Zeros(n) == [i \in 1 .. n |-> 0]

bitmask(n) == 2 ^ n - 1

Bit(taken) == IF taken THEN 1 ELSE 0

Step(taken) == IF taken THEN 1 ELSE -1

\* bitset << 1, then its lowest bit.
Shifted(history, taken) == <<Bit(taken)>> \o SubSeq(history, 1, Len(history) - 1)

to_ullong(bits) == FoldLeft(+, 0, [i \in DOMAIN bits |-> bits[i] * 2 ^ (i - 1)])

SumSeq(seq) == FoldLeft(+, 0, seq)

abs(x) == IF x < 0 THEN -x ELSE x

-----------------------------------------------------------------------------
(* folded_shift_register *)

folded(length) ==
    [words |-> Zeros(length \div VALUE_LEN + (IF length % VALUE_LEN # 0 THEN 1 ELSE 0)),
     last_value_mask |-> bitmask(length % VALUE_LEN)]

\* The words of all the values, xored.
value(reg) ==
    LET joined == FoldLeft(LAMBDA x, y : x ^^ y, 0, reg.words)
    IN  FoldLeft(LAMBDA x, i : x ^^ (joined \div 2 ^ (i * WORD_LEN)), joined,
                 [i \in 1 .. VALUE_LEN \div WORD_LEN + 1 |-> i]) % 2 ^ WORD_LEN

MutantPushBack(reg, ins) ==
    LET shifted == [i \in DOMAIN reg.words |->
                      (reg.words[i] * 2 + (IF i = 1 THEN Bit(ins)
                           ELSE reg.words[i - 1] \div 2 ^ (WORD_LEN - 1))) % 2 ^ VALUE_LEN]
    IN  [reg EXCEPT !.words =
            IF reg.last_value_mask = 0 THEN shifted
              ELSE [shifted EXCEPT ![Len(shifted)] = @ % (reg.last_value_mask + 1)]]

\* Every value passes its highest bit to the next.
push_back(reg, ins) ==
    LET shifted == [i \in DOMAIN reg.words |->
                      (reg.words[i] * 2 + (IF i = 1 THEN Bit(ins)
                           ELSE reg.words[i - 1] \div 2 ^ (VALUE_LEN - 1))) % 2 ^ VALUE_LEN]
    IN  [reg EXCEPT !.words =
            IF reg.last_value_mask = 0 THEN shifted
              ELSE [shifted EXCEPT ![Len(shifted)] = @ % (reg.last_value_mask + 1)]]

-----------------------------------------------------------------------------
(* perceptron *)

FreshPerceptron == [bias |-> 0, weights |-> Zeros(PERCEPTRON_HISTORY)]

Output(p, history) ==
    p.bias + SumSeq([i \in DOMAIN history |->
                       IF history[i] = 1 THEN p.weights[i] ELSE -p.weights[i]])

Trained(p, result, history) ==
    [bias    |-> SignedPlus(p.bias, Step(result), WeightMax),
     weights |-> [i \in DOMAIN history |->
                    SignedPlus(p.weights[i], Step(history[i] = Bit(result)), WeightMax)]]

\* predict_branch
Predicted(ip) ==
    LET output == Output(perceptrons[ip % NUM_PERCEPTRONS], spec_global_history)
        buf == Append(perceptron_state_buf,
                      [ip |-> ip, prediction |-> output >= 0, output |-> output,
                       history |-> spec_global_history])
    IN  [buf  |-> IF Len(buf) > NUM_UPDATE_ENTRIES THEN Tail(buf) ELSE buf,
         spec |-> Shifted(spec_global_history, output >= 0)]

\* last_branch_result: the first state of this ip is this branch's.
PerceptronResult(ip, taken) ==
    LET p     == Predicted(ip)
        i     == SelectInSeq(p.buf, LAMBDA x : x.ip = ip)
        state == p.buf[i]
        wrong == state.prediction # taken
    IN  IF i = 0
          THEN /\ perceptron_state_buf' = p.buf
               /\ spec_global_history' = p.spec
               /\ UNCHANGED <<perceptrons, global_history>>
          ELSE /\ perceptron_state_buf' = RemoveAt(p.buf, i)
               /\ global_history' = Shifted(global_history, taken)
               /\ spec_global_history' = IF wrong THEN global_history' ELSE p.spec
               /\ perceptrons' =
                    IF wrong \/ abs(state.output) <= THETA
                      THEN [perceptrons EXCEPT ![ip % NUM_PERCEPTRONS] =
                              Trained(@, taken, state.history)]
                      ELSE perceptrons

-----------------------------------------------------------------------------
(* The others. *)

gs_table_hash(ip, bh_vector) ==
    LET slice(n) == (ip \div 2 ^ (n * GLOBAL_HISTORY_LENGTH)) % 2 ^ TableBits
    IN  (((to_ullong(bh_vector) ^^ slice(0)) ^^ slice(1)) ^^ slice(2)) % 2 ^ TableBits

BimodalResult(ip, taken) ==
    bimodal_table' = [bimodal_table EXCEPT ![ip % BimodalSize] = Plus(@, Step(taken), CounterMax)]

GshareResult(ip, taken) ==
    /\ gs_history_table' = [gs_history_table EXCEPT
           ![gs_table_hash(ip, branch_history_vector)] = Plus(@, Step(taken), CounterMax)]
    /\ branch_history_vector' = Shifted(branch_history_vector, taken)

\* The prediction is made of the same registers, an instant before.
HashedResult(pc, taken) ==
    LET indices == [i \in DOMAIN ghist_words |-> value(ghist_words[i]) ^^ (pc % 2 ^ WORD_LEN)]
        yout    == SumSeq([i \in DOMAIN tables |-> tables[i][indices[i]]])
        correct == taken = (yout >= THRESHOLD)
        count   == tc + (IF correct THEN -1 ELSE 1)
    IN  /\ ghist_words' = [i \in DOMAIN ghist_words |-> push_back(ghist_words[i], taken)]
        /\ IF ~correct \/ abs(yout) < theta
             THEN /\ tables' = [i \in DOMAIN tables |->
                        [tables[i] EXCEPT ![indices[i]] = SignedPlus(@, Step(taken), WeightMax)]]
                  /\ theta' = IF abs(count) < SPEED THEN theta ELSE theta + Step(~correct)
                  /\ tc' = IF abs(count) < SPEED THEN count ELSE 0
             ELSE UNCHANGED <<tables, theta, tc>>

-----------------------------------------------------------------------------

PredictorInit ==
    /\ bimodal_table = [i \in 0 .. BimodalSize - 1 |-> 0]
    /\ branch_history_vector = Zeros(GLOBAL_HISTORY_LENGTH)
    /\ gs_history_table = [i \in 0 .. bitmask(TableBits) |-> 0]
    /\ perceptrons = [i \in 0 .. NUM_PERCEPTRONS - 1 |-> FreshPerceptron]
    /\ perceptron_state_buf = << >>
    /\ spec_global_history = Zeros(PERCEPTRON_HISTORY)
    /\ global_history = Zeros(PERCEPTRON_HISTORY)
    /\ ghist_words = [i \in DOMAIN history_lengths |-> folded(history_lengths[i])]
    /\ tables = [i \in DOMAIN history_lengths |-> [x \in 0 .. bitmask(WORD_LEN) |-> 0]]
    /\ theta = 10
    /\ tc = 0
    /\ outcomes = << >>
    /\ instrs = 0

\* do_predict_branch of the core, for a branch.
Branch(ip, taken) ==
    /\ instrs < MaxInstrs
    /\ instrs' = instrs + 1
    /\ BimodalResult(ip, taken)
    /\ GshareResult(ip, taken)
    /\ PerceptronResult(ip, taken)
    /\ HashedResult(ip, taken)
    /\ outcomes' = <<Bit(taken)>> \o outcomes

\* ... and for any other instruction, which is predicted all the same.
NotABranch(ip) ==
    /\ instrs < MaxInstrs
    /\ instrs' = instrs + 1
    /\ perceptron_state_buf' = Predicted(ip).buf
    /\ spec_global_history' = Predicted(ip).spec
    /\ UNCHANGED <<bimodal_table, branch_history_vector, gs_history_table, perceptrons,
                   global_history, tables, ghist_words, theta, tc, outcomes>>

PredictorNext ==
    \/ \E ip \in BranchIPs, taken \in BOOLEAN : Branch(ip, taken)
    \/ \E ip \in OtherIPs : NotABranch(ip)

PredictorSpec == PredictorInit /\ [][PredictorNext]_predictorVars

-----------------------------------------------------------------------------
(* Properties. *)

Latest(n) == [i \in 1 .. n |-> IF i <= Len(outcomes) THEN outcomes[i] ELSE 0]

\* The words of the last n outcomes, xored bit by bit.
FoldedLatest(n) ==
    to_ullong([b \in 1 .. WORD_LEN |->
        SumSeq([i \in 1 .. n |-> IF (i - b) % WORD_LEN = 0 THEN Latest(n)[i] ELSE 0]) % 2])

\* All predictors remember the same past: the folded registers are the fold of
\* their last outcomes (folded_shift_register.h:11-17), though they are kept in
\* values that pass bits along, and the perceptron, which must find the state of
\* each branch in a buffer that other instructions fill, misses no outcome.
HistoriesAgree ==
    /\ \A i \in DOMAIN history_lengths :
          value(ghist_words[i]) = FoldedLatest(history_lengths[i])
    /\ branch_history_vector = Latest(GLOBAL_HISTORY_LENGTH)
    /\ global_history = Latest(PERCEPTRON_HISTORY)
=============================================================================

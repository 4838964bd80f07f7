--------------------------------- MODULE BTB --------------------------------
(***************************************************************************)
(* The branch target buffer (src/btb/basic_btb/): direct predictor, one    *)
(* set of it, indirect predictor and return stack, for a program of a few  *)
(* instructions that calls and returns as programs do.  As the core does,  *)
(* every instruction is predicted, and a branch updates the buffer at once.*)
(***************************************************************************)
EXTENDS Integers, SequencesExt, Bitwise

CONSTANTS
    ways,                   \* direct_predictor::ways
    size,                   \* indirect_predictor::size, a power of two
    HistoryBits,            \* its logarithm
    max_size,               \* return_stack::max_size
    num_call_size_trackers,
    Program,                \* the kind of the instruction at each address
    CallSize,               \* bytes of the calls
    Targets,                \* where other branches go; not 0
    Outside,                \* where a return of an unknown call goes
    MaxDepth, MaxInstrs     \* bounds on open calls and steps, for model checking

Table == INSTANCE LRUTable

VARIABLES
    direct,                \* the set, least recently used first
    predictor, conditional_history,
    stack, call_size_trackers,
    open,                  \* history: calls the program has not returned from
    returned,              \* history: calls returned from while on the stack
    instrs

btbVars == <<direct, predictor, conditional_history, stack, call_size_trackers,
             open, returned, instrs>>

BTBInit ==
    /\ direct = << >>
    /\ predictor = [i \in 0 .. size - 1 |-> 0]
    /\ conditional_history = 0
    /\ stack = << >>
    /\ call_size_trackers = [i \in 0 .. num_call_size_trackers - 1 |-> 4]
    /\ open = << >>
    /\ returned = {}
    /\ instrs = 0

\* The two lowest bits are no part of the tag: close instructions share an entry.
tag(ip) == ip \div 4

tracker(ip) == ip % num_call_size_trackers

-----------------------------------------------------------------------------
(* Predictions. *)

\* indirect_predictor
hash(ip) == ((ip \div 4) ^^ conditional_history) % size

\* return_stack::prediction
TopOfStack == Last(stack) + call_size_trackers[tracker(Last(stack))]

\* What btb_prediction returns as the target, 0 for none.
btb_prediction(ip) ==
    IF tag(ip) \notin Table!Tags(direct) THEN 0
      ELSE LET entry == Table!EntryOf(direct, tag(ip))
           IN  CASE entry.type = "RETURN" -> IF stack = << >> THEN 0 ELSE TopOfStack
                 [] entry.type = "INDIRECT" -> predictor[hash(ip)]
                 [] OTHER -> entry.target

-----------------------------------------------------------------------------
(* Updates. *)

\* return_stack::push
Pushed(ip) == IF Len(stack) = max_size THEN Append(Tail(stack), ip) ELSE Append(stack, ip)

\* return_stack::calibrate_call_size, when the call was close to the target.
Calibrated(branch_target) ==
    LET call_ip == Last(stack)
        estimate == IF call_ip > branch_target THEN call_ip - branch_target
                                               ELSE branch_target - call_ip
    IN  IF stack # << >> /\ estimate <= 10
          THEN [call_size_trackers EXCEPT ![tracker(call_ip)] = estimate]
          ELSE call_size_trackers

branch_info(kind) ==
    CASE kind \in {"INDIRECT", "INDIRECT_CALL"} -> "INDIRECT"
      [] kind = "RETURN" -> "RETURN"
      [] kind = "CONDITIONAL" -> "CONDITIONAL"
      [] OTHER -> "ALWAYS_TAKEN"

\* direct_predictor::update after the check of the prediction: an unknown target
\* (0) makes no entry and changes none.
Recorded(ip, target, kind) ==
    LET checked == Table!check_hit(direct, tag(ip))
    IN  IF target = 0 THEN checked
        ELSE Table!fill(checked, ways,
                        [tag |-> tag(ip), target |-> target, type |-> branch_info(kind)])

\* update_btb
Update(ip, target, taken) ==
    LET kind == Program[ip]
    IN  /\ stack' = CASE kind \in {"DIRECT_CALL", "INDIRECT_CALL"} -> Pushed(ip)
                      [] kind = "RETURN" /\ stack # << >> -> Front(stack)
                      [] OTHER -> stack
        /\ call_size_trackers' = IF kind = "RETURN" THEN Calibrated(target)
                                                    ELSE call_size_trackers
        /\ predictor' = IF branch_info(kind) = "INDIRECT"
                          THEN [predictor EXCEPT ![hash(ip)] = target] ELSE predictor
        /\ conditional_history' =
              IF kind = "CONDITIONAL"
                THEN (2 * conditional_history + (IF taken THEN 1 ELSE 0)) % 2 ^ HistoryBits
                ELSE conditional_history
        /\ direct' = Recorded(ip, target, kind)

-----------------------------------------------------------------------------
(* The program. *)

Executes(ip, kinds) ==
    /\ instrs < MaxInstrs
    /\ Program[ip] \in kinds
    /\ instrs' = instrs + 1

Call(ip, target) ==
    /\ Executes(ip, {"DIRECT_CALL", "INDIRECT_CALL"})
    /\ Len(open) < MaxDepth
    /\ Update(ip, target, TRUE)
    /\ open' = Append(open, ip)
    /\ UNCHANGED returned

ReturnTarget == IF open = << >> THEN Outside ELSE Last(open) + CallSize[Last(open)]

Return(ip) ==
    /\ Executes(ip, {"RETURN"})
    /\ Update(ip, ReturnTarget, TRUE)
    /\ open' = IF open = << >> THEN open ELSE Front(open)
    /\ returned' = IF stack = << >> THEN returned ELSE returned \cup {Last(open)}

Conditional(ip, target, taken) ==
    /\ Executes(ip, {"CONDITIONAL"})
    /\ Update(ip, IF taken THEN target ELSE 0, taken)
    /\ UNCHANGED <<open, returned>>

Jump(ip, target) ==
    /\ Executes(ip, {"INDIRECT", "DIRECT_JUMP"})
    /\ Update(ip, target, TRUE)
    /\ UNCHANGED <<open, returned>>

\* An instruction that is no branch is looked up all the same.
NoBranch(ip) ==
    /\ Executes(ip, {"NOT_BRANCH"})
    /\ direct' = Table!check_hit(direct, tag(ip))
    /\ UNCHANGED <<predictor, conditional_history, stack, call_size_trackers, open, returned>>

BTBNext ==
    \E ip \in DOMAIN Program :
        \/ Return(ip) \/ NoBranch(ip)
        \/ \E target \in Targets :
              \/ Call(ip, target) \/ Jump(ip, target)
              \/ \E taken \in BOOLEAN : Conditional(ip, target, taken)

BTBSpec == BTBInit /\ [][BTBNext]_btbVars

-----------------------------------------------------------------------------
\* A return is predicted where it goes (return_stack.h:18-21): the stack holds the
\* innermost open calls, however deep they were nested before, and the sizes of
\* the calls that were returned from are known, unless the entry is another
\* branch's, or the call itself was pushed out.
ReturnsGoHome ==
    /\ stack = SubSeq(open, Len(open) - Len(stack) + 1, Len(open))
    /\ \A ip \in DOMAIN Program :
          ( /\ Program[ip] = "RETURN"
            /\ stack # << >> /\ Last(open) \in returned
            /\ tag(ip) \in Table!Tags(direct)
            /\ Table!EntryOf(direct, tag(ip)).type = "RETURN" )
          => btb_prediction(ip) = ReturnTarget
=============================================================================

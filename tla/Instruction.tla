----------------------------- MODULE Instruction -----------------------------
(***************************************************************************)
(* What ooo_model_instr (inc/instruction.h) makes of an instruction of the *)
(* trace from the registers it reads and writes.  The stack pointer, the   *)
(* flags and the instruction pointer are told from all the others.         *)
(***************************************************************************)
EXTENDS TLC

StackPointer == "sp"
Flags == "flags"
InstructionPointer == "ip"

ReadsOther(instr) == instr.srcs \ {StackPointer, Flags, InstructionPointer} # {}

WritesIP(instr) == InstructionPointer \in instr.dsts

\* The kind of branch: at most one of the rules holds.
branch(instr) ==
    LET reads(reg) == reg \in instr.srcs
        stack == reads(StackPointer) /\ StackPointer \in instr.dsts
    IN  IF ~WritesIP(instr) THEN "NOT_BRANCH"
        ELSE CASE ~reads(StackPointer) /\ ~reads(Flags) /\ ~ReadsOther(instr) -> "DIRECT_JUMP"
               [] ~reads(StackPointer) /\ ~reads(InstructionPointer) /\ ~reads(Flags)
                    /\ ReadsOther(instr) -> "INDIRECT"
               [] reads(InstructionPointer) /\ StackPointer \notin instr.srcs \cup instr.dsts
                    /\ (reads(Flags) \/ ReadsOther(instr)) -> "CONDITIONAL"
               [] stack /\ reads(InstructionPointer) /\ ~reads(Flags) ->
                    IF ReadsOther(instr) THEN "INDIRECT_CALL" ELSE "DIRECT_CALL"
               [] stack /\ ~reads(InstructionPointer) -> "RETURN"
               [] OTHER -> "OTHER"

\* The trace may call another instruction a branch; it is one that is never taken.
is_branch(instr) == instr.is_branch \/ WritesIP(instr)

\* Only these two believe the trace.
branch_taken(instr) ==
    CASE branch(instr) = "NOT_BRANCH" -> FALSE
      [] branch(instr) \in {"CONDITIONAL", "OTHER"} -> instr.taken
      [] OTHER -> TRUE

\* do_stack_pointer_folding: the stack pointer is no result of a call, a return, a
\* push or a pop, only of a change by an amount that must be computed.
do_stack_pointer_folding(instr) ==
    IF StackPointer \in instr.dsts /\ (is_branch(instr) \/ instr.memory \/ ~ReadsOther(instr))
      THEN [instr EXCEPT !.dsts = @ \ {StackPointer}]
      ELSE instr
===============================================================================

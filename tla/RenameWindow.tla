---------------------------- MODULE RenameWindow ----------------------------
(***************************************************************************)
(* The register allocator under the protocol of the pipeline: results are  *)
(* renamed in program order, complete in any order and retire in program   *)
(* order; sources are renamed at any time.  One action per method.         *)
(***************************************************************************)
EXTENDS RegisterAllocator

CONSTANTS
    InstrIds,   \* producer ids
    Operands    \* places of a destination register in its instruction

ASSUME ResultAssumption == InstrIds \subseteq Nat /\ Operands \subseteq Nat

VARIABLES
    regs,     \* the allocator
    window    \* the results renamed and not retired, by <<instruction, operand>>

windowVars == <<regs, window>>

WindowInit == regs = FreshAllocator /\ window = << >>

\* A result comes after all those in flight.
RenameDest(reg, w) ==
    /\ \A v \in DOMAIN window : Before(v, w)
    /\ count_free_registers(regs) > 0
    /\ regs' = rename_dest_register(regs, reg, w[1])
    /\ window' = With(window, w, Head(regs.free))

RenameSource(reg) ==
    /\ isAllocated(regs, reg) \/ count_free_registers(regs) > 0
    /\ regs' = rename_src_register(regs, reg)
    /\ UNCHANGED window

CompleteDest(w) ==
    /\ regs' = complete_dest_registers(regs, {window[w]})
    /\ UNCHANGED window

\* The oldest result retires.
RetireDest(w) ==
    /\ \A v \in DOMAIN window : ~Before(v, w)
    /\ isValid(regs, window[w])
    /\ regs' = retire_dest_register(regs, window[w])
    /\ window' = Dropped(window, w)

WindowNext ==
    \/ \E reg \in ArchRegs :
          RenameSource(reg) \/ \E w \in InstrIds \X Operands : RenameDest(reg, w)
    \/ \E w \in DOMAIN window : CompleteDest(w) \/ RetireDest(w)

WindowSpec == WindowInit /\ [][WindowNext]_windowVars

-----------------------------------------------------------------------------

\* The types of the allocator's tables and of the window.
WindowTypeOK ==
    /\ regs \in Allocator(InstrIds)
    /\ window \in [DOMAIN window -> PhysRegs]
    /\ DOMAIN window \subseteq InstrIds \X Operands

\* No register is lost or given out twice.
RegistersPartitioned == Partitioned(regs, window)

LatestMapping == FrontendIsLatest(regs, window)
=============================================================================

---------------------------- MODULE CVPConverter ----------------------------
(***************************************************************************)
(* The converter of CVP-1 traces (tracer/cvp_converter/cvp2champsim.cc).   *)
(* It reads a trace twice: for the pages of code and data, then to write   *)
(* each instruction so that the simulator takes it for what it was.  A     *)
(* register is named by its number, those that mean something to the       *)
(* simulator as in Instruction; an address is its page.                    *)
(***************************************************************************)
EXTENDS Instruction, Integers, Sequences, FiniteSets, SequencesExt

CONSTANTS
    Records,           \* the instructions a trace may have
    FirstBump,         \* bump_page at first
    NumSources,        \* NUM_INSTR_SOURCES
    MaxRecords         \* bound on the length of a trace

LinkRegister == "30"   \* X30
AX == "56"

Branches == {"condBranch", "uncondDirectBranch", "uncondIndirectBranch"}
Memory == {"load", "store"}

\* What trace::read accepts: only a conditional branch may not be taken.
IsRecord(r) ==
    /\ r.type \in Branches \cup Memory \cup {"alu", "fp", "slowAlu"}
    /\ r.type \in Branches \ {"condBranch"} => r.taken
    /\ r.pc \in Nat /\ r.type \in Memory => r.ea \in Nat
    /\ {r.inputs, r.outputs} \subseteq Seq(STRING)

\* Records are ones that trace::read accepts, and pages are numbers.
ASSUME ConverterAssumption == (\A r \in Records : IsRecord(r)) /\ FirstBump \in Nat

VARIABLES
    cvp,               \* the trace, as far as the first pass has read it
    preprocessed,
    code_pages, data_pages, remapped_pages, bump_page,
    output

converterVars ==
    <<cvp, preprocessed, code_pages, data_pages, remapped_pages, bump_page, output>>

ConverterInit ==
    /\ cvp = << >> /\ preprocessed = FALSE /\ output = << >>
    /\ code_pages = {} /\ data_pages = {}
    /\ remapped_pages = << >> /\ bump_page = FirstBump

-----------------------------------------------------------------------------
\* preprocess_file: one more record, and the end of the file.
Preprocess ==
    /\ ~preprocessed
    /\ \/ \E r \in Records :
            /\ Len(cvp) < MaxRecords
            /\ cvp' = Append(cvp, r)
            /\ code_pages' = code_pages \cup {r.pc}
            /\ data_pages' = data_pages \cup (IF r.type \in Memory THEN {r.ea} ELSE {})
            /\ UNCHANGED preprocessed
       \/ preprocessed' = TRUE /\ UNCHANGED <<cvp, code_pages, data_pages>>
    /\ UNCHANGED <<remapped_pages, bump_page, output>>

\* transform: a data page that is also a code page gets a page of its own.
Remaps(page) == page \in code_pages /\ page \notin DOMAIN remapped_pages

MutantNewPage ==
    CHOOSE p \in bump_page .. bump_page + Cardinality(code_pages) :
        p \notin code_pages /\ \A q \in bump_page .. p - 1 : q \in code_pages

NewPage ==
    LET taken == code_pages \cup data_pages
    IN  CHOOSE p \in bump_page .. bump_page + Cardinality(taken) :
            p \notin taken /\ \A q \in bump_page .. p - 1 : q \in taken

transform(page) ==
    IF page \notin code_pages THEN page
    ELSE IF page \in DOMAIN remapped_pages THEN remapped_pages[page] ELSE NewPage

\* The kind of branch, from its class and the use of the link register: a branch
\* whose only input is the link register is a return, also if it writes it.
OpType(r) ==
    LET indirect == r.type = "uncondIndirectBranch"
    IN  CASE r.type = "condBranch" -> "CONDITIONAL"
          [] r.type # "condBranch" /\ r.inputs = <<LinkRegister>> -> "RETURN"
          [] r.type # "condBranch" /\ r.inputs # <<LinkRegister>> ->
                IF r.outputs = <<LinkRegister>>
                  THEN IF indirect THEN "INDIRECT_CALL" ELSE "DIRECT_CALL"
                  ELSE IF indirect THEN "INDIRECT" ELSE "DIRECT_JUMP"

\* The registers by which the simulator knows each kind.
SourcesOf(type) ==
    CASE type = "DIRECT_JUMP" -> {}
      [] type = "CONDITIONAL" -> {InstructionPointer, Flags}
      [] type = "INDIRECT_CALL" -> {InstructionPointer, StackPointer, AX}
      [] type = "DIRECT_CALL" -> {InstructionPointer, StackPointer}
      [] type = "INDIRECT" -> {AX}
      [] type = "RETURN" -> {StackPointer}

DestinationsOf(type) ==
    {InstructionPointer}
      \cup (IF type \in {"DIRECT_CALL", "INDIRECT_CALL", "RETURN"} THEN {StackPointer} ELSE {})

BranchRecord(r) ==
    LET type == OpType(r)
    IN  [srcs |-> SourcesOf(type), dsts |-> DestinationsOf(type), is_branch |-> TRUE,
         taken |-> IF type \in {"CONDITIONAL", "DIRECT_JUMP"} THEN r.taken ELSE TRUE,
         memory |-> FALSE, page |-> -1]

MutantRenamed(x) ==
    CASE x = StackPointer -> "65"
      [] x = Flags -> "66"
      [] x = "0" -> "67"
      [] OTHER -> x

\* A register of the CVP-1 machine whose number means something here has another.
Renamed(x) ==
    CASE x = InstructionPointer -> "64"
      [] x = StackPointer -> "65"
      [] x = Flags -> "66"
      [] x = "0" -> "67"
      [] OTHER -> x

\* Only the first result is kept; an instruction without one writes register 0.
\* branch_taken is whatever was in memory: nobody sets it.
OtherRecord(r, stale) ==
    LET inputs == SubSeq(r.inputs, 1, IF Len(r.inputs) > NumSources THEN NumSources
                                      ELSE Len(r.inputs))
    IN  [srcs |-> {Renamed(inputs[i]) : i \in DOMAIN inputs},
         dsts |-> {Renamed(IF r.outputs = << >> THEN "0" ELSE Head(r.outputs))},
         is_branch |-> FALSE, taken |-> stale, memory |-> r.type \in Memory,
         page |-> IF r.type \in Memory THEN transform(r.ea) ELSE -1]

\* main: the next record of the second pass.
Convert ==
    /\ preprocessed /\ Len(output) < Len(cvp)
    /\ LET r == cvp[Len(output) + 1]
           remaps == r.type \in Memory /\ Remaps(r.ea)
       IN  /\ \E stale \in BOOLEAN :
                 output' = Append(output, IF r.type \in Branches THEN BranchRecord(r)
                                          ELSE OtherRecord(r, stale))
           /\ remapped_pages' =
                 IF remaps THEN [page \in DOMAIN remapped_pages \cup {r.ea} |-> transform(page)]
                 ELSE remapped_pages
           /\ bump_page' = IF remaps THEN NewPage + 1 ELSE bump_page
    /\ UNCHANGED <<cvp, preprocessed, code_pages, data_pages>>

ConverterNext == Preprocess \/ Convert

ConverterSpec == ConverterInit /\ [][ConverterNext]_converterVars

-----------------------------------------------------------------------------
\* The simulator takes every instruction for what it was: a branch for one of its
\* kind and outcome, and no other instruction for a branch, whatever it writes.
BranchesAreRecognized ==
    \A i \in DOMAIN output :
        IF cvp[i].type \in Branches
          THEN /\ branch(output[i]) = OpType(cvp[i])
               /\ branch_taken(output[i]) = cvp[i].taken
          ELSE /\ branch(output[i]) = "NOT_BRANCH" /\ ~is_branch(output[i])
               /\ ~branch_taken(output[i])

\* Data never lies in a page of code, and accesses share a page in the output just
\* when they did in the trace.
DataStaysApart ==
    LET accesses == {i \in DOMAIN output : output[i].memory}
    IN  \A i \in accesses :
           /\ output[i].page \notin code_pages
           /\ \A j \in accesses : output[i].page = output[j].page <=> cvp[i].ea = cvp[j].ea
=============================================================================

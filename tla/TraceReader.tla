---------------------------- MODULE TraceReader -----------------------------
(***************************************************************************)
(* The reading of a trace (inc/tracereader.h, inc/repeatable.h): in blocks *)
(* that fill a buffer, keeping one instruction back because the target of  *)
(* a branch is the instruction after it, and from the start again if the   *)
(* trace repeats.  An instruction is its place in the trace.               *)
(***************************************************************************)
EXTENDS Integers, Sequences, SequencesExt

CONSTANTS
    Traces,            \* traces: for each instruction, whether it is a taken branch
    buffer_size,
    refresh_thresh

\* The buffer of the code, 128 instructions refilled when one is left, or another of
\* three or more, and traces that have an instruction.
ASSUME ReaderAssumption ==
    /\ refresh_thresh = 1 /\ buffer_size \in Nat /\ buffer_size >= 3
    /\ Traces \subseteq Seq(BOOLEAN) \ {<< >>}

VARIABLES
    trace, repeats,    \* the trace, and whether it is a repeatable
    position,          \* instructions read from the file
    file_eof,          \* a read has met the end of the file
    instr_buffer,
    latest, previous   \* history: the two instructions delivered last

readerVars == <<trace, repeats, position, file_eof, instr_buffer, latest, previous>>

None == [ip |-> 0, target |-> 0]

ReaderInit ==
    /\ trace \in Traces
    /\ repeats \in BOOLEAN
    /\ position = 0
    /\ file_eof = FALSE
    /\ instr_buffer = << >>
    /\ latest = None
    /\ previous = None

\* bulk_tracereader::eof; a repeatable has no end.
BulkEof == file_eof /\ Len(instr_buffer) <= refresh_thresh
eof == BulkEof /\ ~repeats

\* set_branch_targets: the last instruction waits for the next block.
Targeted(buffer) ==
    [i \in DOMAIN buffer |->
        IF i = Len(buffer) THEN buffer[i]
        ELSE [buffer[i] EXCEPT !.target = IF trace[buffer[i].ip] THEN buffer[i + 1].ip ELSE 0]]

\* One block of the file, from an instruction on, and what is then in the buffer.
Read(from) ==
    LET room == buffer_size - refresh_thresh
    IN  IF from + room <= Len(trace) THEN room ELSE Len(trace) - from

Refilled(buffer, from) ==
    Targeted(buffer \o [i \in 1 .. Read(from) |-> [ip |-> from + i, target |-> 0]])

MutantNeedsRefill(buffer) == buffer = << >>

NeedsRefill(buffer) == Len(buffer) <= refresh_thresh

\* One call of the reader; a repeatable opens the trace anew at its end.
ReaderNext ==
    LET again  == repeats /\ BulkEof
        from   == IF again THEN 0 ELSE position
        kept   == IF again THEN << >> ELSE instr_buffer
        refill == NeedsRefill(kept)
        buffer == IF refill THEN Refilled(kept, from) ELSE kept
    IN  /\ ~eof
        /\ position' = IF refill THEN from + Read(from) ELSE from
        /\ file_eof' = IF refill THEN from + buffer_size - refresh_thresh > Len(trace)
                                 ELSE file_eof
        /\ instr_buffer' = Tail(buffer)
        /\ latest' = Head(buffer)
        /\ previous' = latest
        /\ UNCHANGED <<trace, repeats>>

ReaderSpec == ReaderInit /\ [][ReaderNext]_readerVars

-----------------------------------------------------------------------------
\* The instructions come in the order of the trace, across the blocks and the
\* repetitions, each with the address of the one after it as the target of a taken
\* branch; at most the last one of the trace, whose target is not known, is
\* dropped (tracereader.h:102-139).
TraceInOrder ==
    LET last == Len(trace)
    IN  /\ latest.ip # 0 =>
              /\ \/ latest.ip = previous.ip + 1
                 \/ latest.ip = 1 /\ repeats /\ previous.ip >= last - 1
              /\ latest.target = IF latest.ip < last /\ trace[latest.ip] THEN latest.ip + 1 ELSE 0
        /\ eof => latest.ip >= last - 1
=============================================================================

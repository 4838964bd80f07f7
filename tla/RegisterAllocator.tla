------------------------- MODULE RegisterAllocator --------------------------
(***************************************************************************)
(* RegisterAllocator (src/register_allocator.cc): the operations of the    *)
(* physical register file, on a record ra of its members.  RenameWindow    *)
(* runs them under the protocol of a pipeline, Backend in the pipeline.    *)
(***************************************************************************)
EXTENDS Integers, Sequences

CONSTANTS
    ArchRegs,           \* the architectural registers a program names
    RegisterFileSize    \* REGISTER_FILE_SIZE

\* The tables have one entry for each value of a uint8_t.  isAllocated is also
\* asked of physical registers, so a larger file would index past their end.
RatSize == 256

ASSUME RegisterAssumption ==
    /\ ArchRegs \subseteq 0 .. RatSize - 1
    /\ RegisterFileSize \in 1 .. RatSize

PhysRegs == 0 .. RegisterFileSize - 1

Unmapped == -1

\* The allocator's members; register 255 is a free register's.
Allocator(Producers) ==
    [frontend : [ArchRegs -> PhysRegs \cup {Unmapped}],
     backend  : [ArchRegs -> PhysRegs \cup {Unmapped}],
     free     : Seq(PhysRegs),
     file     : [PhysRegs -> [arch : ArchRegs \cup {0, 255}, producer : Producers \cup {0},
                              valid : BOOLEAN, busy : BOOLEAN]]]

\* physical_register; a producer of 0 is "committed before the trace began".
FreeRegister == [arch |-> 255, producer |-> 0, valid |-> FALSE, busy |-> FALSE]

FreshAllocator ==
    [frontend |-> [r \in ArchRegs |-> Unmapped],
     backend  |-> [r \in ArchRegs |-> Unmapped],
     free     |-> [i \in 1 .. RegisterFileSize |-> i - 1],
     file     |-> [p \in PhysRegs |-> [arch |-> 0, producer |-> 0,
                                    valid |-> FALSE, busy |-> FALSE]]]

count_free_registers(ra) == Len(ra.free)

\* The program uses no other entry of the table, so those stay unmapped.
isAllocated(ra, i) == i \in ArchRegs /\ ra.frontend[i] # Unmapped

isValid(ra, p) == ra.file[p].valid

\* A new register for the result of instruction id.
rename_dest_register(ra, reg, id) ==
    [frontend |-> [ra.frontend EXCEPT ![reg] = Head(ra.free)],
     backend  |-> ra.backend,
     free     |-> Tail(ra.free),
     file     |-> [ra.file EXCEPT ![Head(ra.free)] =
                     [arch |-> reg, producer |-> id,
                      valid |-> FALSE, busy |-> TRUE]]]

\* A register that was never written is given one in both tables: its last
\* write is taken as committed.
rename_src_register(ra, reg) ==
    IF ra.frontend[reg] # Unmapped THEN ra
    ELSE [frontend |-> [ra.frontend EXCEPT ![reg] = Head(ra.free)],
          backend  |-> [ra.backend EXCEPT ![reg] = Head(ra.free)],
          free     |-> Tail(ra.free),
          file     |-> [ra.file EXCEPT ![Head(ra.free)] =
                          [arch |-> reg, producer |-> 0,
                           valid |-> TRUE, busy |-> TRUE]]]

\* complete_dest_register for each of the registers P of an instruction.
complete_dest_registers(ra, P) ==
    [frontend |-> ra.frontend, backend |-> ra.backend, free |-> ra.free,
     file |-> [p \in PhysRegs |-> [arch  |-> ra.file[p].arch,
                                   producer |-> ra.file[p].producer,
                                   valid |-> p \in P \/ ra.file[p].valid,
                                   busy  |-> ra.file[p].busy]]]

\* The write of p commits: the register that held the previous committed value
\* of the same architectural register is free again.
MutantRetireFreesFrontend(ra, p) ==
    LET old == ra.frontend[ra.file[p].arch]
    IN  [frontend |-> ra.frontend,
         backend  |-> [ra.backend EXCEPT ![ra.file[p].arch] = p],
         free     |-> IF old = p THEN ra.free ELSE Append(ra.free, old),
         file     |-> IF old = p THEN ra.file
                      ELSE [ra.file EXCEPT ![old] = FreeRegister]]

retire_dest_register(ra, p) ==
    LET old == ra.backend[ra.file[p].arch]
    IN  [frontend |-> ra.frontend,
         backend  |-> [ra.backend EXCEPT ![ra.file[p].arch] = p],
         free     |-> IF old = Unmapped THEN ra.free ELSE Append(ra.free, old),
         file     |-> IF old = Unmapped THEN ra.file
                      ELSE [ra.file EXCEPT ![old] = FreeRegister]]
-----------------------------------------------------------------------------

\* The results of the instructions in flight: a function from <<instruction,
\* operand>> to the register that holds the result, in the order of the program.
Before(v, w) == v[1] < w[1] \/ (v[1] = w[1] /\ v[2] < w[2])

Distinct(f) == \A i, j \in DOMAIN f : f[i] = f[j] => i = j

Members(f) == {f[i] : i \in DOMAIN f}

\* One more result, or one less.
With(f, x, y) == [z \in DOMAIN f \cup {x} |-> IF z = x THEN y ELSE f[z]]

Dropped(f, x) == [z \in DOMAIN f \ {x} |-> f[z]]

Committed(a) == {a.backend[r] : r \in ArchRegs} \ {Unmapped}

\* Every physical register is in exactly one place: in the free queue, waiting
\* to retire, or holding the committed value of one architectural register.
\* None is lost, and none is given out twice, however renames, completions and
\* retirements interleave (retire_dest_register frees the replaced register).
Partitioned(a, pending) ==
    /\ Distinct(a.free) /\ Distinct(pending)
    /\ Members(a.free) \cap Members(pending) = {}
    /\ Members(a.free) \cap Committed(a) = {}
    /\ Members(pending) \cap Committed(a) = {}
    /\ Members(a.free) \cup Members(pending) \cup Committed(a) = PhysRegs
    /\ \A r, s \in ArchRegs :
          a.backend[r] = a.backend[s] /\ a.backend[r] # Unmapped => r = s

\* The frontend table names the youngest result of each architectural register
\* that has not retired, and the committed one when there is none: what a
\* source renamed now must read.
LatestOf(a, pending, r) ==
    \/ /\ a.frontend[r] = a.backend[r]
       /\ \A i \in DOMAIN pending : a.file[pending[i]].arch # r
    \/ \E i \in DOMAIN pending :
          /\ a.frontend[r] = pending[i]
          /\ a.file[pending[i]].arch = r
          /\ \A j \in DOMAIN pending : a.file[pending[j]].arch = r => ~Before(i, j)

FrontendIsLatest(a, pending) == \A r \in ArchRegs : LatestOf(a, pending, r)
=============================================================================

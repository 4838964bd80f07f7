# Verification of ChampSim with the Hawkeye replacement policy

The repository is ChampSim, a trace-driven, cycle-level simulator of cores and
memory hierarchies, with a replacement policy of its own,
`replacement/hawkeye`. Paths below are relative to the repository.

This directory holds TLA+ models of the program, configurations with which TLC
checks them, and proofs for TLAPS. `PROJECT.json` maps every definition to the
lines it models and lists the components, runs, mutants, findings, hazards and
theorems.

## 1. Inventory

| component | state it keeps | operations | who calls it |
|---|---|---|---|
| O3_CPU front end (`src/ooo_cpu.cc`) | `input_queue`, `IFETCH_BUFFER`, `DIB_HIT_BUFFER`, `DECODE_BUFFER`, `DISPATCH_BUFFER`, DIB | initialize, check DIB, fetch, promote, decode | the driver, once per cycle of its clock |
| O3_CPU back end | `ROB`, `LQ`, `SQ` | dispatch, schedule, execute, complete, the load/store queues, retire | the same `operate()` |
| register allocator (`src/register_allocator.cc`) | free list, register file, two alias tables | rename, complete, retire | the back end |
| branch predictors, BTB (`branch/`, `btb/`) | counters, perceptrons, histories, tables, return stack | predict, update | the front end |
| CACHE (`src/cache.cc`) | `block`, `MSHR`, `inflight_fills`, `inflight_tag_check`, `translation_stash`, `internal_PQ` | `operate`, `prefetch_line` | the driver; its prefetcher |
| channel (`src/channel.cc`) | `RQ`, `WQ`, `PQ` (bounded), `returned` | `add_rq`, `add_wq`, `add_pq` | the upper component adds requests, the lower takes them and pushes responses |
| hawkeye (`replacement/hawkeye/`) | OPTgen's window per set, predictor counters, RRIP values, `pcHistory` | `find_victim`, `replacement_cache_fill`, `update_replacement_state` | CACHE, from `handle_fill` and `try_hit` |
| lru, srrip, drrip, ship | ages or values per way; PSEL, sampler, SHCT | the same hooks | CACHE |
| prefetchers (`prefetcher/`) | tables of strides, signatures and access maps | `prefetcher_cache_operate`, `prefetcher_cycle_operate` | CACHE |
| page table walker (`src/ptw.cc`) | `MSHR`, `finished`, `completed`, a cache per upper level | `operate` | the driver |
| virtual memory (`src/vmem.cc`) | free pages, page map, page table | `va_to_pa`, `get_pte_pa` | page table walkers |
| DRAM controller (`src/dram_controller.cc`) | per channel `RQ`, `WQ`, `bank_request`, `active_request`, `write_mode`, refresh | `operate` and its steps | the driver |
| address slices (`inc/address.h`, `inc/extent*.h`) | - | slice, split, splice, offset | everything; here the address mapping of the DRAM |
| `lru_table`, counters (`inc/msl/`) | blocks with times of use | `check_hit`, `fill`, `invalidate` | DIB, walker, BTB, prefetchers |
| phase driver (`src/champsim.cc`, `src/operable.cc`) | completed phases, counters of stalls, clocks | `do_phase`, `do_cycle` | `main` |
| trace reader (`inc/tracereader.h`) | buffer of instructions | `operator()` | the driver, for each core |
| CVP converter (`tracer/cvp_converter/`) | pages of code and data, remapped pages | two passes over a trace | a program of its own |
| statistics, printers, option parsing, generated code, `config/*.py`, pin tracer | - | input, output, generation | - |

Everything runs in one thread. In each cycle the driver calls `operate()` of
every component once per period of its clock; components communicate through
channels, and CACHE and O3_CPU call their policies, prefetchers and predictors
from inside `operate()`. Nothing is locked and nothing is persisted. The hard
behaviours are **ordering** (which request or instruction meets which, in which
phase of a cycle), **retries** (what does not fit is tried again next cycle,
with the side effects of the part that did run), **bounded queues that wait on
each other**, **responses that finish more than they were asked for** (merged
reads, shared blocks), and **copies of state** that must stay in step.

`PROJECT.json` lists the hazards at the lines where they bite, and the
properties for each.

## 2. Modules

    Channel                           channel.cc: the queues everything talks through
    Cache, MCCache                    cache.cc between channels
    Instruction                       kinds of branches and stack-pointer folding
    Frontend, MCFrontend              O3_CPU from initialize_instruction to dispatch
    RegisterAllocator                 its tables and operations, as operators
    Backend, MCBackend                O3_CPU from dispatch to retirement
    RenameWindow                      RegisterAllocator under the calls of any core
    VirtualMemory                     vmem.cc, and its calls in any order
    PageTableWalker, MCPageTableWalker  ptw.cc over VirtualMemory
    DRAM, AddressMapping, MCDRAM      dram_controller.cc; bit slices and the address mapping
    ReuseIntervals                    what OPTgen promises: interval packing
    OPTgen, OPTgenTrace               optgen.cc; a history of its answers
    RRPVTable, RRIP, RRIPSearch       rrip.cc; find_victim as a step, and as a loop
    Hawkeye, HawkeyeTrace             hawkeye.cc and predictor.cc over both
    FwCounter, RRIPPolicies           srrip, drrip and ship
    LRUTable, LRUBlocks               a set of an lru_table as a list, and as blocks; lru
    SPP, IPStride, AMPM               prefetchers
    BranchPredictors, BTB             predictors
    TraceReader, CVPConverter         where instructions come from
    Simulation                        do_phase, do_cycle and the clocks
    Modules, MCModules                the small parts together, one per behaviour
    SequenceCounts                    lemmas: how many entries of a queue are in a set
    *Proofs                           theorems

### Cache

One `operate()` is a walk through phases, one packet per step, in the order of
cache.cc:417-522: returns (lower level and translations), fills, initiation of
tag checks from the translation stash, the upper levels and `internal_PQ`,
stashing of untranslated lookups, hits, misses, end. A stalled miss goes back
to the front and is looked up again, with all `try_hit` does. The victim is any
way, or a bypass when the fill is not a write (the assertion at cache.cc:181),
so the runs hold for every replacement policy; a prefetcher may ask for any
line. With `Translates` the cache sends untranslated packets to a translating
level that may merge two requests of a page, as a TLB does. Above and below are
external: requests with and without an answer on any queue; a level that takes
packets and answers in any order. They act between two calls of `operate()`.
`asked`, `answered`, `others`, `written`, `demoted` and the field `told` are
history. Which set and page a line belongs to are constants.

### O3_CPU

`Frontend` and `Backend` each walk through the stages of `operate()` in the
code's order (retire first, so that an instruction moves one stage per cycle).
They meet at `DISPATCH_BUFFER`: in `Frontend` an external action takes
instructions and says when a branch has executed; in `Backend` an external
action delivers them. Ready times are counted down and only matter past
`promote`. `Frontend` models what `initialize_instruction` decides: the kind of
the branch and stack-pointer folding come from `Instruction`; the prediction is
any answer, and a wrong one stops fetch until decode or execution, by the kind.
The DIB is one set of windows.

`Backend` composes the reorder buffer with `RegisterAllocator`, the load and
store queues and the L1D channel. Programs and core sizes are sets of constants
and the behaviour starts with one of each. `isAllocated` is asked of registers
that are physical already for an instruction that was renamed
(ooo_cpu.cc:415); the model does the same, and the liveness property shows that
the count only delays. A time is a countdown; one that never comes is the constant
`Never`. A load's `producer` and a store's `waiters` are the code's
`producer_id` and `lq_depend_on_me`; results in flight are named by instruction
and operand. `RenameWindow` is the allocator alone, under every sequence of
calls a core may make.

### Translation

`PageTableWalker` has one step per packet of `operate()`: completed walks are
answered, returns finish the steps of every walk of the block, `finished` walks
go on a level lower, reads are taken up to MAX_READ. Each level has a page
structure cache (one set). Several page tables may share a frame: the address of
one is a pair of the frame and its piece. Four facts of the code that look odd
and are modelled as they are: a new walk reads the entry one level below the one
a reader expects (the offset of the level under the root), a hit in the last
cache reads its entry twice, `MSHR_SIZE` is not enforced, and the first read of a
walk drops the piece (`FirstPiece`; ptw.cc:69, section 5). Requests always
want an answer, as an STLB's do. Only one core walks; other cores reach the
same `VirtualMemory` in `VMSpec`, which the proof is about. The order of
`ppage_free_list`, which may be shuffled, is an arbitrary choice.

### DRAM

One channel and its controller; `operate()` in its order: taking new requests,
collisions in both queues, finishing the bus, swapping modes, refresh, putting a
request on the bus, scheduling a packet and serving it. Waits are counted down
from the latencies. `AddressMapping` is the code's arithmetic of bit slices,
with the swizzling of bank and bankgroup by the row.
It has no behaviour: `MCDRAM` states what must hold as named assumptions, which
TLC evaluates over every address of small memories and every slice of 4 bits,
and shows that the `BankOf`, `RowOf` and `GroupOf` of the run are the mapping's.

### Hawkeye

`OPTgen`: `totalSets[s]` is a record with the four fields of `setInfo`; an absent
key of the map is `-1`. `ReuseIntervals` is the specification: a trace, the
intervals between successive uses of a line no longer than the window, and the
greedy acceptance of an interval when no slot is full. It has neither a sliding
vector nor a map; `ImplementsReuseIntervals` checks every answer against it.
`MatchesOptimal` compares with something stronger: `reach` computes, by dynamic
programming over the contents of the set, the most hits *any* policy with
bypassing can have had.

`RRIP` has `find_victim` as one step; `RRIPSearch` runs its `while (1)`. From
outside the table changes when the search returns. `goesBefore` records the
order in which lines ought to be evicted.

`Hawkeye` has one action per hook and outcome, the refused fill included
(cache.cc:208). `pcHistory` is kept apart from OPTgen's window as in the code,
and `MirrorCoherent` says that they agree. The predictor's hash is any function.

### The small parts

`MCModules` is a disjoint sum (it extends the modules there are proofs about, and
instantiates the others): a behaviour chooses a component at the start,
moves that one, and leaves the others alone; the bounds are per component.

* `RRIPPolicies`: srrip, drrip and ship as variants that share their table,
  reached as CACHE reaches them, so that srrip is not told of fills.
  `brrip_counter` starts with any value (drrip.h:24 leaves it uninitialised).
  ship's PCs are not hashed.
* `LRUBlocks` has blocks with times of use, the comparators of `lru_table` and
  holes left by `invalidate`; beside it runs the ordered list (`LRUTable`) with
  which the DIB, the walker, the BTB and the prefetchers are modelled, and
  `BlocksAreEntries` says that they are the same. It is proved (section 4), so what
  is proved of a module that has the list holds of the table as coded.
* `SPP`: the four tables and the lookahead, in the order of the code; sizes are
  constants. The queues of one lookup are long enough: an index past `MSHR_SIZE`
  would be outside the code's vectors. The first pass leaves an entry of
  confidence 100 and delta 0, and gaps in the queue make entries be processed
  again, as in the code.
* `BranchPredictors`: four predictors see one stream of branches.
* `BTB`: direct, indirect and return predictions; call sizes are learnt.
* `TraceReader`: refills, branch targets, the end of the file, repeats. The last
  instruction of a trace is dropped unless the length is a multiple of what one
  refill reads.
* `CVPConverter`: both passes. Composed with `Instruction`, so that the record
  it writes is read by the simulator's own rules. An instruction with no result
  writes register 67, the name X0 gets; X26 and the flags register both become
  64; a branch whose only input is X30 is a return even if it writes X30.
* `Simulation`: operables with clocks of different periods; the order of
  operables within a cycle is left open. What an operable does is progress or
  none, and how many instructions a core retires. A phase that ends at the end
  of a trace may leave instructions in flight.

`next_line` keeps no state and has no module.

## 3. Runs

| run | shows | bounds |
|---|---|---|
| `hawkeye` | `MirrorCoherent`, `TrainingIsAttributed` | one set of 2 ways, 3 lines, 2 PCs, window 2, 5 accesses |
| `modules` | OPTgen (`WindowInv`, `MatchesOptimal`, `ImplementsReuseIntervals`), hawkeye's search (`EvictionOrder`, `SearchEnds`, `ImplementsRRIP`), the rename window, the other policies and lru_table (`VictimsAreOldest`: `VictimIsLeastRecent`, `RecentlyHitSurvives`, `BlocksAreEntries`), prefetchers and predictors (`LookaheadContinuesStride`, `TablesRemember`), trace input (`TracesKeepTheProgram`: `TraceInOrder`, `BranchesAreRecognized`, `DataStaysApart`), `SimulationEnds` | as in `MCModules`: for OPTgen one set of 2 ways, 4 lines, window 6, 9 accesses; 3 ways for the search, 4 registers, 5 to 8 calls |
| `cache_llc` | `CacheTypeOK`, `AnswersMatchMSHR`, `WrittenIsDirtyUnlessMerged`, `EveryRequestOwedOnce` | 2 upper levels, 2 lines for 1 way, 2 MSHRs, 2 tag checks per cycle, 3 requests |
| `cache_l1` | `NoDuplicateBlock`, the stash, `EveryRequestAnswered` | stores, translation, 3 lines for 2 ways, empty or full of dirty lines, 1 MSHR, queues of one packet, 2 requests |
| `backend` | the properties of `Backend`, `EveryInstructionRetires` | 3 programs of 4 instructions, two cores |
| `frontend` | the properties of `Frontend`, `EveryInstructionDelivered` | 3 programs of 4 instructions, 6 configurations |
| `dram` | the properties of `DRAM`, `EveryReadAnswered`, the address mapping | 2 banks, 2 lines, queues of 2 |
| `translation` | walks, `FramesDistinct`, `EveryWalkEnds` | 3 levels, 2 pages, 6 frames of 2 page tables |
| `lost_dirty` | violation of `WrittenIsDirty` | 1 MSHR, 3 requests |
| `repeated_update` | violation of `ToldOncePerLookup` | 1 MSHR, 3 requests |
| `srrip_fill` | violation of `FilledIsLong` | 2 ways, 3 lines, 4 calls |
| `other_table` | violation of `StepsReadTheirTables` | as `translation` |

Why the bounds are enough to be interesting:

* OPTgen: sets do not interact. Nine accesses outgrow a window of six, with four
  lines for two ways: intervals are refused, overlap, and leave the window with
  and without a later use. Lines are
  numbers and new ones come in order (`NewLinesInOrder`): no definition tells one
  from another, so each trace stands for all its renamings.
* Cache: with two lines for one way every fill evicts; queues of one packet
  refuse writebacks and misses; of three requests one can hold the only MSHR,
  one wait, and one evict or merge. Two tag checks per cycle let a write and a
  load of a line meet; two MSHRs make the swap of `finish_packet` matter. The L1
  run has two requests, because of the size of the graph liveness needs; it starts
  also with a set of two dirty lines, where the cache is after two stores were
  answered (`StoredInit`). So a miss evicts and its fill waits, with the request it
  will answer, until the lower level has taken the writeback or miss before it.
* Backend: queues of 2, 4 physical registers for 2 architectural ones, so
  renaming waits for retirement; the programs have a store between loads of its
  address, loads of one block, a register written twice by one instruction.
* Frontend: two DIB windows in one way, so the DIB hits and misses within four
  instructions, buffers of 1 to 3.
* DRAM: refresh is due every 3 cycles, so that it meets packets in every stage,
  and one write decides the mode of a queue of 2. There is one upper level; that
  reads of several levels merge is left to the theorem about `EveryReadOwedOnce`.
* Translation: the pages part at the second level, where their entries share a
  block, so that a response finishes both walks. A frame has two page tables, so
  the second one is what the first read of a walk misses, and the active page
  changes at every other table. `MaxSame` is one: while the L1D works on a block it
  merges further reads of it; a read that comes when the answer has left gets an
  answer of its own, so two answers for one block can be under way.
* Modules: each bound fills the component's tables and makes it replace,
  wrap or refill at least once; spp needs six accesses to look ahead.

`CHECK_DEADLOCK FALSE` is set where the calls are bounded (`hawkeye`, `modules`,
`srrip_fill`): the models stop at the bound. The other runs never
stop, and TLC checks them for deadlock.

One type invariant is checked on its own (`CacheTypeOK`). Those of other modules
are conjuncts of an invariant that needs them: `QueuesInOrder` in
`MemOpsAccounted`, `BuffersBounded` in `ProgramOrderRestored`, `DRAMTypeOK` in
`BankPacketsExist`, `PTWTypeOK` in `StepsOutstanding`, `SetTypeOK` in
`WindowInv`.

**Fairness.** Every component is called again and again by the driver, and its
`operate()` returns. `Backend`, `Frontend`, `DRAM` and `PageTableWalker` say
this as the `StartCycle` of each call happening infinitely often: it is enabled only
after the stages of the call before, so it is the weak fairness of the driver's
loop and of every stage. `Cache` has weak fairness of `Operate`. External
actions (upper levels that read responses, lower levels that take and answer,
the other half of the core) have strong fairness, since they are enabled only
between two calls; what is assumed is that the driver calls those components
too and that they do not refuse for ever. It is one assumption per kind, not
one per line or queue: the lower level may prefer one. `RRIPSearch` and
`Simulation` are loops of the one thread, with weak fairness.
Requests are bounded in number, so starvation by endless writes is outside what
the runs show. It does exist: a DRAM write queue that is refilled above its low
watermark keeps the channel in write mode, and a refresh that takes longer than
its period leaves no time for anything else. A write queue of one entry makes the
channel swap modes in every cycle and take back all it began, so `EveryReadAnswered`
is claimed for two entries or more (the run has two); the safety theorems include one.

Every property has a mutant in `PROJECT.json`: a plausible slip in the code
that TLC finds through that property.

## 4. Proofs

All for every value of the constants that the named assumptions allow.

* `HawkeyeProofs`, on OPTgen: `OPTgenTypeCorrect`, `WindowConsistent`. The invariant is
  `SetInv`: both deques have the same length, at most HistoryLength, and the
  number of accesses until the window is full; occupancies within the
  associativity; a record lies in the window and names the line that made that
  access; each line of the window has a record at or after it. None is inductive
  alone: that dropping the oldest access keeps records exact needs that the
  record is the latest, and the bound on the occupancy needs that a record's
  interval lies inside the vector. `RecordedInv` proves one call on one set,
  `OPTgenStep` lifts it.
* `HawkeyeProofs`, on RRIP: `SearchTypeCorrect`,
  `EvictionOrderKept`, `SearchImplementsRRIP` (the refinement). `SearchInv` adds
  `AgedAlike`: during a search every value exceeds the value at the call by the
  same amount. That a first of the oldest lines exists is `LeastOf`, taken from
  the well-foundedness of the naturals.
* `CacheProofs`: all seven invariants of `Cache`, from
  `CacheAssumption` alone: any upper levels, sets, ways, sizes, latencies, pages,
  `prefetch_as_load`, and so on. They need one another in this order:
  - `CacheTypeCorrect`. `TypeInv` adds to the types what a cycle still may do: the
    lookups in flight and the rest of the budget together stay below
    MAX_TAG * HIT_LATENCY, which is how `TagCheckRoom` keeps the next cycle within
    it, and nothing is half decided outside its phase.
  - `MSHRsMatchAnswers`. `Matched` adds that a writeback asks for no answer.
  - `NoBlockTwice`, for caches whose writes are stores. `Single` counts a line over
    ways, MSHRs and fills together, and says that a lookup that missed still misses
    when it is handled, although lookups before it are handled in between.
    With writebacks it is false (section 5), so the hypothesis stays.
  - `StashStaysServable`. `Stashed` bounds the stash together with the
    untranslated lookups in flight, since those may all join it;
    they started when there was room.
  - `TranslationsComeBack`. `Awaited` says it of each place: lookups being
    checked are translated already, and prefetches in `internal_PQ` have not asked.
  - `RequestsAreOwedOnce`. `Addressed` says that each request, lookup, MSHR and
    fill answers the level that asked, without which a merge could answer the wrong
    one; `OwedOnce` counts the places.
  - `WritesAreKept`. `Dirty` follows a written line through ways, MSHRs and fills.
  The proofs are in layers. `SequenceCounts` says what push, pop, replace, join
  and select do to the number of entries in a set. The lemmas `...Moves`, `...Parts`
  say of each handler, without its arithmetic, which lookups go where; `Held` and
  `Filed` say what each step does to the number of lookups, and of MSHRs and fills, of
  any set that does not look at their progress. Each invariant then has one case per
  action that touches its places. `Chosen` (extract_if, stable_partition) is shown
  to keep the order by the rank of each place (`ChosenOrder`).
* `DRAMProofs`: `BanksPointAtPackets`, `ReadsAreOwedOnce`, `RefreshIsRemembered`, from
  `DRAMAssumption` and `NoPacketAssumption`: any upper levels, lines, banks, slots and
  latencies. `DRAMInv` joins
  - `BanksArePaired`: the busy banks that read (write) and the scheduled packets of
    the read (write) slots are paired, each with the other. With only one direction
    `finish_dbus_request` could leave a scheduled packet without a bank;
  - `ChecksAreDone`: outside the collision checks every packet is checked, so a
    scheduled packet is never the one a collision resets. In a warmup phase the slots
    are empty and no bank is busy, so answering all of them leaves no bank behind;
  - `ReadsAreOwed`: `Owed` counts where the answer of a read may be, in the order of
    `EveryReadOwedOnce`; and nobody is to be answered for a write, in the queues or in
    the slots. That `to_return` is a set needs that two reads of one line by the same level
    are never there together, which is what a count of at most one says;
  - `NeedyIsBusy`: after `schedule_refresh` only a busy bank still needs a refresh, so
    `service_packet`, which writes a fresh record, overwrites no mark;
  - the types. No bank waits longer than `Latest`.
  The code's loops are folds. `FoldExists` shows, with the least place where it would
  fail, that the recursive function behind a fold exists, which gives the value
  after each slot; `AddAllResult`, `InitiateResult`, `CheckWritesResult`,
  `CheckReadsResult` and `WarmupResult` then say what each loop leaves, by an invariant of
  its steps. `PairedWhen...` says what each step does to the pairs. That
  `populate_dbus` and `schedule_packet` find the request they look for is `LeastOf`: of
  finitely many places in a total order one comes first.
* `HawkeyeProofs`, on hawkeye: `HawkeyeTypeCorrect`, `MirrorsNeverDrift`. `HawkeyeInv` joins
  OPTgen's invariant, the types and `MirrorCoherent`. That a call keeps the mirror
  needs equal lengths, which is where `Associativity = NumWays` is used: it is
  what hawkeye.cc:9-10 passes.
* `FrontendProofs`: `TheMergeRestoresOrder`, `NoFetchIsForgotten`, `FetchStopsOnce`,
  from `FrontendAssumption` alone (traces are sequences, sizes and widths are numbers, the
  penalty is a time that comes): any trace, any widths and buffers, any prediction, and
  an L1I that merges reads and answers in any order. `FrontInv` has these parts.
  - `TypeInv` and `SizeInv`. That IFETCH_BUFFER has its size needs the budget of the
    cycle: what is there and what may still come fit together. `promote_to_decode`
    takes no more than the smaller of two rooms, since it cannot know where each
    instruction goes. The DIB has a tag once.
  - `OrderInv`. `Merged` says of DIB_HIT_BUFFER and DECODE_BUFFER that each is in program
    order and that together they have the instructions after those dispatched, each once;
    IFETCH_BUFFER continues them. So the smaller of the two fronts is the next
    instruction (`MergedFront`), which is why the comparison of fronts in
    `decode_instruction` is enough, and what is promoted is younger than either
    (`MergedNext`).
  - `Covered`: an issued fetch that is not complete is named by a read in the queue, with
    the L1I, or in an answer. An id that the front of `returned` loses has been completed
    if it waited (`Used`), and those beyond the bandwidth stay in front. A chunk is a run
    of neighbours (`ChunkIsRun`), so a read names all it marks.
  - `StopInv` counts the mispredicted branches of the four buffers and of the
    instructions in execution: one while fetch is stopped for good, none otherwise. Moves
    keep the count; decode and completion take it away with the stop.
  Each loop is a fold; `TakeFold` and the others give the values it passes through.
* `BackendProofs`, on the allocator: `WindowTypeCorrect`, `NoRegisterIsLost`,
  `FrontendIsRight`. `WindowIInv` says that the free list, the results in
  flight and the committed values have no register in common and are all of
  them, and that the front-end table is the youngest writer in flight. Retiring
  frees the old committed register, which is in no other set for that reason
  only. `RenameDestKeeps` and its like say this of one call; the core's proofs use
  them too.
* `BackendProofs`, on the core: `EveryOperationIsCounted`, `LoadsWaitForStores`,
  `CoreLosesNoRegister`, `SourcesAreRight`, all four invariants of `Backend`, from
  `BackendAssumption` and `RegisterAssumption` (programs are sequences of instructions,
  sizes and widths are numbers, latencies are times that come, register names fit the
  file): any program and core, and an L1D that answers in any order. `BackendInv`
  has these parts.
  - `TypeInv` and `SizeInv`: the ROB, the store queue and both request queues are
    within their sizes.
  - `MemInv`. An operation is finished, or in the load queue, or in the store queue
    and not issued; instructions complete with none left, so retirement leaves
    nothing behind. The store queue is in program order and what has issued is in front
    (`StoresOrdered`), so the span that `operate_lsq` drops is what is finished, and
    the newest store to an address is the last in the queue. `LoadsWait` is
    `NoLoadPassesItsStore`; alone it is not inductive. `StoresKnow` adds the
    other direction, that a store's waiters are loads that wait for it and for no other:
    without it `do_finish_store` could release a slot that has a new load by then,
    and count an operation of another instruction.
  - `RegInv`. `Accounted` is the allocator's invariant over the results in the ROB.
    `Ordered`: ready times grow towards the back, so scheduling, which skips those that
    are not ready, is in program order all the same; otherwise a source could be
    renamed before an older writer. `Renamed`: a source is resolved (`Resolves`), and the
    calls for other instructions carry that on (`Carries`), since the register of
    a committed value is freed only by the retirement of a younger writer, and
    then the instruction has retired. That scheduling never pops an empty free list
    is `Sourcing` and `Renaming`: the loop's count of registers covers the sources
    that have none and the destinations.
  Each stage has one lemma, `After...`. Loops are folds, with one lemma each
  (`...Fold`) for the values they pass through and one (`...Next`) for their step.
* `TranslationProofs`, on virtual memory: `NoFrameIsShared`. `FramesDistinct` is
  not inductive: a new mapping is distinct because frames on the free list are in
  no map, and a new part of the active page because the parts from `next_pte_page`
  on are unused and the active page is on no list (`Apart`). `PopTakesFront` says
  what a pop leaves, unless the list starts anew.
* `TranslationProofs`, on the walker: `NoStepIsForgotten`, `WalksReadTheirOwnPath`,
  `WalksAreOwedOnce`, `WalkerSharesNoFrame`, all from `WalksKeepInvariant`. The
  inductive invariant `WalkInv` has three parts.
  - `TypeInv` gives each list the type of what the memory says of it: a step of the
    MSHR reads an entry on the path of its own page, or in the frame of one, an entry of a
    pscl names the page table that the memory has for its tag, and an answer or a
    completed walk carries the frame of its page. These types are relative to
    `vmem`, which changes as walks fault pages in, and they stay because the memory
    only grows: a page table or a frame once given is never given up or changed.
    The free list, the pscls (each tag once) and the channels keep their own types.
  - `Outstanding`: the read of each step is in the request queue, with the L1D or
    in an answer. An answer takes all steps of its block out of the MSHR, so those
    that are kept are of other blocks, whose reads the answer does not touch.
  - `OwedInv` counts, for each upper level and page, where its request may be, in
    the order of `WalksOwedOnce`. `finish_packet` moves the matching steps to one of
    two lists, in some order, and keeps the others: `Kept` and the order of
    `std::partition` are each a bijection on places, so no count changes.
  `WalksReadTheirOwnPath` says as much as the code allows when page tables share a
  frame: what `finish_packet` gives a step is a page table of its path, the first
  read of a walk is in the frame of one (`StartsOn`), as its first piece. With
  `PtePages = 1`, a page table to a frame as in the defaults, the first piece is all
  there is, and `WholePagesAreReadAsWritten` is the property that the run
  `other_table` refutes for two.
  The loops over the steps, the answers and the queues are folds again, one lemma
  each.
* `ModuleProofs`, from the assumptions of each module, which the code's constants satisfy.
  - `TableIsLeastRecentlyUsed` (`TableAssumption`: a way). `BlocksInv`: there is an order
    of the valid blocks by their times of use, and along it they hold the entries. `Lists`
    is about any set of ways, so that a use is the list without the way
    (`ListsWithout`) and the way at the end (`ListsUsed`). The block the comparator
    leaves to replace is the matching one, an unused one or the first of the list
    (`ReplacedListed`).
  - `LRUVictimIsLeastRecent` (`LRUAssumption`: a way). `LRUInv` says that stamps grow
    along the order of the last uses, that the counter is ahead of all, and that every way
    that holds a line is in the order; the way of the least stamp is then its first.
  - `HitLinesSurvive` (`PolicyAssumption`: a way, a maximum of 2 or more; the code has 3).
    `PolicyInv` says that a way with a line has the value 0 just when it was hit since
    the set was last aged, and that srrip's invalid ways, which its fills leave
    alone, have the maximum.
  - `PrefetchesContinueStride` (`StrideAssumption`: blocks are numbers, a degree of 1 or
    more; the code has 3). An entry has the last block of its instruction, and a stride
    only if it is that of its last two (`Remembers`); a new entry has none, whatever
    the instruction did before it left the table.
  - `TraceIsReadInOrder` (`ReaderAssumption`: a threshold of 1, as in the code, a buffer of 3 or
    more, where the code has 128, and a trace that is not empty). The buffer holds the
    instructions before the place that was read to, all but the last with their targets
    (`HoldsUpTo`).
  - `ConvertedBranchesAreRecognized`, `ConvertedDataStaysApart` (`ConverterAssumption`:
    records that `trace::read` accepts). That the search of `transform` finds a page is
    `NewPageIsFree`: among one more numbers than there are pages one is free.
    `ConverterInv` says that pages move one to one, to pages below `bump_page` that
    were nobody's.
    The rules of `branch` in `Instruction` exclude each other (instruction.h:153-191),
    which the proof needed: a CASE with overlapping guards has no definite value.
  - `VictimsStayOldest` and `TheProgramIsKept` join these into the two properties of the run.

Only model-checked:

* liveness under fairness, which this prover cannot do;
* `MatchesOptimal`, `ImplementsReuseIntervals`, which are about recursive definitions over
  data and need induction;
* `TablesRemember`: the histories of the predictors and spp's tables are recursive too, and
  predictors, `BTB` and `SPP` use `Bitwise`, which a module with a theorem cannot;
  va_ampm_lite's part is about a fold over the distances within one access;
* the findings and the cases in which a property fails;
* `TrainingIsAttributed`, about whole histories of a run.

## 5. Findings

* `lost_dirty`. `fill_type::merge` (cache.cc:117) takes the type of the later
  request unless that is a prefetch, and `fill_block` (cache.cc:146) marks a
  block dirty only for type WRITE. A load that merges with a write in
  `inflight_fills` (last level) or in an MSHR (first level, store miss) makes
  the line clean; its data is never written back. `WrittenIsDirtyUnlessMerged`
  shows that this is the only way to lose a write.
* `repeated_update`. A miss that has to wait is looked up again in each cycle,
  and `try_hit` tells the replacement policy each time; `docs/src/Modules.rst`
  says it is told when the tag check completes. For hawkeye each repetition is
  an access that reuses the line at once.
* `srrip_fill`. A policy without `replacement_cache_fill` is to be told of fills
  through `update_replacement_state` (`docs/src/Modules.rst`, srrip.cc:23);
  cache.h:515 makes that call with `hit` false and cache.h:475 suppresses it.
  srrip's insertion never runs: a filled line keeps the value of the line it
  replaced and is the next victim.
* `other_table`. `handle_read` makes a page number of the address it starts from
  (ptw.cc:69), CR3 or the entry of a page-structure cache, which drops
  `next_pte_page`, the place of the page table within its physical page
  (vmem.cc:129). With page tables smaller than a page, as `inc/vmem.h:66` demands
  and 802-pte-page.cc tests for `VirtualMemory`, the walk reads an entry of another page
  table. With the default of 4 KiB there is one page table to a page and nothing is lost.

Also seen, with no statement of the repository against it: a cache that takes
writebacks can hold a line in two ways, since `handle_write` does not look at the
MSHRs (cache.cc:386), so `NoDuplicateBlock` is checked where writes are stores;
converting a CVP trace from standard input finds nothing left after the first
pass; a memory with one bank and one bankgroup would make `swizzle_bits` loop; a DRAM
write queue of one entry swaps modes for ever (dram_controller.cc:207).

## 6. Not modelled, and why

* `random` (the victim is any way in `Cache`), `next_line` (no state).
* Statistics, printers, debug output: no control depends on them.
* Option parsing, `cache_builder.h`, `core_builder.h`, generated code and the
  configuration generator: construction of the configured system, done once.
* The pin tracer: callbacks of an external tool. Decompression of traces.
* `invalidate_entry` of CACHE: nothing calls it. Zero latencies in warmup, except
  in `DRAM` and `Frontend`, where warmup changes the control.
* The argument checks that throw: the callers pass arguments in range.
* Unsigned 64-bit clocks wrap after 2^64 cycles, which no run reaches.

## 7. Plan

What would come next: `Cache` with hawkeye's hooks in place of the free choice
of the victim; an abstract memory level that `Cache`, `DRAM` and `PageTableWalker` all
implement, to stack one on another; `Frontend` and `Backend` composed over one
`DISPATCH_BUFFER`.

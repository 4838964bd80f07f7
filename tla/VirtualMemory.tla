---------------------------- MODULE VirtualMemory ----------------------------
(***************************************************************************)
(* VirtualMemory (src/vmem.cc): frames for the pages of every core and for *)
(* the pages of their page tables, given out at the first use.  A virtual  *)
(* page is the tuple of its offsets in the page table, level 1 first.  The *)
(* list of free frames may have been shuffled: its front is any one of it. *)
(***************************************************************************)
EXTENDS Naturals

CONSTANTS
    Cpu, pt_levels, Offset,
    Frame,             \* the frames of populate_pages: those from 1 MiB on
    FirstFrame,        \* page 0, the first active_pte_page
    PtePages           \* PAGE_SIZE / pte_page_size

Level == 1 .. pt_levels
VPage == [Level -> Offset]

ASSUME VirtualMemoryAssumption ==
    /\ pt_levels \in Nat \ {0} /\ PtePages \in Nat \ {0}
    /\ Frame # {} /\ FirstFrame \notin Frame

VARIABLE vmem

\* wrapped: ppage_free_list has been populated again, with frames in use.
VirtualMemoryInit ==
    [vpage_to_ppage_map |-> << >>, page_table |-> << >>, ppage_free_list |-> Frame,
     active_pte_page |-> FirstFrame, next_pte_page |-> 0, wrapped |-> FALSE]

ppage_front(vm) == CHOOSE frame \in vm.ppage_free_list : TRUE

MutantPop(vm) == vm

ppage_pop(vm) ==
    LET rest == vm.ppage_free_list \ {ppage_front(vm)}
    IN  IF rest = {} THEN [vm EXCEPT !.ppage_free_list = Frame, !.wrapped = TRUE]
        ELSE [vm EXCEPT !.ppage_free_list = rest]

\* map with one more key.
Emplaced(map, key, value) ==
    [k \in DOMAIN map \cup {key} |-> IF k = key THEN value ELSE map[k]]

\* va_to_pa, and whether it faults.
PageFault(vm, cpu, vpage) == <<cpu, vpage>> \notin DOMAIN vm.vpage_to_ppage_map

va_to_pa(vm, cpu, vpage) ==
    IF PageFault(vm, cpu, vpage)
      THEN ppage_pop([vm EXCEPT !.vpage_to_ppage_map =
                                    Emplaced(@, <<cpu, vpage>>, ppage_front(vm))])
      ELSE vm

\* get_pte_pa: a page of the page table is found by the offsets above its level.
PteKey(cpu, vpage, level) == <<cpu, level, [k \in level + 1 .. pt_levels |-> vpage[k]]>>

PteFault(vm, cpu, vpage, level) == PteKey(cpu, vpage, level) \notin DOMAIN vm.page_table

get_pte_pa(vm, cpu, vpage, level) ==
    LET next == (vm.next_pte_page + 1) % PtePages
        more == [vm EXCEPT !.page_table = Emplaced(@, PteKey(cpu, vpage, level),
                                                  <<vm.active_pte_page, vm.next_pte_page>>),
                           !.next_pte_page = next]
    IN  IF ~PteFault(vm, cpu, vpage, level) THEN vm
        ELSE IF next = 0 THEN ppage_pop([more EXCEPT !.active_pte_page = ppage_front(vm)])
        ELSE more

\* The address it returns: the offset is that of vpage in this level.
PteAddress(vm, cpu, vpage, level) ==
    [page |-> vm.page_table[PteKey(cpu, vpage, level)], offset |-> vpage[level]]

-----------------------------------------------------------------------------
(* The calls, in any order and from any core. *)

VMInit == vmem = VirtualMemoryInit

VaToPa(cpu, vpage) == vmem' = va_to_pa(vmem, cpu, vpage)

GetPtePa(cpu, vpage, level) == vmem' = get_pte_pa(vmem, cpu, vpage, level)

VMNext ==
    \E cpu \in Cpu, vpage \in VPage :
        VaToPa(cpu, vpage) \/ \E level \in Level : GetPtePa(cpu, vpage, level)

VMSpec == VMInit /\ [][VMNext]_vmem

\* While the physical memory lasts, no two virtual pages of any cores share a
\* frame, no two pages of page tables the same part of one, and no frame holds
\* both: although the two kinds take frames from one list and the active page is
\* filled piece by piece.
FramesDistinct ==
    ~vmem.wrapped =>
        /\ \A j, k \in DOMAIN vmem.vpage_to_ppage_map :
              vmem.vpage_to_ppage_map[j] = vmem.vpage_to_ppage_map[k] => j = k
        /\ \A j, k \in DOMAIN vmem.page_table : vmem.page_table[j] = vmem.page_table[k] => j = k
        /\ \A j \in DOMAIN vmem.page_table, k \in DOMAIN vmem.vpage_to_ppage_map :
              vmem.page_table[j][1] # vmem.vpage_to_ppage_map[k]
=============================================================================

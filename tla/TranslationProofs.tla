-------------------------- MODULE TranslationProofs --------------------------
(***************************************************************************)
(* Proofs about VirtualMemory and about the PageTableWalker on top of it,  *)
(* for every number of cores, levels, offsets and frames, and for every    *)
(* bandwidth, pscl and queue of the walker.                                *)
(***************************************************************************)
EXTENDS PageTableWalker, SequenceCounts

\* A frame in use is not on the free list; of the page that takes the page
\* tables, the parts from next_pte_page on are unused.
Apart(vm) ==
    /\ vm.active_pte_page \notin vm.ppage_free_list
    /\ \A k \in DOMAIN vm.vpage_to_ppage_map :
          /\ vm.vpage_to_ppage_map[k] \notin vm.ppage_free_list
          /\ vm.vpage_to_ppage_map[k] # vm.active_pte_page
    /\ \A j \in DOMAIN vm.page_table :
          /\ vm.page_table[j] = <<vm.page_table[j][1], vm.page_table[j][2]>>
          /\ vm.page_table[j][1] \notin vm.ppage_free_list
          /\ vm.page_table[j][1] = vm.active_pte_page =>
                vm.page_table[j][2] \in 0 .. vm.next_pte_page - 1
    /\ \A j, k \in DOMAIN vm.vpage_to_ppage_map :
          vm.vpage_to_ppage_map[j] = vm.vpage_to_ppage_map[k] => j = k
    /\ \A j, k \in DOMAIN vm.page_table : vm.page_table[j] = vm.page_table[k] => j = k
    /\ \A j \in DOMAIN vm.page_table, k \in DOMAIN vm.vpage_to_ppage_map :
          vm.page_table[j][1] # vm.vpage_to_ppage_map[k]

\* The fields of the memory; the list of free frames never runs dry.
Shaped(vm) ==
    /\ vm = [vpage_to_ppage_map |-> vm.vpage_to_ppage_map, page_table |-> vm.page_table,
             ppage_free_list |-> vm.ppage_free_list, active_pte_page |-> vm.active_pte_page,
             next_pte_page |-> vm.next_pte_page, wrapped |-> vm.wrapped]
    /\ vm.ppage_free_list # {}
    /\ vm.next_pte_page \in 0 .. PtePages - 1

Good(vm) == Shaped(vm) /\ (~vm.wrapped => Apart(vm))

-----------------------------------------------------------------------------

\* A pop keeps everything but the list, unless the list starts anew.
LEMMA PopTakesFront ==
    ASSUME NEW vm, Shaped(vm)
    PROVE  /\ Shaped(ppage_pop(vm))
           /\ ppage_front(vm) \in vm.ppage_free_list
           /\ ~ppage_pop(vm).wrapped =>
                 ppage_pop(vm) = [vm EXCEPT !.ppage_free_list = @ \ {ppage_front(vm)}]
<1>1. ppage_front(vm) \in vm.ppage_free_list
    BY DEF ppage_front, Shaped
<1>2. CASE vm.ppage_free_list \ {ppage_front(vm)} = {}
    <2>1. ppage_pop(vm) = [vm EXCEPT !.ppage_free_list = Frame, !.wrapped = TRUE]
        BY <1>2 DEF ppage_pop
    <2>2. Frame # {}
        BY VirtualMemoryAssumption
    <2> QED BY <1>1, <2>1, <2>2 DEF Shaped
<1>3. CASE vm.ppage_free_list \ {ppage_front(vm)} # {}
    <2>1. ppage_pop(vm) = [vm EXCEPT !.ppage_free_list = @ \ {ppage_front(vm)}]
        BY <1>3 DEF ppage_pop
    <2> QED BY <1>1, <1>3, <2>1 DEF Shaped
<1> QED BY <1>2, <1>3

\* The memory starts with all frames free.
LEMMA VMInitGood == Good(VirtualMemoryInit)
<1>1. PtePages \in Nat \ {0} /\ Frame # {} /\ FirstFrame \notin Frame
    BY VirtualMemoryAssumption
<1> QED BY <1>1 DEF Good, VirtualMemoryInit, Shaped, Apart

\* va_to_pa takes its frame off the list.
LEMMA VaToPaGood ==
    ASSUME NEW vm, Good(vm), NEW c, NEW vpage
    PROVE  Good(va_to_pa(vm, c, vpage))
<1> DEFINE w == va_to_pa(vm, c, vpage)
           key == <<c, vpage>>
           front == ppage_front(vm)
           more == [vm EXCEPT !.vpage_to_ppage_map = Emplaced(@, key, front)]
<1>1. CASE ~PageFault(vm, c, vpage)
    <2>1. w = vm
        BY <1>1 DEF va_to_pa
    <2> QED BY <2>1 DEF Good, Shaped, Apart
<1>2. CASE PageFault(vm, c, vpage)
    <2>1. w = ppage_pop(more) /\ key \notin DOMAIN vm.vpage_to_ppage_map
        BY <1>2 DEF va_to_pa, PageFault
    <2>2. /\ more.vpage_to_ppage_map = Emplaced(vm.vpage_to_ppage_map, key, front)
          /\ more.ppage_free_list = vm.ppage_free_list
          /\ more.page_table = vm.page_table
          /\ more.active_pte_page = vm.active_pte_page
          /\ more.next_pte_page = vm.next_pte_page
          /\ more.wrapped = vm.wrapped
          /\ Shaped(more)
        BY DEF Good, Shaped
    <2>3. ppage_front(more) = front
        BY <2>2 DEF ppage_front
    <2> HIDE DEF front, more, key
    <2>4. Shaped(w)
        BY <2>1, <2>2, PopTakesFront
    <2>5. ASSUME ~w.wrapped PROVE Apart(w)
        <3>1. w = [more EXCEPT !.ppage_free_list = @ \ {front}]
              /\ front \in vm.ppage_free_list
            BY <2>1, <2>2, <2>3, <2>5, PopTakesFront
        <3>2. /\ w.vpage_to_ppage_map = Emplaced(vm.vpage_to_ppage_map, key, front)
              /\ w.ppage_free_list = vm.ppage_free_list \ {front}
              /\ w.page_table = vm.page_table
              /\ w.active_pte_page = vm.active_pte_page
              /\ w.next_pte_page = vm.next_pte_page
              /\ w.wrapped = vm.wrapped
            BY <2>2, <3>1 DEF Shaped
        <3>3. Apart(vm)
            BY <2>5, <3>2 DEF Good
        <3>4. /\ DOMAIN w.vpage_to_ppage_map = DOMAIN vm.vpage_to_ppage_map \cup {key}
              /\ w.vpage_to_ppage_map[key] = front
              /\ \A k \in DOMAIN vm.vpage_to_ppage_map :
                    w.vpage_to_ppage_map[k] = vm.vpage_to_ppage_map[k]
            BY <2>1, <3>2 DEF Emplaced
        <3> QED BY <2>1, <3>1, <3>2, <3>3, <3>4 DEF Apart
    <2> QED BY <2>4, <2>5 DEF Good
<1> QED BY <1>1, <1>2

\* get_pte_pa fills the active page piece by piece.
LEMMA GetPtePaGood ==
    ASSUME NEW vm, Good(vm), NEW c, NEW vpage, NEW level
    PROVE  Good(get_pte_pa(vm, c, vpage, level))
<1> DEFINE w == get_pte_pa(vm, c, vpage, level)
           key == PteKey(c, vpage, level)
           front == ppage_front(vm)
           next == (vm.next_pte_page + 1) % PtePages
           part == <<vm.active_pte_page, vm.next_pte_page>>
           more == [vm EXCEPT !.page_table = Emplaced(@, key, part), !.next_pte_page = next]
           fresh == [more EXCEPT !.active_pte_page = ppage_front(vm)]
<1>0. /\ PtePages \in Nat \ {0} /\ vm.next_pte_page \in 0 .. PtePages - 1
      /\ next \in 0 .. PtePages - 1
      /\ next # 0 => next = vm.next_pte_page + 1
    BY VirtualMemoryAssumption, SMT DEF Good, Shaped
<1>1. CASE ~PteFault(vm, c, vpage, level)
    <2>1. w = vm
        BY <1>1 DEF get_pte_pa
    <2> QED BY <2>1 DEF Good, Shaped, Apart
<1>2. CASE PteFault(vm, c, vpage, level)
    <2>1. /\ w = IF next = 0 THEN ppage_pop(fresh) ELSE more
          /\ key \notin DOMAIN vm.page_table
        BY <1>2 DEF get_pte_pa, PteFault
    <2>2. /\ more.page_table = Emplaced(vm.page_table, key, part)
          /\ more.ppage_free_list = vm.ppage_free_list
          /\ more.vpage_to_ppage_map = vm.vpage_to_ppage_map
          /\ more.active_pte_page = vm.active_pte_page
          /\ more.next_pte_page = next
          /\ more.wrapped = vm.wrapped
          /\ Shaped(more)
        <3>1. next \in 0 .. PtePages - 1
            BY <1>0
        <3> HIDE DEF next, key, part
        <3>2. vm = [vpage_to_ppage_map |-> vm.vpage_to_ppage_map,
                      page_table |-> vm.page_table,
                      ppage_free_list |-> vm.ppage_free_list,
                      active_pte_page |-> vm.active_pte_page,
                      next_pte_page |-> vm.next_pte_page, wrapped |-> vm.wrapped]
            BY DEF Good, Shaped
        <3>3. more = [vpage_to_ppage_map |-> vm.vpage_to_ppage_map,
                      page_table |-> Emplaced(vm.page_table, key, part),
                      ppage_free_list |-> vm.ppage_free_list,
                      active_pte_page |-> vm.active_pte_page,
                      next_pte_page |-> next, wrapped |-> vm.wrapped]
            <4> DEFINE table == Emplaced(vm.page_table, key, part)
            <4>1. more = [[vm EXCEPT !.page_table = table] EXCEPT !.next_pte_page = next]
                OBVIOUS
            <4> HIDE DEF table
            <4>2. [vm EXCEPT !.page_table = table] =
                     [vpage_to_ppage_map |-> vm.vpage_to_ppage_map,
                      page_table |-> table,
                      ppage_free_list |-> vm.ppage_free_list,
                      active_pte_page |-> vm.active_pte_page,
                      next_pte_page |-> vm.next_pte_page, wrapped |-> vm.wrapped]
                BY <3>2
            <4> HIDE DEF more
            <4> QED BY <4>1, <4>2 DEF table
        <3> HIDE DEF more
        <3> QED BY <3>1, <3>3 DEF Good, Shaped
    <2>3. /\ DOMAIN more.page_table = DOMAIN vm.page_table \cup {key}
          /\ more.page_table[key] = part
          /\ \A k \in DOMAIN vm.page_table : more.page_table[k] = vm.page_table[k]
        BY <2>1, <2>2 DEF Emplaced
    <2>4. part = <<part[1], part[2]>> /\ part[1] = vm.active_pte_page
          /\ part[2] = vm.next_pte_page
        OBVIOUS
    <2>5. /\ fresh.page_table = more.page_table
          /\ fresh.ppage_free_list = vm.ppage_free_list
          /\ fresh.vpage_to_ppage_map = vm.vpage_to_ppage_map
          /\ fresh.active_pte_page = front
          /\ fresh.next_pte_page = next
          /\ fresh.wrapped = vm.wrapped
          /\ Shaped(fresh)
        <3> HIDE DEF more, next
        <3> QED BY <2>2 DEF Shaped
    <2>6. ppage_front(fresh) = front
        BY <2>5 DEF ppage_front
    <2> HIDE DEF key, front, next, part, more, fresh
    <2>7. CASE next # 0
        <3>1. w = more
            BY <2>1, <2>7
        <3>2. ASSUME ~w.wrapped PROVE Apart(w)
            <4>1. Apart(vm)
                BY <2>2, <3>1, <3>2 DEF Good
            <4>2. \A j \in DOMAIN vm.page_table : vm.page_table[j] # part
                BY <1>0, <2>4, <4>1, SMT DEF Apart
            <4>3. /\ 0 .. vm.next_pte_page - 1 \subseteq 0 .. next - 1
                  /\ vm.next_pte_page \in 0 .. next - 1
                BY <1>0, <2>7, SMT
            <4>4. \A j \in DOMAIN w.page_table :
                     /\ w.page_table[j] = <<w.page_table[j][1], w.page_table[j][2]>>
                     /\ w.page_table[j][1] \notin w.ppage_free_list
                     /\ w.page_table[j][1] = w.active_pte_page =>
                           w.page_table[j][2] \in 0 .. w.next_pte_page - 1
                BY <2>2, <2>3, <2>4, <3>1, <4>1, <4>3 DEF Apart
            <4>5. \A j, k \in DOMAIN w.page_table :
                     w.page_table[j] = w.page_table[k] => j = k
                BY <2>1, <2>3, <3>1, <4>1, <4>2 DEF Apart
            <4> QED BY <2>2, <2>3, <2>4, <3>1, <4>1, <4>4, <4>5 DEF Apart
        <3> QED BY <2>2, <3>1, <3>2 DEF Good
    <2>8. CASE next = 0
        <3>1. w = ppage_pop(fresh)
            BY <2>1, <2>8
        <3>2. Shaped(w)
            BY <2>5, <3>1, PopTakesFront
        <3>3. ASSUME ~w.wrapped PROVE Apart(w)
            <4>1. w = [fresh EXCEPT !.ppage_free_list = @ \ {front}]
                  /\ front \in vm.ppage_free_list
                BY <2>5, <2>6, <3>1, <3>3, PopTakesFront
            <4>2. /\ w.vpage_to_ppage_map = vm.vpage_to_ppage_map
                  /\ w.ppage_free_list = vm.ppage_free_list \ {front}
                  /\ w.page_table = more.page_table
                  /\ w.active_pte_page = front
                  /\ w.wrapped = vm.wrapped
                BY <2>5, <4>1 DEF Shaped
            <4>3. Apart(vm)
                BY <3>3, <4>2 DEF Good
            <4>4. \A j \in DOMAIN vm.page_table : vm.page_table[j] # part
                BY <1>0, <2>4, <4>3, SMT DEF Apart
            <4>5. \A j, k \in DOMAIN w.page_table :
                     w.page_table[j] = w.page_table[k] => j = k
                BY <2>1, <2>3, <4>2, <4>3, <4>4 DEF Apart
            <4>6. \A j \in DOMAIN w.page_table :
                     /\ w.page_table[j] = <<w.page_table[j][1], w.page_table[j][2]>>
                     /\ w.page_table[j][1] \notin vm.ppage_free_list
                BY <2>3, <2>4, <4>2, <4>3 DEF Apart
            <4> QED BY <2>3, <2>4, <4>1, <4>2, <4>3, <4>5, <4>6 DEF Apart
        <3> QED BY <3>2, <3>3 DEF Good
    <2> QED BY <2>7, <2>8
<1> QED BY <1>1, <1>2

\* Every call keeps the frames apart.
LEMMA VMStepGood == Good(vmem) /\ [VMNext]_vmem => Good(vmem)'
<1> SUFFICES ASSUME Good(vmem), [VMNext]_vmem PROVE Good(vmem')
    OBVIOUS
<1>1. ASSUME NEW c \in Cpu, NEW vpage \in VPage, VaToPa(c, vpage) PROVE Good(vmem')
    BY <1>1, VaToPaGood DEF VaToPa
<1>2. ASSUME NEW c \in Cpu, NEW vpage \in VPage, NEW level \in Level,
             GetPtePa(c, vpage, level)
      PROVE  Good(vmem')
    BY <1>2, GetPtePaGood DEF GetPtePa
<1>3. ASSUME UNCHANGED vmem PROVE Good(vmem')
    BY <1>3
<1> QED BY <1>1, <1>2, <1>3 DEF VMNext

\* While frames last, no frame serves two virtual pages, no part of one two
\* pages of page tables, and none serves both (va_to_pa and get_pte_pa).
THEOREM NoFrameIsShared == VMSpec => []FramesDistinct
<1>1. Good(vmem) => FramesDistinct
    BY DEF Good, Apart, FramesDistinct
<1>2. VMInit => Good(vmem)
    BY VMInitGood DEF VMInit
<1> QED BY <1>1, <1>2, VMStepGood, PTL DEF VMSpec

-----------------------------------------------------------------------------
(* The memory as the walker uses it. *)

TablePage == (Frame \cup {FirstFrame}) \X (0 .. PtePages - 1)

Keys == {CR3Key} \cup {PteKey(cpu, vpage, level) : vpage \in WalkPages, level \in PsclLevels}

Pages == {cpu} \X WalkPages

\* The functions on some of K.
Partial(K, V) == UNION {[k -> V] : k \in SUBSET K}

Memory ==
    [vpage_to_ppage_map : Partial(Pages, Frame), page_table : Partial(Keys, TablePage),
     ppage_free_list : (SUBSET Frame) \ {{}}, active_pte_page : Frame \cup {FirstFrame},
     next_pte_page : 0 .. PtePages - 1, wrapped : BOOLEAN]

\* What vm has given out, w has given out.
Keeps(f, g) == DOMAIN f \subseteq DOMAIN g /\ \A k \in DOMAIN f : g[k] = f[k]

Grows(vm, w) ==
    Keeps(vm.vpage_to_ppage_map, w.vpage_to_ppage_map) /\ Keeps(vm.page_table, w.page_table)

\* A function with one more key.
LEMMA EmplacedKeeps ==
  ASSUME NEW K, NEW V, NEW f \in Partial(K, V), NEW k \in K, NEW v \in V, k \notin DOMAIN f
  PROVE  /\ Emplaced(f, k, v) \in Partial(K, V)
         /\ Keeps(f, Emplaced(f, k, v))
         /\ k \in DOMAIN Emplaced(f, k, v)
<1>1. PICK d \in SUBSET K : f \in [d -> V]
  BY DEF Partial
<1>2. Emplaced(f, k, v) \in [d \cup {k} -> V]
  BY <1>1 DEF Emplaced
<1>3. d \cup {k} \in SUBSET K
  OBVIOUS
<1>4. Keeps(f, Emplaced(f, k, v)) /\ k \in DOMAIN Emplaced(f, k, v)
  BY <1>1 DEF Emplaced, Keeps
<1>5. QED
  BY <1>2, <1>3, <1>4 DEF Partial

\* A pop keeps what was given out.
LEMMA PopMemory ==
  ASSUME NEW vm \in Memory
  PROVE  /\ ppage_front(vm) \in Frame
         /\ ppage_pop(vm) \in Memory
         /\ ppage_pop(vm).vpage_to_ppage_map = vm.vpage_to_ppage_map
         /\ ppage_pop(vm).page_table = vm.page_table
<1>1. ppage_front(vm) \in vm.ppage_free_list
  BY DEF ppage_front, Memory
<1>2. vm.ppage_free_list \in SUBSET Frame /\ Frame # {}
  BY VirtualMemoryAssumption DEF Memory
<1> DEFINE rest == vm.ppage_free_list \ {ppage_front(vm)}
<1>3. CASE rest = {}
  <2>1. ppage_pop(vm) = [vm EXCEPT !.ppage_free_list = Frame, !.wrapped = TRUE]
    BY <1>3 DEF ppage_pop
  <2>2. QED
    BY <1>1, <1>2, <2>1 DEF Memory
<1>4. CASE rest # {}
  <2>1. ppage_pop(vm) = [vm EXCEPT !.ppage_free_list = rest]
    BY <1>4 DEF ppage_pop
  <2>2. rest \in (SUBSET Frame) \ {{}}
    BY <1>2, <1>4
  <2> HIDE DEF rest
  <2>3. QED
    BY <1>1, <1>2, <2>1, <2>2 DEF Memory
<1>5. QED
  BY <1>3, <1>4

\* va_to_pa gives the page a frame, and takes none back.
LEMMA VaToPaMemory ==
  ASSUME NEW vm \in Memory, NEW vpage \in WalkPages
  PROVE  LET w == va_to_pa(vm, cpu, vpage)
         IN  /\ w \in Memory /\ Grows(vm, w)
             /\ <<cpu, vpage>> \in DOMAIN w.vpage_to_ppage_map
             /\ w.vpage_to_ppage_map[<<cpu, vpage>>] \in Frame
<1> DEFINE w == va_to_pa(vm, cpu, vpage)
           key == <<cpu, vpage>>
<1>1. CASE ~PageFault(vm, cpu, vpage)
  <2>1. w = vm /\ key \in DOMAIN vm.vpage_to_ppage_map
    BY <1>1 DEF va_to_pa, PageFault
  <2>2. vm.vpage_to_ppage_map \in Partial(Pages, Frame)
    BY DEF Memory
  <2>3. vm.vpage_to_ppage_map[key] \in Frame
    <3> HIDE DEF key
    <3>1. QED
      BY <2>1, <2>2 DEF Partial
  <2>4. QED
    BY <2>1, <2>3 DEF Grows, Keeps
<1>2. CASE PageFault(vm, cpu, vpage)
  <2> DEFINE f == vm.vpage_to_ppage_map
             g == Emplaced(f, key, ppage_front(vm))
             more == [vm EXCEPT !.vpage_to_ppage_map = g]
  <2>1. w = ppage_pop(more) /\ key \notin DOMAIN f
    BY <1>2 DEF va_to_pa, PageFault
  <2>2. f \in Partial(Pages, Frame) /\ key \in Pages
    BY DEF Memory, Pages
  <2>3. ppage_front(vm) \in Frame
    BY PopMemory
  <2> HIDE DEF key, f
  <2>4. g \in Partial(Pages, Frame) /\ Keeps(f, g) /\ key \in DOMAIN g
    BY <2>1, <2>2, <2>3, EmplacedKeeps
  <2> HIDE DEF g
  <2>5. /\ more \in Memory /\ more.vpage_to_ppage_map = g
        /\ more.page_table = vm.page_table
    BY <2>4 DEF Memory
  <2> HIDE DEF more
  <2>6. w \in Memory /\ w.vpage_to_ppage_map = g /\ w.page_table = vm.page_table
    BY <2>1, <2>5, PopMemory
  <2>7. g[key] \in Frame
    BY <2>4 DEF Partial
  <2>8. Grows(vm, w)
    BY <2>4, <2>6 DEF Grows, Keeps, f
  <2>9. QED
    BY <2>4, <2>6, <2>7, <2>8 DEF key
<1>3. QED
  BY <1>1, <1>2

\* get_pte_pa gives the level of the page a part of a frame, and takes none back.
LEMMA GetPtePaMemory ==
  ASSUME NEW vm \in Memory, NEW vpage, NEW level, PteKey(cpu, vpage, level) \in Keys
  PROVE  LET w == get_pte_pa(vm, cpu, vpage, level)
         IN  /\ w \in Memory /\ Grows(vm, w)
             /\ PteKey(cpu, vpage, level) \in DOMAIN w.page_table
             /\ w.page_table[PteKey(cpu, vpage, level)] \in TablePage
<1> DEFINE w == get_pte_pa(vm, cpu, vpage, level)
           key == PteKey(cpu, vpage, level)
<1>1. CASE ~PteFault(vm, cpu, vpage, level)
  <2>1. w = vm /\ key \in DOMAIN vm.page_table
    BY <1>1 DEF get_pte_pa, PteFault
  <2>2. vm.page_table \in Partial(Keys, TablePage)
    BY DEF Memory
  <2>3. vm.page_table[key] \in TablePage
    <3> HIDE DEF key
    <3>1. QED
      BY <2>1, <2>2 DEF Partial
  <2>4. QED
    BY <2>1, <2>3 DEF Grows, Keeps
<1>2. CASE PteFault(vm, cpu, vpage, level)
  <2> DEFINE f == vm.page_table
             part == <<vm.active_pte_page, vm.next_pte_page>>
             next == (vm.next_pte_page + 1) % PtePages
             g == Emplaced(f, key, part)
             more == [vm EXCEPT !.page_table = g, !.next_pte_page = next]
             fresh == [more EXCEPT !.active_pte_page = ppage_front(vm)]
  <2>1. w = (IF next = 0 THEN ppage_pop(fresh) ELSE more) /\ key \notin DOMAIN f
    BY <1>2 DEF get_pte_pa, PteFault
  <2>2. f \in Partial(Keys, TablePage) /\ key \in Keys /\ part \in TablePage
    BY DEF Memory, TablePage
  <2>3. next \in 0 .. PtePages - 1
    <3>1. vm.next_pte_page \in 0 .. PtePages - 1 /\ PtePages \in Nat \ {0}
      BY VirtualMemoryAssumption DEF Memory
    <3>2. QED
      BY <3>1
  <2>4. ppage_front(vm) \in Frame
    BY PopMemory
  <2> HIDE DEF key, f, part, next
  <2>5. g \in Partial(Keys, TablePage) /\ Keeps(f, g) /\ key \in DOMAIN g
    BY <2>1, <2>2, EmplacedKeeps
  <2> HIDE DEF g
  <2>6. /\ more \in Memory /\ more.vpage_to_ppage_map = vm.vpage_to_ppage_map
        /\ more.page_table = g
    BY <2>3, <2>5 DEF Memory
  <2>7. /\ fresh \in Memory /\ fresh.vpage_to_ppage_map = vm.vpage_to_ppage_map
        /\ fresh.page_table = g
    <3> HIDE DEF more
    <3>1. QED
      BY <2>4, <2>6 DEF Memory
  <2> HIDE DEF more, fresh
  <2>8. /\ ppage_pop(fresh) \in Memory
        /\ ppage_pop(fresh).vpage_to_ppage_map = vm.vpage_to_ppage_map
        /\ ppage_pop(fresh).page_table = g
    BY <2>7, PopMemory
  <2>9. w \in Memory /\ w.vpage_to_ppage_map = vm.vpage_to_ppage_map /\ w.page_table = g
    BY <2>1, <2>6, <2>8
  <2>10. g[key] \in TablePage
    BY <2>5 DEF Partial
  <2>11. Grows(vm, w)
    BY <2>5, <2>9 DEF Grows, Keeps, f
  <2>12. QED
    BY <2>5, <2>9, <2>10, <2>11 DEF key
<1>3. QED
  BY <1>1, <1>2

\* Of three memories.
LEMMA GrowsOn ==
  ASSUME NEW a, NEW b, NEW c, Grows(a, b), Grows(b, c)
  PROVE  Grows(a, c)
BY DEF Grows, Keeps

\* Of one.
LEMMA GrowsItself ==
  ASSUME NEW a
  PROVE  Grows(a, a)
BY DEF Grows, Keeps

-----------------------------------------------------------------------------
(* The state of the walker, with the memory it stands on. *)

WalkStep ==
    [vpage : WalkPages, level : 0 .. pt_levels - 1, ppage : Frame \cup {FirstFrame},
     ready : Nat, to_return : SUBSET Upper, address : [page : TablePage, offset : Offset]]

Blocks == {Block(address) : address \in [page : TablePage, offset : Offset]}

Answer == [vpage : WalkPages, ppage : Frame \cup {FirstFrame}]

Entry == [tag : Keys, page : TablePage]

\* m reads the page that the page table has for its own page in the level.
OnPath(vm, m, level) ==
    /\ PteKey(cpu, m.vpage, level) \in DOMAIN vm.page_table
    /\ m.address.page = vm.page_table[PteKey(cpu, m.vpage, level)]

HasFrame(vm, m) ==
    /\ <<cpu, m.vpage>> \in DOMAIN vm.vpage_to_ppage_map
    /\ m.ppage = vm.vpage_to_ppage_map[<<cpu, m.vpage>>]

\* m starts at such a page, as far as its address is kept.
AtPiece(vm, m, level) ==
    /\ PteKey(cpu, m.vpage, level) \in DOMAIN vm.page_table
    /\ m.address.page = FirstPiece(vm.page_table[PteKey(cpu, m.vpage, level)])

StartsOn(vm, m) ==
    \E level \in {m.level} \cup ({m.level + 1} \cap {pt_levels}) : AtPiece(vm, m, level)

WalkingIn(vm) ==
    {m \in WalkStep : \/ StartsOn(vm, m)
                      \/ m.level + 1 \in PsclLevels /\ OnPath(vm, m, m.level + 1)}

FinishedIn(vm) == {m \in WalkStep : m.level \in PsclLevels /\ OnPath(vm, m, m.level)}

CompletedIn(vm) == {m \in WalkStep : HasFrame(vm, m)}

AnswersIn(vm) == {a \in Answer : HasFrame(vm, a)}

\* An entry of a pscl remembers the page of its tag.
EntriesIn(vm) ==
    {e \in Entry : e.tag \in DOMAIN vm.page_table /\ e.page = vm.page_table[e.tag]}

PsclIn(vm) == {table \in Seq(EntriesIn(vm)) : Len(table) <= PSCL_WAY /\ OncePerTag(table)}

\* The steps of the walks of a page for u.
WalksFor(u, vpage) == {m \in WalkStep : m.vpage = vpage /\ u \in m.to_return}

AnswersFor(vpage) == {a \in Answer : a.vpage = vpage}

\* What was given out stays, and so do those that go by it.
LEMMA GrowsWider ==
  ASSUME NEW vm, NEW w, Grows(vm, w)
  PROVE  /\ WalkingIn(vm) \subseteq WalkingIn(w)
         /\ FinishedIn(vm) \subseteq FinishedIn(w)
         /\ CompletedIn(vm) \subseteq CompletedIn(w)
         /\ AnswersIn(vm) \subseteq AnswersIn(w)
         /\ EntriesIn(vm) \subseteq EntriesIn(w)
<1>1. \A m, level : OnPath(vm, m, level) => OnPath(w, m, level)
  BY DEF Grows, Keeps, OnPath
<1>2. \A m, level : AtPiece(vm, m, level) => AtPiece(w, m, level)
  BY DEF Grows, Keeps, AtPiece
<1>3. \A m : StartsOn(vm, m) => StartsOn(w, m)
  BY <1>2 DEF StartsOn
<1>4. \A m : HasFrame(vm, m) => HasFrame(w, m)
  BY DEF Grows, Keeps, HasFrame
<1>5. EntriesIn(vm) \subseteq EntriesIn(w)
  BY DEF Grows, Keeps, EntriesIn
<1>6. QED
  BY <1>1, <1>3, <1>4, <1>5 DEF WalkingIn, FinishedIn, CompletedIn, AnswersIn

\* Sequences over a larger set.
LEMMA SeqWider ==
  ASSUME NEW S, NEW T, S \subseteq T, NEW s \in Seq(S)
  PROVE  s \in Seq(T)
<1>1. Len(s) \in Nat /\ DOMAIN s = 1 .. Len(s) /\ \A i \in 1 .. Len(s) : s[i] \in T
  BY LenProperties
<1>2. QED
  BY <1>1

\* The tag of a step above the last is one of the keys.
LEMMA StepKeys ==
  ASSUME NEW m \in WalkStep, m.level # 0
  PROVE  /\ m.level \in PsclLevels
         /\ PteKey(cpu, m.vpage, m.level) \in Keys
         /\ m.vpage[m.level] \in Offset
<1>1. pt_levels \in Nat /\ pt_levels > 1 /\ WalkPages \subseteq VPage
  BY VirtualMemoryAssumption, PTWAssumption
<1>2. m.level \in 0 .. pt_levels - 1 /\ m.vpage \in WalkPages
  BY DEF WalkStep
<1>3. m.level \in PsclLevels /\ m.level \in Level
  BY <1>1, <1>2 DEF PsclLevels, Level
<1>4. QED
  BY <1>1, <1>2, <1>3 DEF Keys, VPage

\* The cycles to wait.
LEMMA DelayType ==
  ASSUME NEW b
  PROVE  Delay(b) \in Nat
BY PTWAssumption DEF Delay

\* finish_last_step
LEMMA FinishLastStepKeeps ==
  ASSUME NEW vm \in Memory, NEW m \in WalkStep
  PROVE  LET r == FinishLastStep(vm, m)
         IN  /\ r \in CompletedIn(va_to_pa(vm, cpu, m.vpage))
             /\ r.vpage = m.vpage /\ r.to_return = m.to_return
<1> DEFINE w == va_to_pa(vm, cpu, m.vpage)
           frame == w.vpage_to_ppage_map[<<cpu, m.vpage>>]
           late == Delay(PageFault(vm, cpu, m.vpage))
           r == [m EXCEPT !.ppage = frame, !.ready = late]
<1>1. m.vpage \in WalkPages
  BY DEF WalkStep
<1>2. <<cpu, m.vpage>> \in DOMAIN w.vpage_to_ppage_map /\ frame \in Frame
  BY <1>1, VaToPaMemory
<1>3. late \in Nat
  BY DelayType
<1>4. FinishLastStep(vm, m) = r
  BY DEF FinishLastStep
<1>5. frame = w.vpage_to_ppage_map[<<cpu, m.vpage>>]
  OBVIOUS
<1> HIDE DEF w, frame, late
<1>6. r \in WalkStep /\ r.vpage = m.vpage /\ r.to_return = m.to_return /\ r.ppage = frame
  BY <1>2, <1>3 DEF WalkStep
<1> HIDE DEF r
<1>7. HasFrame(w, r)
  BY <1>2, <1>5, <1>6 DEF HasFrame
<1>8. QED
  BY <1>4, <1>6, <1>7 DEF CompletedIn, w

\* finish_step
LEMMA FinishStepKeeps ==
  ASSUME NEW vm \in Memory, NEW m \in WalkStep, m.level # 0
  PROVE  LET r == FinishStep(vm, m)
         IN  /\ r \in FinishedIn(get_pte_pa(vm, cpu, m.vpage, m.level))
             /\ r.vpage = m.vpage /\ r.to_return = m.to_return
<1> DEFINE w == get_pte_pa(vm, cpu, m.vpage, m.level)
           key == PteKey(cpu, m.vpage, m.level)
           to == [page |-> w.page_table[key], offset |-> m.vpage[m.level]]
           late == Delay(PteFault(vm, cpu, m.vpage, m.level))
           r == [m EXCEPT !.address = to, !.ready = late]
<1>1. m.level \in PsclLevels /\ key \in Keys /\ m.vpage[m.level] \in Offset
  BY StepKeys
<1>2. key \in DOMAIN w.page_table /\ w.page_table[key] \in TablePage
  BY <1>1, GetPtePaMemory
<1>3. late \in Nat
  BY DelayType
<1>4. FinishStep(vm, m) = r
  BY DEF FinishStep, PteAddress
<1>5. to \in [page : TablePage, offset : Offset] /\ to.page = w.page_table[key]
  <2> HIDE DEF w, key
  <2>1. QED
    BY <1>1, <1>2
<1> HIDE DEF w, to, late
<1>6. /\ r \in WalkStep /\ r.vpage = m.vpage /\ r.to_return = m.to_return
      /\ r.level = m.level /\ r.address = to
  BY <1>3, <1>5 DEF WalkStep
<1> HIDE DEF r
<1>7. OnPath(w, r, r.level)
  BY <1>2, <1>5, <1>6 DEF OnPath
<1>8. QED
  BY <1>1, <1>4, <1>6, <1>7 DEF FinishedIn, w

-----------------------------------------------------------------------------
(* finish_packet. *)

\* What finish_packet works on, when the memory was vm.
Finishing(vm) ==
    {x \in [vm : Memory, finished : Seq(WalkStep), completed : Seq(WalkStep)] :
        /\ Good(x.vm) /\ Grows(vm, x.vm)
        /\ x.finished \in Seq(FinishedIn(x.vm)) /\ x.completed \in Seq(CompletedIn(x.vm))}

Done(x, u, vpage) == Count(x.finished, WalksFor(u, vpage)) + Count(x.completed, WalksFor(u, vpage))

\* A step that is finished is in one of the queues.
LEMMA FinishKeeps ==
  ASSUME NEW vm, NEW x \in Finishing(vm), NEW m \in WalkStep
  PROVE  /\ Finish(x, m) \in Finishing(vm)
         /\ \A u \in Upper, vpage \in WalkPages :
               Done(Finish(x, m), u, vpage) = Done(x, u, vpage) + One(m \in WalksFor(u, vpage))
<1>1. /\ x.vm \in Memory /\ Good(x.vm) /\ Grows(vm, x.vm)
      /\ x.finished \in Seq(WalkStep) /\ x.completed \in Seq(WalkStep)
      /\ x.finished \in Seq(FinishedIn(x.vm)) /\ x.completed \in Seq(CompletedIn(x.vm))
      /\ x = [vm |-> x.vm, finished |-> x.finished, completed |-> x.completed]
  BY DEF Finishing
<1>2. \A u \in Upper, vpage \in WalkPages :
         /\ Count(x.finished, WalksFor(u, vpage)) \in Nat
         /\ Count(x.completed, WalksFor(u, vpage)) \in Nat
         /\ One(m \in WalksFor(u, vpage)) \in Nat
  BY <1>1, CountType DEF One
<1>3. CASE m.level = 0
  <2> DEFINE w == va_to_pa(x.vm, cpu, m.vpage)
             r == FinishLastStep(x.vm, m)
             c == Append(x.completed, r)
  <2>1. w \in Memory /\ Grows(x.vm, w) /\ Good(w)
    <3>1. m.vpage \in WalkPages
      BY DEF WalkStep
    <3>2. QED
      BY <3>1, <1>1, VaToPaMemory, VaToPaGood
  <2>2. r \in CompletedIn(w) /\ r.vpage = m.vpage /\ r.to_return = m.to_return
    BY <1>1, FinishLastStepKeeps
  <2>3. Finish(x, m) = [vm |-> w, finished |-> x.finished, completed |-> c]
    <3>1. Finish(x, m) = [x EXCEPT !.vm = w, !.completed = c]
      BY <1>3 DEF Finish
    <3> HIDE DEF w, c
    <3>2. QED
      BY <3>1, <1>1
  <2> HIDE DEF w, r
  <2>4. r \in WalkStep /\ \A u, vpage : r \in WalksFor(u, vpage) <=> m \in WalksFor(u, vpage)
    BY <2>2 DEF CompletedIn, WalksFor
  <2>5. /\ x.finished \in Seq(FinishedIn(w)) /\ x.completed \in Seq(CompletedIn(w))
    BY <1>1, <2>1, GrowsWider, SeqWider
  <2>6. c \in Seq(CompletedIn(w)) /\ c \in Seq(WalkStep)
    BY <1>1, <2>2, <2>4, <2>5, AppendProperties
  <2>7. Grows(vm, w)
    BY <1>1, <2>1, GrowsOn
  <2>8. ASSUME NEW u \in Upper, NEW vpage \in WalkPages
        PROVE  Count(c, WalksFor(u, vpage)) =
                  Count(x.completed, WalksFor(u, vpage)) + One(m \in WalksFor(u, vpage))
    <3>1. Count(c, WalksFor(u, vpage)) =
             Count(x.completed, WalksFor(u, vpage)) + One(r \in WalksFor(u, vpage))
      BY <1>1, <2>4, CountAppend
    <3>2. One(r \in WalksFor(u, vpage)) = One(m \in WalksFor(u, vpage))
      BY <2>4 DEF One
    <3>3. QED
      BY <3>1, <3>2
  <2> HIDE DEF c
  <2>9. Finish(x, m) \in Finishing(vm)
    BY <1>1, <2>1, <2>3, <2>5, <2>6, <2>7 DEF Finishing
  <2>10. ASSUME NEW u \in Upper, NEW vpage \in WalkPages
         PROVE  Done(Finish(x, m), u, vpage) = Done(x, u, vpage) + One(m \in WalksFor(u, vpage))
    BY <1>2, <2>3, <2>8 DEF Done
  <2>11. QED
    BY <2>9, <2>10
<1>4. CASE m.level # 0
  <2> DEFINE w == get_pte_pa(x.vm, cpu, m.vpage, m.level)
             r == FinishStep(x.vm, m)
             c == Append(x.finished, r)
  <2>1. w \in Memory /\ Grows(x.vm, w) /\ Good(w)
    <3>1. PteKey(cpu, m.vpage, m.level) \in Keys
      BY <1>4, StepKeys
    <3>2. QED
      BY <3>1, <1>1, GetPtePaMemory, GetPtePaGood
  <2>2. r \in FinishedIn(w) /\ r.vpage = m.vpage /\ r.to_return = m.to_return
    BY <1>1, <1>4, FinishStepKeeps
  <2>3. Finish(x, m) = [vm |-> w, finished |-> c, completed |-> x.completed]
    <3>1. Finish(x, m) = [x EXCEPT !.vm = w, !.finished = c]
      BY <1>4 DEF Finish
    <3> HIDE DEF w, c
    <3>2. QED
      BY <3>1, <1>1
  <2> HIDE DEF w, r
  <2>4. r \in WalkStep /\ \A u, vpage : r \in WalksFor(u, vpage) <=> m \in WalksFor(u, vpage)
    BY <2>2 DEF FinishedIn, WalksFor
  <2>5. /\ x.finished \in Seq(FinishedIn(w)) /\ x.completed \in Seq(CompletedIn(w))
    BY <1>1, <2>1, GrowsWider, SeqWider
  <2>6. c \in Seq(FinishedIn(w)) /\ c \in Seq(WalkStep)
    BY <1>1, <2>2, <2>4, <2>5, AppendProperties
  <2>7. Grows(vm, w)
    BY <1>1, <2>1, GrowsOn
  <2>8. ASSUME NEW u \in Upper, NEW vpage \in WalkPages
        PROVE  Count(c, WalksFor(u, vpage)) =
                  Count(x.finished, WalksFor(u, vpage)) + One(m \in WalksFor(u, vpage))
    <3>1. Count(c, WalksFor(u, vpage)) =
             Count(x.finished, WalksFor(u, vpage)) + One(r \in WalksFor(u, vpage))
      BY <1>1, <2>4, CountAppend
    <3>2. One(r \in WalksFor(u, vpage)) = One(m \in WalksFor(u, vpage))
      BY <2>4 DEF One
    <3>3. QED
      BY <3>1, <3>2
  <2> HIDE DEF c
  <2>9. Finish(x, m) \in Finishing(vm)
    BY <1>1, <2>1, <2>3, <2>5, <2>6, <2>7 DEF Finishing
  <2>10. ASSUME NEW u \in Upper, NEW vpage \in WalkPages
         PROVE  Done(Finish(x, m), u, vpage) = Done(x, u, vpage) + One(m \in WalksFor(u, vpage))
    BY <1>2, <2>3, <2>8 DEF Done
  <2>11. QED
    BY <2>9, <2>10
<1>5. QED
  BY <1>3, <1>4

\* finish_packet for one step after the other.
LEMMA FinishAllSteps ==
  ASSUME NEW vm, NEW x \in Finishing(vm), NEW mshr \in Seq(WalkStep),
         NEW order \in Seq(1 .. Len(mshr))
  PROVE  \E it :
            /\ FinishAll(x, mshr, order) = it[1 .. Len(order)]
            /\ it[1 .. 0] = x
            /\ \A k \in 1 .. Len(order) : it[1 .. k] = Finish(it[1 .. k - 1], mshr[order[k]])
<1> DEFINE m == Len(order)
           T == Finishing(vm)
           F == [z \in T \X (1 .. m) |-> Finish(z[1], mshr[order[z[2]]])]
<1>1. m \in Nat /\ DOMAIN order = 1 .. m /\ \A k \in 1 .. m : mshr[order[k]] \in WalkStep
  BY LenProperties
<1>2. x \in T
  OBVIOUS
<1> HIDE DEF T, m
<1>3. F \in [T \X (1 .. m) -> T]
  BY <1>1, FinishKeeps DEF T
<1>4. PICK jt \in [SUBSET (1 .. m) -> T] : FoldsTo(jt, m, x, F)
  <2> HIDE DEF F
  <2>1. QED
    BY <1>1, <1>2, <1>3, FoldExists
<1>5. jt = [s \in SUBSET DOMAIN order |->
               IF s = {} THEN x ELSE Finish(jt[s \ {Max(s)}], mshr[order[Max(s)]])]
  <2>1. ASSUME NEW s \in SUBSET (1 .. m), s # {}
        PROVE  F[<<jt[s \ {Top(s)}], Top(s)>>] = Finish(jt[s \ {Max(s)}], mshr[order[Max(s)]])
    <3>1. Top(s) \in 1 .. m
      BY <2>1, <1>1, TopOf
    <3>2. jt[s \ {Top(s)}] \in T
      BY <1>4
    <3>3. Max(s) = Top(s)
      BY DEF Max, Top
    <3>4. QED
      BY <3>1, <3>2, <3>3
  <2> HIDE DEF F
  <2>2. \A s \in SUBSET (1 .. m) :
           jt[s] = IF s = {} THEN x ELSE F[<<jt[s \ {Top(s)}], Top(s)>>]
    BY <1>4 DEF FoldsTo
  <2>3. QED
    BY <2>1, <2>2, <1>1, <1>4
<1>6. PICK it : /\ it = [s \in SUBSET DOMAIN order |->
                            IF s = {} THEN x ELSE Finish(it[s \ {Max(s)}], mshr[order[Max(s)]])]
                /\ FinishAll(x, mshr, order) = it[DOMAIN order]
  BY <1>5, Zenon DEF FinishAll, FoldLeft, MapThenFoldSet
<1>7. it[1 .. 0] = x
  <2>1. 1 .. 0 = {} /\ {} \in SUBSET DOMAIN order
    OBVIOUS
  <2>2. QED
    BY <1>6, <2>1
<1>8. ASSUME NEW k \in 1 .. m
      PROVE  it[1 .. k] = Finish(it[1 .. k - 1], mshr[order[k]])
  <2>1. /\ Top(1 .. k) = k /\ (1 .. k) \ {k} = 1 .. k - 1 /\ 1 .. k # {}
        /\ 1 .. k \in SUBSET DOMAIN order
    <3>1. k \in Nat \ {0} /\ 1 .. k \in SUBSET (1 .. m)
      BY <1>1
    <3>2. QED
      BY <1>1, <3>1, TopOfFirst
  <2>2. Max(1 .. k) = k
    BY <2>1 DEF Max, Top
  <2>3. it[1 .. k] = Finish(it[(1 .. k) \ {Max(1 .. k)}], mshr[order[Max(1 .. k)]])
    BY <1>6, <2>1
  <2>4. QED
    BY <2>1, <2>2, <2>3
<1>9. QED
  BY <1>1, <1>6, <1>7, <1>8 DEF m

\* The steps in the order in which they are taken.
Taken(mshr, order) == [k \in 1 .. Len(order) |-> mshr[order[k]]]

\* Every step that is taken is in one of the queues, once.
LEMMA FinishAllResult ==
  ASSUME NEW vm, NEW x \in Finishing(vm), NEW mshr \in Seq(WalkStep),
         NEW order \in Seq(1 .. Len(mshr))
  PROVE  LET end == FinishAll(x, mshr, order)
         IN  /\ end \in Finishing(vm)
             /\ \A u \in Upper, vpage \in WalkPages :
                   Done(end, u, vpage) =
                      Done(x, u, vpage) + Count(Taken(mshr, order), WalksFor(u, vpage))
<1> DEFINE m == Len(order)
           taken == Taken(mshr, order)
<1>1. m \in Nat /\ \A k \in 1 .. m : mshr[order[k]] \in WalkStep
  BY LenProperties
<1>2. taken \in Seq(WalkStep) /\ Len(taken) = m /\ \A k \in 1 .. m : taken[k] = mshr[order[k]]
  <2> HIDE DEF m
  <2>1. taken = [k \in 1 .. m |-> mshr[order[k]]]
    BY DEF Taken, m
  <2> HIDE DEF taken
  <2>2. taken \in Seq(WalkStep)
    BY <1>1, <2>1
  <2>3. QED
    BY <1>1, <2>1, <2>2, LenProperties
<1> HIDE DEF m, taken
<1>3. PICK it : /\ FinishAll(x, mshr, order) = it[1 .. m]
                /\ it[1 .. 0] = x
                /\ \A k \in 1 .. m : it[1 .. k] = Finish(it[1 .. k - 1], mshr[order[k]])
  BY FinishAllSteps DEF m
<1>4. \A u \in Upper, vpage \in WalkPages : Done(x, u, vpage) \in Nat
  BY CountType DEF Finishing, Done
<1> DEFINE S == {k \in 0 .. m :
                   /\ it[1 .. k] \in Finishing(vm)
                   /\ \A u \in Upper, vpage \in WalkPages :
                         Done(it[1 .. k], u, vpage) =
                            Done(x, u, vpage) + Count(SubSeq(taken, 1, k), WalksFor(u, vpage))}
<1>5. 0 \in S
  <2>1. SubSeq(taken, 1, 0) = << >>
    BY SubSeqEmpty
  <2>2. \A u \in Upper, vpage \in WalkPages : Count(SubSeq(taken, 1, 0), WalksFor(u, vpage)) = 0
    BY <2>1, CountEmpty
  <2>3. QED
    BY <1>1, <1>3, <1>4, <2>2
<1>6. ASSUME NEW k \in 1 .. m, k - 1 \in S
      PROVE  k \in S
  <2> DEFINE y == it[1 .. k - 1]
             t == mshr[order[k]]
  <2>1. /\ y \in Finishing(vm)
        /\ \A u \in Upper, vpage \in WalkPages :
              Done(y, u, vpage) =
                 Done(x, u, vpage) + Count(SubSeq(taken, 1, k - 1), WalksFor(u, vpage))
    BY <1>6
  <2>2. it[1 .. k] = Finish(y, t) /\ t \in WalkStep /\ taken[k] = t
    BY <1>1, <1>2, <1>3
  <2> HIDE DEF y, t, S
  <2>3. /\ Finish(y, t) \in Finishing(vm)
        /\ \A u \in Upper, vpage \in WalkPages :
              Done(Finish(y, t), u, vpage) = Done(y, u, vpage) + One(t \in WalksFor(u, vpage))
    BY <2>1, <2>2, FinishKeeps
  <2>4. ASSUME NEW u \in Upper, NEW vpage \in WalkPages
        PROVE  Done(it[1 .. k], u, vpage) =
                  Done(x, u, vpage) + Count(SubSeq(taken, 1, k), WalksFor(u, vpage))
    <3> DEFINE D == WalksFor(u, vpage)
    <3>1. /\ SubSeq(taken, 1, k - 1) \in Seq(WalkStep)
          /\ Count(SubSeq(taken, 1, k), D) = Count(SubSeq(taken, 1, k - 1), D) + One(taken[k] \in D)
      <4>1. k \in 1 .. Len(taken)
        BY <1>2
      <4>2. QED
        BY <1>2, <4>1, CountUpTo
    <3>2. Count(SubSeq(taken, 1, k - 1), D) \in Nat /\ One(t \in D) \in Nat
      BY <3>1, CountType DEF One
    <3>3. Done(x, u, vpage) \in Nat
      BY <1>4
    <3>4. /\ Done(it[1 .. k], u, vpage) = Done(y, u, vpage) + One(t \in D)
          /\ Done(y, u, vpage) = Done(x, u, vpage) + Count(SubSeq(taken, 1, k - 1), D)
      BY <2>1, <2>2, <2>3
    <3> HIDE DEF D
    <3>5. Done(it[1 .. k], u, vpage) = Done(x, u, vpage) + Count(SubSeq(taken, 1, k), D)
      BY <2>2, <3>1, <3>2, <3>3, <3>4
    <3>6. QED
      BY <3>5 DEF D
  <2>5. k \in 0 .. m
    BY <1>1
  <2>6. QED
    BY <2>2, <2>3, <2>4, <2>5 DEF S
<1>7. m \in S
  <2> HIDE DEF S
  <2>1. m \in 0 .. m
    BY <1>1
  <2>2. QED
    BY <1>1, <1>5, <1>6, <2>1, UpTo
<1>8. SubSeq(taken, 1, m) = taken
  <2>1. Len(taken) = m /\ taken \in Seq(WalkStep) /\ m \in 0 .. Len(taken)
    BY <1>1, <1>2
  <2>2. /\ SubSeq(taken, 1, m) \in Seq(WalkStep) /\ Len(SubSeq(taken, 1, m)) = m
        /\ \A i \in 1 .. m : SubSeq(taken, 1, m)[i] = taken[i]
    BY <2>1, CountSplit
  <2>3. QED
    BY <2>1, <2>2, SeqEqual
<1>9. QED
  BY <1>3, <1>7, <1>8 DEF taken

\* The entries that are kept, one place after the other.
Keeping(it, q, I) ==
    /\ it[1 .. 0] = << >>
    /\ \A k \in 0 .. Len(q) : it[1 .. k] \in Seq({q[j] : j \in I})
    /\ \A k \in 1 .. Len(q) :
          it[1 .. k] = IF k \in I THEN Append(it[1 .. k - 1], q[k]) ELSE it[1 .. k - 1]

\* The fold passes through them.
LEMMA KeptSteps ==
  ASSUME NEW S, NEW q \in Seq(S), NEW I \in SUBSET (1 .. Len(q))
  PROVE  \E it : Kept(q, I) = it[1 .. Len(q)] /\ Keeping(it, q, I)
<1> DEFINE m == Len(q)
           T == Seq({q[j] : j \in I})
           ids == [i \in DOMAIN q |-> i]
           F == [z \in T \X (1 .. m) |-> IF z[2] \in I THEN Append(z[1], q[z[2]]) ELSE z[1]]
<1>1. m \in Nat /\ DOMAIN q = 1 .. m /\ DOMAIN ids = 1 .. m /\ \A k \in 1 .. m : ids[k] = k
  BY LenProperties
<1>2. << >> \in T
  BY EmptySeq
<1>3. F \in [T \X (1 .. m) -> T]
  <2> HIDE DEF m
  <2>1. ASSUME NEW t \in T, NEW k \in 1 .. m
        PROVE  (IF k \in I THEN Append(t, q[k]) ELSE t) \in T
    <3>1. CASE k \in I
      <4>1. q[k] \in {q[j] : j \in I}
        BY <3>1
      <4>2. QED
        BY <3>1, <4>1, AppendProperties
    <3>2. CASE k \notin I
      BY <3>2
    <3>3. QED
      BY <3>1, <3>2
  <2> HIDE DEF T
  <2>2. QED
    BY <2>1
<1> HIDE DEF T, m, ids
<1>4. PICK jt \in [SUBSET (1 .. m) -> T] : FoldsTo(jt, m, << >>, F)
  <2> HIDE DEF F
  <2>1. QED
    BY <1>1, <1>2, <1>3, FoldExists
<1>5. jt = [s \in SUBSET DOMAIN ids |->
               IF s = {} THEN << >>
               ELSE IF ids[Max(s)] \in I THEN Append(jt[s \ {Max(s)}], q[ids[Max(s)]])
               ELSE jt[s \ {Max(s)}]]
  <2>1. ASSUME NEW s \in SUBSET (1 .. m), s # {}
        PROVE  F[<<jt[s \ {Top(s)}], Top(s)>>] =
                  IF ids[Max(s)] \in I THEN Append(jt[s \ {Max(s)}], q[ids[Max(s)]])
                  ELSE jt[s \ {Max(s)}]
    <3>1. Top(s) \in 1 .. m
      BY <2>1, <1>1, TopOf
    <3>2. jt[s \ {Top(s)}] \in T
      BY <1>4
    <3>3. Max(s) = Top(s)
      BY DEF Max, Top
    <3>4. ids[Top(s)] = Top(s)
      BY <1>1, <3>1
    <3>5. QED
      BY <3>1, <3>2, <3>3, <3>4
  <2> HIDE DEF F
  <2>2. \A s \in SUBSET (1 .. m) :
           jt[s] = IF s = {} THEN << >> ELSE F[<<jt[s \ {Top(s)}], Top(s)>>]
    BY <1>4 DEF FoldsTo
  <2>3. QED
    BY <2>1, <2>2, <1>1, <1>4
<1>6. PICK it : /\ it = [s \in SUBSET DOMAIN ids |->
                            IF s = {} THEN << >>
                            ELSE IF ids[Max(s)] \in I THEN Append(it[s \ {Max(s)}], q[ids[Max(s)]])
                            ELSE it[s \ {Max(s)}]]
                /\ Kept(q, I) = it[DOMAIN ids]
  BY <1>5, Zenon DEF Kept, FoldLeftDomain, FoldLeft, MapThenFoldSet, ids
<1>7. it[1 .. 0] = << >>
  <2>1. 1 .. 0 = {} /\ {} \in SUBSET DOMAIN ids
    OBVIOUS
  <2>2. QED
    BY <1>6, <2>1
<1>8. ASSUME NEW k \in 1 .. m
      PROVE  it[1 .. k] = IF k \in I THEN Append(it[1 .. k - 1], q[k]) ELSE it[1 .. k - 1]
  <2>1. /\ Top(1 .. k) = k /\ (1 .. k) \ {k} = 1 .. k - 1 /\ 1 .. k # {}
        /\ 1 .. k \in SUBSET DOMAIN ids
    <3>1. k \in Nat \ {0} /\ 1 .. k \in SUBSET (1 .. m)
      BY <1>1
    <3>2. QED
      BY <1>1, <3>1, TopOfFirst
  <2>2. Max(1 .. k) = k /\ ids[k] = k
    BY <1>1, <2>1 DEF Max, Top
  <2>3. it[1 .. k] =
           IF ids[Max(1 .. k)] \in I
             THEN Append(it[(1 .. k) \ {Max(1 .. k)}], q[ids[Max(1 .. k)]])
             ELSE it[(1 .. k) \ {Max(1 .. k)}]
    BY <1>6, <2>1
  <2>4. QED
    BY <2>1, <2>2, <2>3
<1> DEFINE R == {k \in 0 .. m : it[1 .. k] \in T}
<1>9. 0 \in R
  BY <1>1, <1>2, <1>7
<1>10. ASSUME NEW k \in 1 .. m, k - 1 \in R
       PROVE  k \in R
  <2>1. it[1 .. k - 1] \in T /\ k \in 0 .. m
    BY <1>10, <1>1
  <2>2. it[1 .. k] = F[<<it[1 .. k - 1], k>>]
    BY <1>8, <2>1
  <2> HIDE DEF F
  <2>3. it[1 .. k] \in T
    BY <1>3, <2>1, <2>2
  <2>4. QED
    BY <2>1, <2>3
<1>11. \A k \in 0 .. m : k \in R
  <2> HIDE DEF R
  <2>1. QED
    BY <1>1, <1>9, <1>10, UpTo
<1>12. QED
  BY <1>1, <1>6, <1>7, <1>8, <1>11 DEF Keeping, m, T

\* As many of D are kept as there are at the places.
LEMMA KeptResult ==
  ASSUME NEW S, NEW q \in Seq(S), NEW I \in SUBSET (1 .. Len(q)), NEW D
  PROVE  /\ Kept(q, I) \in Seq({q[j] : j \in I})
         /\ Count(Kept(q, I), D) = Cardinality(Places(q, D) \cap I)
<1> DEFINE m == Len(q)
           E == {q[j] : j \in I}
           P(k) == {i \in 1 .. k : i \in I /\ q[i] \in D}
<1>1. m \in Nat /\ DOMAIN q = 1 .. m
  BY LenProperties
<1>2. PICK it : Kept(q, I) = it[1 .. Len(q)] /\ Keeping(it, q, I)
  BY KeptSteps
<1>2a. /\ Kept(q, I) = it[1 .. m]
       /\ it[1 .. 0] = << >>
       /\ \A k \in 0 .. m : it[1 .. k] \in Seq(E)
       /\ \A k \in 1 .. m :
             it[1 .. k] = IF k \in I THEN Append(it[1 .. k - 1], q[k]) ELSE it[1 .. k - 1]
  BY <1>2 DEF Keeping
<1> DEFINE R == {k \in 0 .. m : Count(it[1 .. k], D) = Cardinality(P(k))}
<1>3. 0 \in R
  <2>1. P(0) = {}
    OBVIOUS
  <2>2. Cardinality(P(0)) = 0
    BY <2>1, FS_EmptySet
  <2>3. Count(it[1 .. 0], D) = 0
    BY <1>2a, CountEmpty
  <2>4. QED
    BY <1>1, <2>2, <2>3
<1>4. ASSUME NEW k \in 1 .. m, k - 1 \in R
      PROVE  k \in R
  <2>1. /\ Count(it[1 .. k - 1], D) = Cardinality(P(k - 1))
        /\ it[1 .. k - 1] \in Seq(E) /\ k \in 0 .. m /\ k \in Nat
    <3>1. k - 1 \in 0 .. m /\ k \in 0 .. m /\ k \in Nat
      BY <1>1
    <3>2. QED
      BY <1>2a, <1>4, <3>1
  <2>2. it[1 .. k] = IF k \in I THEN Append(it[1 .. k - 1], q[k]) ELSE it[1 .. k - 1]
    BY <1>2a
  <2>3. IsFiniteSet(P(k - 1)) /\ Cardinality(P(k - 1)) \in Nat
    <3>1. IsFiniteSet(1 .. k - 1) /\ P(k - 1) \in SUBSET (1 .. k - 1)
      <4>1. 1 \in Int /\ k - 1 \in Int
        BY <2>1
      <4>2. QED
        BY <4>1, FS_Interval
    <3>2. QED
      BY <3>1, FS_Subset, FS_CardinalityType
  <2>4. CASE k \in I
    <3>1. q[k] \in E
      BY <2>4
    <3>2. Count(it[1 .. k], D) = Count(it[1 .. k - 1], D) + One(q[k] \in D)
      BY <2>1, <2>2, <2>4, <3>1, CountAppend
    <3>3. CASE q[k] \in D
      <4>1. P(k) = P(k - 1) \cup {k} /\ k \notin P(k - 1)
        BY <2>1, <2>4, <3>3
      <4>2. Cardinality(P(k)) = Cardinality(P(k - 1)) + 1
        BY <2>3, <4>1, FS_AddElement
      <4>3. One(q[k] \in D) = 1
        BY <3>3 DEF One
      <4>4. QED
        BY <2>1, <3>2, <4>2, <4>3
    <3>4. CASE q[k] \notin D
      <4>1. P(k) = P(k - 1)
        BY <2>1, <2>4, <3>4
      <4>2. One(q[k] \in D) = 0
        BY <3>4 DEF One
      <4>3. Cardinality(P(k)) = Cardinality(P(k - 1))
        BY <4>1
      <4>4. Count(it[1 .. k], D) = Cardinality(P(k))
        <5> HIDE DEF P
        <5>1. QED
          BY <2>1, <2>3, <3>2, <4>2, <4>3
      <4>5. QED
        BY <2>1, <4>4
    <3>5. QED
      BY <3>3, <3>4
  <2>5. CASE k \notin I
    <3>1. P(k) = P(k - 1)
      BY <2>1, <2>5
    <3>2. QED
      BY <2>1, <2>2, <2>5, <3>1
  <2>6. QED
    BY <2>4, <2>5
<1>5. m \in R
  <2>1. m \in 0 .. m
    BY <1>1
  <2> HIDE DEF R
  <2>2. QED
    BY <1>1, <1>3, <1>4, <2>1, UpTo
<1>6. P(m) = Places(q, D) \cap I
  BY <1>1 DEF Places
<1>7. m \in 0 .. m
  BY <1>1
<1>8. QED
  BY <1>2a, <1>5, <1>6, <1>7

\* An order of a set of places passes each once.
LEMMA TakenCount ==
  ASSUME NEW S, NEW q \in Seq(S), NEW M \in SUBSET (1 .. Len(q)),
         NEW order \in SetToSeqs(M), NEW D
  PROVE  /\ order \in Seq(1 .. Len(q))
         /\ Count(Taken(q, order), D) = Cardinality(Places(q, D) \cap M)
<1> DEFINE c == Cardinality(M)
           P == Places(q, D) \cap M
           taken == Taken(q, order)
<1>1. Len(q) \in Nat /\ DOMAIN q = 1 .. Len(q)
  BY LenProperties
<1>2. IsFiniteSet(M) /\ c \in Nat
  <2>1. IsFiniteSet(1 .. Len(q))
    BY <1>1, FS_Interval
  <2>2. IsFiniteSet(M)
    BY <2>1, FS_Subset
  <2>3. QED
    BY <2>2, FS_CardinalityType
<1>3. order \in [1 .. c -> M] /\ \A i, j \in 1 .. c : i # j => order[i] # order[j]
  BY DEF SetToSeqs
<1> HIDE DEF c
<1>4. order \in Seq(1 .. Len(q)) /\ Len(order) = c /\ DOMAIN order = 1 .. c
  <2>1. order \in [1 .. c -> 1 .. Len(q)]
    BY <1>3
  <2>2. order \in Seq(1 .. Len(q))
    BY <1>2, <2>1
  <2>3. QED
    BY <1>2, <2>1, <2>2, LenProperties
<1>5. \A i \in M : \E k \in 1 .. c : order[k] = i
  <2>1. order \in Injection(1 .. c, M)
    BY <1>3 DEF Injection, IsInjective
  <2>2. Cardinality(1 .. c) = c
    <3>1. 1 \in Int /\ c \in Int /\ c - 1 + 1 = c /\ (1 > c => c = 0)
      BY <1>2
    <3>2. Cardinality(1 .. c) = IF 1 > c THEN 0 ELSE c - 1 + 1
      BY <3>1, FS_Interval
    <3>3. QED
      BY <3>1, <3>2
  <2>3. order \in Surjection(1 .. c, M)
    BY <1>2, <2>1, <2>2, FS_Injection DEF c
  <2>4. QED
    BY <2>3 DEF Surjection
<1>6. taken = [k \in 1 .. c |-> q[order[k]]] /\ DOMAIN taken = 1 .. c
  BY <1>4 DEF Taken
<1> HIDE DEF taken
<1> DEFINE f == [k \in Places(taken, D) |-> order[k]]
<1>7. Places(taken, D) \in SUBSET (1 .. c) /\ \A k \in Places(taken, D) : q[order[k]] \in D
  BY <1>6 DEF Places
<1>8. f \in [Places(taken, D) -> P]
  BY <1>1, <1>3, <1>7 DEF Places
<1>9. \A i, j \in Places(taken, D) : f[i] = f[j] => i = j
  BY <1>3, <1>7
<1>10. \A i \in P : \E k \in Places(taken, D) : f[k] = i
  <2> SUFFICES ASSUME NEW i \in P
               PROVE  \E k \in Places(taken, D) : f[k] = i
    OBVIOUS
  <2>1. i \in M /\ q[i] \in D
    BY DEF Places
  <2>2. PICK k \in 1 .. c : order[k] = i
    BY <1>5, <2>1
  <2>3. k \in Places(taken, D)
    BY <1>6, <2>1, <2>2 DEF Places
  <2>4. QED
    BY <2>2, <2>3
<1> HIDE DEF f, P
<1>11. ExistsBijection(Places(taken, D), P)
  BY <1>8, <1>9, <1>10 DEF ExistsBijection, Bijection, Injection, Surjection, IsInjective
<1>12. IsFiniteSet(Places(taken, D))
  <2>1. IsFiniteSet(1 .. c)
    BY <1>2, FS_Interval
  <2>2. QED
    BY <1>7, <2>1, FS_Subset
<1>13. Cardinality(P) = Cardinality(Places(taken, D))
  BY <1>11, <1>12, FS_Bijection
<1>14. QED
  BY <1>4, <1>13 DEF Count, P, taken

\* What is taken and what is kept is all there was.
LEMMA TakenAndKept ==
  ASSUME NEW S, NEW q \in Seq(S), NEW M \in SUBSET (1 .. Len(q)),
         NEW order \in SetToSeqs(M), NEW D
  PROVE  Count(q, D) = Count(Taken(q, order), D) + Count(Kept(q, DOMAIN q \ M), D)
<1> DEFINE I == DOMAIN q \ M
           P == Places(q, D)
<1>1. Len(q) \in Nat /\ DOMAIN q = 1 .. Len(q)
  BY LenProperties
<1>2. I \in SUBSET (1 .. Len(q))
  BY <1>1
<1>3. Count(Taken(q, order), D) = Cardinality(P \cap M)
  BY TakenCount
<1>4. Count(Kept(q, I), D) = Cardinality(P \cap I)
  <2> HIDE DEF I
  <2>1. QED
    BY <1>2, KeptResult
<1>5. IsFiniteSet(P)
  BY CountType
<1>6. /\ IsFiniteSet(P \cap M) /\ IsFiniteSet(P \cap I)
      /\ Cardinality(P \cap M) \in Nat /\ Cardinality(P \cap I) \in Nat
  BY <1>5, FS_Intersection, FS_CardinalityType
<1>7. P = (P \cap M) \cup (P \cap I) /\ (P \cap M) \cap (P \cap I) = {}
  BY DEF Places
<1> HIDE DEF I, P
<1>8. Cardinality((P \cap M) \cup (P \cap I)) =
         Cardinality(P \cap M) + Cardinality(P \cap I) - Cardinality((P \cap M) \cap (P \cap I))
  BY <1>6, FS_Union
<1>9. Cardinality((P \cap M) \cap (P \cap I)) = 0
  BY <1>7, FS_EmptySet
<1>10. Cardinality(P) = Cardinality(P \cap M) + Cardinality(P \cap I)
  <2>1. Cardinality(P) = Cardinality((P \cap M) \cup (P \cap I))
    BY <1>7
  <2>2. QED
    BY <2>1, <1>6, <1>8, <1>9
<1>11. Count(q, D) = Cardinality(P)
  BY DEF Count, P
<1>12. QED
  BY <1>3, <1>4, <1>10, <1>11 DEF I

-----------------------------------------------------------------------------
(* The inductive invariant. *)

LowerChannel == {c \in ChannelOf(Blocks, Blocks) : Len(c.RQ) <= LowerSize}

TypeInv ==
    /\ vmem \in Memory /\ Good(vmem) /\ CR3Key \in DOMAIN vmem.page_table
    /\ MSHR \in Seq(WalkingIn(vmem))
    /\ finished \in Seq(FinishedIn(vmem))
    /\ completed \in Seq(CompletedIn(vmem))
    /\ pscl \in [PsclLevels -> PsclIn(vmem)]
    /\ upper \in [Upper -> ChannelOf(WalkPages, AnswersIn(vmem))]
    /\ lower \in LowerChannel
    /\ pending \in Seq(Blocks)
    /\ fill_bw \in 0 .. MAX_FILL
    /\ wait \in [Upper -> SUBSET WalkPages]

\* A read of the block is on its way, below, or on its way back.
UnderWay(low, below, block) ==
    Contains(low.RQ, block) \/ Contains(below, block) \/ Contains(low.returned, block)

Outstanding(mshr, low, below) ==
    \A i \in 1 .. Len(mshr) : UnderWay(low, below, Block(mshr[i].address))

\* The places of a page that u wants.
Owed(u, vpage) ==
    Count(MSHR, WalksFor(u, vpage)) + Count(finished, WalksFor(u, vpage))
      + Count(completed, WalksFor(u, vpage)) + Count(upper[u].RQ, {vpage})
      + Count(upper[u].returned, AnswersFor(vpage))

OwedInv == \A u \in Upper, vpage \in WalkPages : Owed(u, vpage) = One(vpage \in wait[u])

WalkInv == TypeInv /\ Outstanding(MSHR, lower, pending) /\ OwedInv

-----------------------------------------------------------------------------
(* handle_read. *)

\* What the reads work on.
Reading ==
    {x \in [lower : LowerChannel, MSHR : Seq(WalkingIn(vmem)), pscl : [PsclLevels -> PsclIn(vmem)],
            upper : [Upper -> ChannelOf(WalkPages, AnswersIn(vmem))], bw : Nat, stop : BOOLEAN] :
        Outstanding(x.MSHR, x.lower, pending)}

\* The root has one key for all pages.
LEMMA RootKey ==
  ASSUME NEW vpage
  PROVE  PteKey(cpu, vpage, pt_levels) = CR3Key
<1> DEFINE f == [k \in pt_levels + 1 .. pt_levels |-> vpage[k]]
<1>1. pt_levels \in Nat
  BY VirtualMemoryAssumption
<1>2. pt_levels + 1 .. pt_levels = 1 .. 0
  BY <1>1
<1>3. f = << >>
  <2>1. f = [k \in 1 .. 0 |-> vpage[k]]
    BY <1>2
  <2>2. f \in Seq({}) /\ Len(f) = 0
    <3>1. f \in [1 .. 0 -> {}]
      BY <2>1
    <3> HIDE DEF f
    <3>2. 0 \in Nat
      OBVIOUS
    <3>3. f \in Seq({})
      BY <3>1, <3>2
    <3>4. DOMAIN f = 1 .. 0
      BY <3>1
    <3>5. QED
      BY <3>3, <3>4, LenProperties
  <2> HIDE DEF f
  <2>3. QED
    BY <2>2, EmptySeq
<1>4. QED
  BY <1>3 DEF PteKey, CR3Key

\* A read is put in the queue of the lower level.
LEMMA ReadPushed ==
  ASSUME NEW S, NEW R, NEW c \in ChannelOf(S, R), NEW b \in S
  PROVE  /\ Push(c, "RQ", b) \in ChannelOf(S, R)
         /\ Push(c, "RQ", b).RQ = Append(c.RQ, b)
         /\ Push(c, "RQ", b).returned = c.returned
         /\ c.RQ \in Seq(S)
<1> DEFINE to == Push(c, "RQ", b)
<1>1. "RQ" \in RequestQueues
  BY DEF RequestQueues
<1>2. /\ to \in ChannelOf(S, R)
      /\ \A p \in RequestQueues : to[p] = IF p = "RQ" THEN Append(c["RQ"], b) ELSE c[p]
      /\ to.returned = c.returned
      /\ c["RQ"] \in Seq(S)
  BY <1>1, Pushed
<1> HIDE DEF to
<1>3. to["RQ"] = Append(c["RQ"], b)
  BY <1>1, <1>2
<1>4. QED
  BY <1>2, <1>3 DEF to

\* A step added by step_translation has its read on the way.
LEMMA StepOutstanding ==
  ASSUME NEW mshr \in Seq(WalkStep), NEW low \in ChannelOf(Blocks, Blocks), NEW below,
         Outstanding(mshr, low, below), NEW m \in WalkStep
  PROVE  Outstanding(Append(mshr, m), Push(low, "RQ", Block(m.address)), below)
<1> DEFINE b == Block(m.address)
           to == Push(low, "RQ", b)
           r == Append(mshr, m)
<1>1. b \in Blocks
  BY DEF Blocks, WalkStep
<1> HIDE DEF b
<1>2. /\ to.RQ = Append(low.RQ, b) /\ to.returned = low.returned /\ low.RQ \in Seq(Blocks)
  BY <1>1, ReadPushed
<1> HIDE DEF to
<1>3. /\ Len(to.RQ) = Len(low.RQ) + 1 /\ Len(low.RQ) \in Nat
      /\ \A i \in 1 .. Len(low.RQ) : to.RQ[i] = low.RQ[i]
      /\ to.RQ[Len(low.RQ) + 1] = b
  BY <1>1, <1>2, AppendProperties, LenProperties
<1>4. Contains(to.RQ, b)
  BY <1>3 DEF Contains
<1>5. \A c : UnderWay(low, below, c) => UnderWay(to, below, c)
  BY <1>2, <1>3 DEF UnderWay, Contains
<1>6. /\ Len(r) = Len(mshr) + 1 /\ Len(mshr) \in Nat
      /\ \A i \in 1 .. Len(mshr) : r[i] = mshr[i]
      /\ r[Len(mshr) + 1] = m
  BY AppendProperties, LenProperties
<1> HIDE DEF r
<1>7. \A i \in 1 .. Len(r) : UnderWay(to, below, Block(r[i].address))
  <2>1. \A i \in 1 .. Len(r) : i \in 1 .. Len(mshr) \/ i = Len(mshr) + 1
    BY <1>6
  <2>2. QED
    BY <2>1, <1>4, <1>5, <1>6 DEF Outstanding, UnderWay, b
<1>8. QED
  BY <1>7 DEF Outstanding, to, r, b

\* The first piece of a frame.
LEMMA FirstPieceType ==
  ASSUME NEW page \in TablePage
  PROVE  FirstPiece(page) \in TablePage /\ (PtePages = 1 => FirstPiece(page) = page)
<1>1. PtePages \in Nat \ {0}
  BY VirtualMemoryAssumption
<1>2. page = <<page[1], page[2]>> /\ page[1] \in Frame \cup {FirstFrame}
      /\ page[2] \in 0 .. PtePages - 1
  BY DEF TablePage
<1>3. 0 \in 0 .. PtePages - 1 /\ (PtePages = 1 => page[2] = 0)
  BY <1>1, <1>2
<1>4. QED
  BY <1>2, <1>3 DEF FirstPiece, TablePage

\* A walk starts on the path of its page.
LEMMA StartedOnPath ==
  ASSUME vmem \in Memory, CR3Key \in DOMAIN vmem.page_table,
         NEW tables \in [PsclLevels -> PsclIn(vmem)], NEW u \in Upper, NEW vpage \in WalkPages
  PROVE  LET m == Started(tables, vpage, u, HitLevel(tables, vpage))
         IN  m \in WalkingIn(vmem) /\ m.vpage = vpage /\ m.to_return = {u}
<1> DEFINE hits == {level \in PsclLevels : PsclTag(vpage, level) \in Tags(tables[level])}
           l == HitLevel(tables, vpage)
           page == WalkPage(tables, vpage, l)
           m == [vpage |-> vpage, level |-> l, ppage |-> FirstFrame, ready |-> 0,
                 to_return |-> {u},
                 address |-> [page |-> FirstPiece(page), offset |-> vpage[l]]]
<1>1. pt_levels \in Nat /\ pt_levels > 1 /\ vpage \in [Level -> Offset]
  BY VirtualMemoryAssumption, PTWAssumption DEF VPage
<1>2. Started(tables, vpage, u, l) = m
  BY DEF Started
<1>3. \/ hits # {} /\ l \in hits
      \/ hits = {} /\ l = pt_levels - 1
  <2>1. CASE hits = {}
    BY <2>1 DEF HitLevel
  <2>2. CASE hits # {}
    <3>1. hits \subseteq Nat
      BY <1>1 DEF PsclLevels
    <3>2. l = Smallest(hits)
      BY <2>2 DEF HitLevel
    <3> HIDE DEF l, hits
    <3>3. \E x \in hits : \A y \in hits : x <= y
      BY <2>2, <3>1, SmallestOf
    <3>4. QED
      BY <2>2, <3>2, <3>3 DEF Smallest
  <2>3. QED
    BY <2>1, <2>2
<1>4. l \in PsclLevels /\ l \in Level /\ l \in 0 .. pt_levels - 1
  BY <1>1, <1>3 DEF PsclLevels, Level
<1>5. vpage[l] \in Offset
  BY <1>1, <1>4
<1>6. \E level \in {l} \cup ({l + 1} \cap {pt_levels}) :
                           /\ PteKey(cpu, vpage, level) \in DOMAIN vmem.page_table
                           /\ page = vmem.page_table[PteKey(cpu, vpage, level)]
  <2>1. CASE l \in hits
    <3> DEFINE t == tables[l]
               tag == PsclTag(vpage, l)
               e == t[PlaceOf(t, tag)]
    <3>1. tag \in Tags(t) /\ page = e.page
      BY <2>1 DEF WalkPage, EntryOf
    <3>2. t \in Seq(EntriesIn(vmem))
      BY <1>4 DEF PsclIn
    <3> HIDE DEF t, tag, page
    <3>3. PlaceOf(t, tag) \in 1 .. Len(t) /\ e.tag = tag
      BY <3>1, <3>2, PlaceOfTag
    <3>4. e \in EntriesIn(vmem)
      BY <3>2, <3>3, LenProperties
    <3> HIDE DEF e
    <3>5. tag \in DOMAIN vmem.page_table /\ page = vmem.page_table[tag]
      BY <3>1, <3>3, <3>4 DEF EntriesIn
    <3>6. QED
      BY <1>4, <3>5 DEF tag, PsclTag
  <2>2. CASE hits = {}
    <3>1. PsclTag(vpage, l) \notin Tags(tables[l]) /\ l + 1 = pt_levels
      BY <1>1, <1>3, <1>4, <2>2
    <3>2. page = vmem.page_table[CR3Key]
      BY <3>1 DEF WalkPage, CR3_addr
    <3>3. PteKey(cpu, vpage, l + 1) = CR3Key
      BY <3>1, RootKey
    <3> HIDE DEF l, page
    <3>4. QED
      BY <3>1, <3>2, <3>3
  <2>3. QED
    BY <1>3, <2>1, <2>2
<1>7. FirstPiece(page) \in TablePage
  <2> HIDE DEF page
  <2>1. vmem.page_table \in Partial(Keys, TablePage)
    BY DEF Memory
  <2>2. page \in TablePage
    BY <1>6, <2>1 DEF Partial
  <2>3. QED
    BY <2>2, FirstPieceType
<1> HIDE DEF l, page, hits
<1>8. /\ m \in WalkStep /\ m.vpage = vpage /\ m.level = l /\ m.to_return = {u}
      /\ m.address.page = FirstPiece(page)
  BY <1>4, <1>5, <1>7 DEF WalkStep
<1> HIDE DEF m
<1>9. StartsOn(vmem, m)
  BY <1>6, <1>8 DEF StartsOn, AtPiece
<1>10. m \in WalkingIn(vmem)
  BY <1>8, <1>9 DEF WalkingIn
<1>11. QED
  BY <1>2, <1>8, <1>10 DEF l

\* The pscls are used.
LEMMA UsedPsclType ==
  ASSUME NEW tables \in [PsclLevels -> PsclIn(vmem)], NEW vpage
  PROVE  UsedPscl(tables, vpage) \in [PsclLevels -> PsclIn(vmem)]
<1> SUFFICES ASSUME NEW level \in PsclLevels
             PROVE  check_hit(tables[level], PsclTag(vpage, level)) \in PsclIn(vmem)
  BY DEF UsedPscl
<1> DEFINE t == tables[level]
           r == check_hit(t, PsclTag(vpage, level))
<1>1. t \in Seq(EntriesIn(vmem)) /\ Len(t) <= PSCL_WAY /\ OncePerTag(t)
  BY DEF PsclIn
<1> HIDE DEF t
<1>2. r \in Seq(EntriesIn(vmem)) /\ OncePerTag(r) /\ Len(r) = Len(t)
  BY <1>1, UsedTable
<1> HIDE DEF r
<1>3. QED
  BY <1>1, <1>2 DEF PsclIn, r, t

\* A request starts a walk, or nothing happens any more.
LEMMA HandleReadKeeps ==
  ASSUME vmem \in Memory, CR3Key \in DOMAIN vmem.page_table,
         NEW x \in Reading, NEW u \in Upper, NEW vpage \in WalkPages
  PROVE  LET y == HandleRead(x, u, vpage)
         IN  /\ y \in Reading /\ y.upper = x.upper
             /\ \/ /\ y.MSHR = x.MSHR /\ y.bw = x.bw
                   /\ y.stop \/ y.bw = 0
                \/ /\ ~x.stop /\ x.bw # 0 /\ y.bw = x.bw - 1
                   /\ \A v \in Upper, page \in WalkPages :
                         Count(y.MSHR, WalksFor(v, page)) =
                            Count(x.MSHR, WalksFor(v, page)) + One(v = u /\ page = vpage)
<1> DEFINE y == HandleRead(x, u, vpage)
           used == UsedPscl(x.pscl, vpage)
           m == Started(x.pscl, vpage, u, HitLevel(x.pscl, vpage))
<1>1. /\ x = [lower |-> x.lower, MSHR |-> x.MSHR, pscl |-> x.pscl, upper |-> x.upper,
              bw |-> x.bw, stop |-> x.stop]
      /\ x.lower \in ChannelOf(Blocks, Blocks) /\ Len(x.lower.RQ) <= LowerSize
      /\ x.MSHR \in Seq(WalkingIn(vmem)) /\ x.pscl \in [PsclLevels -> PsclIn(vmem)]
      /\ x.upper \in [Upper -> ChannelOf(WalkPages, AnswersIn(vmem))]
      /\ x.bw \in Nat /\ x.stop \in BOOLEAN /\ Outstanding(x.MSHR, x.lower, pending)
  BY DEF Reading, LowerChannel
<1>2. used \in [PsclLevels -> PsclIn(vmem)]
  BY <1>1, UsedPsclType
<1>3. m \in WalkingIn(vmem) /\ m.vpage = vpage /\ m.to_return = {u}
  BY <1>1, StartedOnPath
<1> HIDE DEF used, m
<1>4. CASE x.stop \/ x.bw = 0
  <2>1. y = x
    BY <1>4 DEF HandleRead
  <2>2. QED
    BY <2>1, <1>4
<1>5. CASE ~(x.stop \/ x.bw = 0) /\ ~CanStep(x.lower)
  <2>1. y = [[x EXCEPT !.pscl = used] EXCEPT !.stop = TRUE]
    BY <1>5 DEF HandleRead, used
  <2>2. y = [lower |-> x.lower, MSHR |-> x.MSHR, pscl |-> used, upper |-> x.upper,
             bw |-> x.bw, stop |-> TRUE]
    BY <2>1, <1>1
  <2>3. y \in Reading
    BY <2>2, <1>1, <1>2 DEF Reading, LowerChannel
  <2>4. QED
    BY <2>2, <2>3
<1>6. CASE ~(x.stop \/ x.bw = 0) /\ CanStep(x.lower)
  <2> DEFINE low == Push(x.lower, "RQ", Block(m.address))
             mshr == Append(x.MSHR, m)
             left == x.bw - 1
  <2>1. y = Step([[x EXCEPT !.pscl = used] EXCEPT !.bw = left], m)
    BY <1>6 DEF HandleRead, used, m
  <2>2. [[x EXCEPT !.pscl = used] EXCEPT !.bw = left] =
           [lower |-> x.lower, MSHR |-> x.MSHR, pscl |-> used, upper |-> x.upper,
            bw |-> left, stop |-> x.stop]
    <3> DEFINE z == [x EXCEPT !.pscl = used]
    <3> HIDE DEF left
    <3>1. z = [lower |-> x.lower, MSHR |-> x.MSHR, pscl |-> used, upper |-> x.upper,
               bw |-> x.bw, stop |-> x.stop]
      BY <1>1
    <3> HIDE DEF z
    <3>2. [z EXCEPT !.bw = left] =
             [lower |-> x.lower, MSHR |-> x.MSHR, pscl |-> used, upper |-> x.upper,
              bw |-> left, stop |-> x.stop]
      BY <3>1
    <3>3. QED
      BY <3>2 DEF z
  <2>3. y = [lower |-> low, MSHR |-> mshr, pscl |-> used, upper |-> x.upper,
             bw |-> left, stop |-> x.stop]
    BY <2>1, <2>2 DEF Step
  <2>4. m \in WalkStep /\ x.MSHR \in Seq(WalkStep)
    <3>1. WalkingIn(vmem) \subseteq WalkStep
      BY DEF WalkingIn
    <3>2. QED
      BY <3>1, <1>1, <1>3, SeqWider
  <2>5. Outstanding(mshr, low, pending)
    BY <1>1, <2>4, StepOutstanding
  <2>6. low \in LowerChannel
    <3>1. Block(m.address) \in Blocks
      BY <2>4 DEF Blocks, WalkStep
    <3>2. /\ low \in ChannelOf(Blocks, Blocks)
          /\ low.RQ = Append(x.lower.RQ, Block(m.address))
          /\ x.lower.RQ \in Seq(Blocks)
      BY <1>1, <3>1, ReadPushed
    <3> HIDE DEF low
    <3>3. Len(low.RQ) = Len(x.lower.RQ) + 1 /\ Len(x.lower.RQ) \in Nat
      BY <3>1, <3>2, AppendProperties, LenProperties
    <3>4. LowerSize \in Nat
      BY PTWAssumption
    <3>5. Len(low.RQ) <= LowerSize
      BY <1>6, <3>3, <3>4 DEF CanStep, HasRoom
    <3>6. QED
      BY <3>2, <3>5 DEF LowerChannel
  <2>7. mshr \in Seq(WalkingIn(vmem))
    BY <1>1, <1>3, AppendProperties
  <2>8. ASSUME NEW v \in Upper, NEW page \in WalkPages
        PROVE  Count(mshr, WalksFor(v, page)) =
                  Count(x.MSHR, WalksFor(v, page)) + One(v = u /\ page = vpage)
    <3>1. Count(mshr, WalksFor(v, page)) =
             Count(x.MSHR, WalksFor(v, page)) + One(m \in WalksFor(v, page))
      BY <1>1, <1>3, CountAppend
    <3>2. m \in WalksFor(v, page) <=> v = u /\ page = vpage
      BY <1>3, <2>4 DEF WalksFor
    <3>3. QED
      BY <3>1, <3>2 DEF One
  <2>9. left \in Nat
    BY <1>1, <1>6
  <2> HIDE DEF low, mshr, left
  <2>10. y \in Reading
    BY <1>1, <1>2, <2>3, <2>5, <2>6, <2>7, <2>9 DEF Reading
  <2>11. QED
    BY <1>6, <2>3, <2>8, <2>10 DEF left
<1>7. QED
  BY <1>4, <1>5, <1>6

\* handle_read for one request of u after the other.
LEMMA HandleReadsSteps ==
  ASSUME vmem \in Memory, CR3Key \in DOMAIN vmem.page_table,
         NEW x \in Reading, NEW u \in Upper
  PROVE  LET q == x.upper[u].RQ
         IN  \E it :
                /\ HandleReads(x, u) = it[1 .. Len(q)]
                /\ it[1 .. 0] = [x EXCEPT !.stop = FALSE]
                /\ \A k \in 1 .. Len(q) : it[1 .. k] = HandleRead(it[1 .. k - 1], u, q[k])
<1> DEFINE q == x.upper[u].RQ
           m == Len(q)
           b == [x EXCEPT !.stop = FALSE]
           F == [z \in Reading \X (1 .. m) |-> HandleRead(z[1], u, q[z[2]])]
<1>1. q \in Seq(WalkPages)
  BY DEF Reading, ChannelOf
<1>2. m \in Nat /\ DOMAIN q = 1 .. m /\ \A k \in 1 .. m : q[k] \in WalkPages
  <2> HIDE DEF q
  <2>1. QED
    BY <1>1, LenProperties
<1>3. b \in Reading
  BY DEF Reading
<1> HIDE DEF m, q, b
<1>4. F \in [Reading \X (1 .. m) -> Reading]
  BY <1>2, HandleReadKeeps
<1>5. PICK jt \in [SUBSET (1 .. m) -> Reading] : FoldsTo(jt, m, b, F)
  <2> HIDE DEF F
  <2>1. QED
    BY <1>2, <1>3, <1>4, FoldExists
<1>6. jt = [s \in SUBSET DOMAIN q |->
               IF s = {} THEN b ELSE HandleRead(jt[s \ {Max(s)}], u, q[Max(s)])]
  <2>1. ASSUME NEW s \in SUBSET (1 .. m), s # {}
        PROVE  F[<<jt[s \ {Top(s)}], Top(s)>>] = HandleRead(jt[s \ {Max(s)}], u, q[Max(s)])
    <3>1. Top(s) \in 1 .. m
      BY <2>1, <1>2, TopOf
    <3>2. jt[s \ {Top(s)}] \in Reading
      BY <1>5
    <3>3. Max(s) = Top(s)
      BY DEF Max, Top
    <3>4. QED
      BY <3>1, <3>2, <3>3
  <2> HIDE DEF F
  <2>2. \A s \in SUBSET (1 .. m) :
           jt[s] = IF s = {} THEN b ELSE F[<<jt[s \ {Top(s)}], Top(s)>>]
    BY <1>5 DEF FoldsTo
  <2>3. QED
    BY <2>1, <2>2, <1>2, <1>5
<1>7. PICK it : /\ it = [s \in SUBSET DOMAIN q |->
                            IF s = {} THEN b ELSE HandleRead(it[s \ {Max(s)}], u, q[Max(s)])]
                /\ HandleReads(x, u) = it[DOMAIN q]
  BY <1>6, Zenon DEF HandleReads, FoldLeft, MapThenFoldSet, q, b
<1>8. it[1 .. 0] = b
  <2>1. 1 .. 0 = {} /\ {} \in SUBSET DOMAIN q
    OBVIOUS
  <2>2. QED
    BY <1>7, <2>1
<1>9. ASSUME NEW k \in 1 .. m
      PROVE  it[1 .. k] = HandleRead(it[1 .. k - 1], u, q[k])
  <2>1. /\ Top(1 .. k) = k /\ (1 .. k) \ {k} = 1 .. k - 1 /\ 1 .. k # {}
        /\ 1 .. k \in SUBSET DOMAIN q
    <3>1. k \in Nat \ {0} /\ 1 .. k \in SUBSET (1 .. m)
      BY <1>2
    <3>2. QED
      BY <1>2, <3>1, TopOfFirst
  <2>2. Max(1 .. k) = k
    BY <2>1 DEF Max, Top
  <2>3. it[1 .. k] = HandleRead(it[(1 .. k) \ {Max(1 .. k)}], u, q[Max(1 .. k)])
    BY <1>7, <2>1
  <2>4. QED
    BY <2>1, <2>2, <2>3
<1>10. QED
  BY <1>2, <1>7, <1>8, <1>9 DEF m, q, b

\* After k requests of u, the first of them have started walks: all k, or else
\* the lower level refused, or the bandwidth is used up.
ReadSome(x, u, q, y, k) ==
    /\ y \in Reading /\ y.upper = x.upper /\ x.bw - y.bw \in 0 .. k
    /\ x.bw - y.bw = k \/ y.stop \/ y.bw = 0
    /\ \A v \in Upper, page \in WalkPages :
          Count(y.MSHR, WalksFor(v, page)) =
             Count(x.MSHR, WalksFor(v, page))
               + IF v = u THEN Count(SubSeq(q, 1, x.bw - y.bw), {page}) ELSE 0

\* One more request.
LEMMA ReadOneMore ==
  ASSUME vmem \in Memory, CR3Key \in DOMAIN vmem.page_table,
         NEW x \in Reading, NEW u \in Upper, NEW q \in Seq(WalkPages),
         NEW k \in 1 .. Len(q), NEW y, ReadSome(x, u, q, y, k - 1)
  PROVE  ReadSome(x, u, q, HandleRead(y, u, q[k]), k)
<1> DEFINE z == HandleRead(y, u, q[k])
           n == x.bw - y.bw
<1>1. /\ y \in Reading /\ y.upper = x.upper /\ n \in 0 .. k - 1
      /\ n = k - 1 \/ y.stop \/ y.bw = 0
      /\ \A v \in Upper, page \in WalkPages :
            Count(y.MSHR, WalksFor(v, page)) =
               Count(x.MSHR, WalksFor(v, page))
                 + IF v = u THEN Count(SubSeq(q, 1, n), {page}) ELSE 0
  BY DEF ReadSome
<1>2. q[k] \in WalkPages /\ Len(q) \in Nat
  BY LenProperties
<1>3. /\ z \in Reading /\ z.upper = y.upper
      /\ \/ z.MSHR = y.MSHR /\ z.bw = y.bw /\ (z.stop \/ z.bw = 0)
         \/ /\ ~y.stop /\ y.bw # 0 /\ z.bw = y.bw - 1
            /\ \A v \in Upper, page \in WalkPages :
                  Count(z.MSHR, WalksFor(v, page)) =
                     Count(y.MSHR, WalksFor(v, page)) + One(v = u /\ page = q[k])
  BY <1>1, <1>2, HandleReadKeeps
<1>4. x.bw \in Nat /\ y.bw \in Nat
  BY <1>1 DEF Reading
<1> HIDE DEF z
<1>5. CASE z.MSHR = y.MSHR /\ z.bw = y.bw /\ (z.stop \/ z.bw = 0)
  <2>1. x.bw - z.bw = n /\ n \in 0 .. k
    BY <1>1, <1>2, <1>5
  <2> HIDE DEF n
  <2>2. x.bw - z.bw = k \/ z.stop \/ z.bw = 0
    BY <1>5
  <2>3. \A v \in Upper, page \in WalkPages :
           Count(z.MSHR, WalksFor(v, page)) =
              Count(x.MSHR, WalksFor(v, page))
                + IF v = u THEN Count(SubSeq(q, 1, x.bw - z.bw), {page}) ELSE 0
    BY <1>1, <1>5, <2>1
  <2>4. z.upper = x.upper /\ x.bw - z.bw \in 0 .. k
    BY <1>1, <1>3, <2>1
  <2>5. ReadSome(x, u, q, z, k)
    BY <1>3, <2>2, <2>3, <2>4 DEF ReadSome
  <2>6. QED
    BY <2>5 DEF z
<1>6. CASE /\ ~y.stop /\ y.bw # 0 /\ z.bw = y.bw - 1
           /\ \A v \in Upper, page \in WalkPages :
                 Count(z.MSHR, WalksFor(v, page)) =
                    Count(y.MSHR, WalksFor(v, page)) + One(v = u /\ page = q[k])
  <2>1. n = k - 1 /\ x.bw - z.bw = k
    BY <1>1, <1>2, <1>4, <1>6
  <2>2. k \in 0 .. k
    BY <1>2
  <2> HIDE DEF n
  <2>3. ASSUME NEW v \in Upper, NEW page \in WalkPages
        PROVE  Count(z.MSHR, WalksFor(v, page)) =
                  Count(x.MSHR, WalksFor(v, page))
                    + IF v = u THEN Count(SubSeq(q, 1, k), {page}) ELSE 0
    <3> DEFINE D == WalksFor(v, page)
               a == Count(x.MSHR, D)
               c == Count(SubSeq(q, 1, k - 1), {page})
               d == Count(SubSeq(q, 1, k), {page})
    <3>1. d = c + One(q[k] \in {page}) /\ SubSeq(q, 1, k - 1) \in Seq(WalkPages)
      BY CountUpTo
    <3>2. a \in Nat /\ c \in Nat
      <4>1. x.MSHR \in Seq(WalkingIn(vmem))
        BY DEF Reading
      <4>2. QED
        BY <3>1, <4>1, CountType
    <3>3. Count(z.MSHR, D) = Count(y.MSHR, D) + One(v = u /\ page = q[k])
      BY <1>6
    <3>4. Count(y.MSHR, D) = a + IF v = u THEN c ELSE 0
      BY <1>1, <2>1
    <3>5. One(q[k] \in {page}) = IF page = q[k] THEN 1 ELSE 0
      BY DEF One
    <3>6. One(v = u /\ page = q[k]) = IF v = u /\ page = q[k] THEN 1 ELSE 0
      BY DEF One
    <3> HIDE DEF D, a, c, d
    <3>7. Count(z.MSHR, D) = a + IF v = u THEN d ELSE 0
      BY <3>1, <3>2, <3>3, <3>4, <3>5, <3>6
    <3>8. QED
      BY <3>7 DEF D, a, d
  <2>4. \A v \in Upper, page \in WalkPages :
           Count(z.MSHR, WalksFor(v, page)) =
              Count(x.MSHR, WalksFor(v, page))
                + IF v = u THEN Count(SubSeq(q, 1, x.bw - z.bw), {page}) ELSE 0
    BY <2>1, <2>3
  <2>5. z.upper = x.upper /\ x.bw - z.bw \in 0 .. k
    BY <1>1, <1>3, <2>1, <2>2
  <2>6. ReadSome(x, u, q, z, k)
    BY <1>3, <2>1, <2>4, <2>5 DEF ReadSome
  <2>7. QED
    BY <2>6 DEF z
<1>7. QED
  BY <1>3, <1>5, <1>6

\* The requests that left the queue have walks.
LEMMA HandleReadsKeep ==
  ASSUME vmem \in Memory, CR3Key \in DOMAIN vmem.page_table,
         NEW x \in Reading, NEW u \in Upper
  PROVE  ReadSome(x, u, x.upper[u].RQ, HandleReads(x, u), Len(x.upper[u].RQ))
<1> DEFINE q == x.upper[u].RQ
           m == Len(q)
           b == [x EXCEPT !.stop = FALSE]
<1>1. q \in Seq(WalkPages)
  BY DEF Reading, ChannelOf
<1>2. PICK it : /\ HandleReads(x, u) = it[1 .. m]
                /\ it[1 .. 0] = b
                /\ \A k \in 1 .. m : it[1 .. k] = HandleRead(it[1 .. k - 1], u, q[k])
  BY HandleReadsSteps
<1>3. b \in Reading /\ b.upper = x.upper /\ b.bw = x.bw /\ b.MSHR = x.MSHR /\ x.bw \in Nat
  BY DEF Reading
<1> HIDE DEF q, b
<1>4. m \in Nat
  BY <1>1, LenProperties
<1>5. ReadSome(x, u, q, b, 0)
  <2>1. x.bw - b.bw = 0
    BY <1>3
  <2>2. SubSeq(q, 1, 0) = << >>
    BY SubSeqEmpty
  <2>3. \A page : Count(SubSeq(q, 1, 0), {page}) = 0
    BY <2>2, CountEmpty
  <2>4. \A v \in Upper, page \in WalkPages : Count(x.MSHR, WalksFor(v, page)) \in Nat
    <3>1. x.MSHR \in Seq(WalkingIn(vmem))
      BY DEF Reading
    <3>2. QED
      BY <3>1, CountType
  <2>5. ASSUME NEW v \in Upper, NEW page \in WalkPages
        PROVE  Count(b.MSHR, WalksFor(v, page)) =
                  Count(x.MSHR, WalksFor(v, page))
                    + IF v = u THEN Count(SubSeq(q, 1, x.bw - b.bw), {page}) ELSE 0
    <3>1. Count(SubSeq(q, 1, x.bw - b.bw), {page}) = 0
      BY <2>1, <2>3
    <3>2. b.MSHR = x.MSHR /\ Count(x.MSHR, WalksFor(v, page)) \in Nat
      BY <1>3, <2>4
    <3>3. QED
      BY <3>1, <3>2
  <2>6. x.bw - b.bw \in 0 .. 0
    BY <2>1
  <2>7. QED
    BY <1>3, <2>1, <2>5, <2>6 DEF ReadSome
<1> DEFINE S == {k \in 0 .. m : ReadSome(x, u, q, it[1 .. k], k)}
<1>6. 0 \in S
  BY <1>2, <1>4, <1>5
<1>7. ASSUME NEW k \in 1 .. m, k - 1 \in S
      PROVE  k \in S
  <2>1. ReadSome(x, u, q, it[1 .. k - 1], k - 1) /\ k \in 0 .. m
    BY <1>4, <1>7
  <2>2. it[1 .. k] = HandleRead(it[1 .. k - 1], u, q[k])
    BY <1>2
  <2>3. ReadSome(x, u, q, it[1 .. k], k)
    BY <1>1, <2>1, <2>2, ReadOneMore
  <2>4. QED
    BY <2>1, <2>3
<1>8. m \in S
  <2> HIDE DEF S
  <2>1. m \in 0 .. m
    BY <1>4
  <2>2. QED
    BY <1>4, <1>6, <1>7, <2>1, UpTo
<1>9. QED
  BY <1>2, <1>8 DEF q

\* The walks and the requests of a page.
Wanted(x, u, vpage) == Count(x.MSHR, WalksFor(u, vpage)) + Count(x.upper[u].RQ, {vpage})

\* What the reads make of x.
ReadFrom(x) ==
    {y \in Reading :
        \A u \in Upper :
           /\ y.upper[u].returned = x.upper[u].returned
           /\ \A vpage \in WalkPages : Wanted(y, u, vpage) = Wanted(x, u, vpage)}

\* A channel whose reads are assigned.
LEMMA ReadsAssigned ==
  ASSUME NEW S, NEW R, NEW up \in [Upper -> ChannelOf(S, R)], NEW u \in Upper, NEW s \in Seq(S)
  PROVE  LET r == [up EXCEPT ![u].RQ = s]
         IN  /\ r \in [Upper -> ChannelOf(S, R)]
             /\ r[u].RQ = s
             /\ \A v \in Upper : /\ r[v].returned = up[v].returned
                                 /\ v # u => r[v].RQ = up[v].RQ
<1> DEFINE c == [up[u] EXCEPT !.RQ = s]
           r == [up EXCEPT ![u] = c]
<1>1. up[u] \in ChannelOf(S, R)
  OBVIOUS
<1>2. c \in ChannelOf(S, R) /\ c.RQ = s /\ c.returned = up[u].returned
  <2> DEFINE d == up[u]
  <2> HIDE DEF d
  <2>1. d \in ChannelOf(S, R)
    BY <1>1 DEF d
  <2>2. /\ [d EXCEPT !.RQ = s] \in ChannelOf(S, R) /\ [d EXCEPT !.RQ = s].RQ = s
        /\ [d EXCEPT !.RQ = s].returned = d.returned
    BY <2>1 DEF ChannelOf
  <2>3. QED
    BY <2>2 DEF d
<1>3. [up EXCEPT ![u].RQ = s] = r
  OBVIOUS
<1> HIDE DEF c
<1>4. QED
  BY <1>2, <1>3

\* A request is in the queue or has a walk.
LEMMA ReadUpperKeeps ==
  ASSUME vmem \in Memory, CR3Key \in DOMAIN vmem.page_table,
         NEW x, NEW y \in ReadFrom(x), NEW u \in Upper
  PROVE  ReadUpper(y, u) \in ReadFrom(x)
<1> DEFINE q == y.upper[u].RQ
           end == HandleReads(y, u)
           n == y.bw - end.bw
           rest == SubSeq(q, n + 1, Len(q))
           up == [y.upper EXCEPT ![u].RQ = rest]
           z == [end EXCEPT !.upper = up]
<1>1. /\ y \in Reading
      /\ \A v \in Upper :
            /\ y.upper[v].returned = x.upper[v].returned
            /\ \A vpage \in WalkPages : Wanted(y, v, vpage) = Wanted(x, v, vpage)
  BY DEF ReadFrom
<1>2. y.upper \in [Upper -> ChannelOf(WalkPages, AnswersIn(vmem))] /\ y.MSHR \in Seq(WalkingIn(vmem))
  BY <1>1 DEF Reading
<1>3. q \in Seq(WalkPages)
  BY <1>2 DEF ChannelOf
<1>4. ReadSome(y, u, q, end, Len(q))
  BY <1>1, HandleReadsKeep
<1>5. end \in Reading /\ end.upper = y.upper /\ n \in 0 .. Len(q)
  BY <1>4 DEF ReadSome
<1>6. ReadUpper(y, u) = z
  <2>1. ReadUpper(y, u) = [end EXCEPT !.upper[u].RQ = SubSeq(end.upper[u].RQ, n + 1, Len(end.upper[u].RQ))]
    BY DEF ReadUpper
  <2>2. ReadUpper(y, u) = [end EXCEPT !.upper[u].RQ = rest]
    BY <2>1, <1>5
  <2> HIDE DEF end, rest
  <2>3. QED
    BY <2>2, <1>5
<1>7. rest \in Seq(WalkPages)
      /\ \A vpage : Count(q, {vpage}) = Count(SubSeq(q, 1, n), {vpage}) + Count(rest, {vpage})
  <2> HIDE DEF q, n
  <2>1. QED
    BY <1>3, <1>5, CountSplit
<1> HIDE DEF q, n, rest
<1>8. /\ up \in [Upper -> ChannelOf(WalkPages, AnswersIn(vmem))] /\ up[u].RQ = rest
      /\ \A v \in Upper : up[v].returned = y.upper[v].returned /\ (v # u => up[v].RQ = y.upper[v].RQ)
  BY <1>2, <1>7, ReadsAssigned
<1> HIDE DEF up, end
<1>9. z \in Reading /\ z.upper = up /\ z.MSHR = end.MSHR
  BY <1>5, <1>8 DEF Reading
<1> HIDE DEF z
<1>10. ASSUME NEW v \in Upper, NEW vpage \in WalkPages
       PROVE  Wanted(z, v, vpage) = Wanted(y, v, vpage)
  <2> DEFINE D == WalksFor(v, vpage)
  <2>1. Count(end.MSHR, D) = Count(y.MSHR, D)
                               + IF v = u THEN Count(SubSeq(q, 1, n), {vpage}) ELSE 0
    BY <1>4 DEF ReadSome, n
  <2>2. Count(y.MSHR, D) \in Nat /\ Count(rest, {vpage}) \in Nat
    BY <1>2, <1>7, CountType
  <2>3. Count(SubSeq(q, 1, n), {vpage}) \in Nat
    BY <1>3, <1>5, CountSplit, CountType
  <2>4. CASE v = u
    <3>1. y.upper[v].RQ = q /\ z.upper[v].RQ = rest
      BY <2>4, <1>8, <1>9 DEF q
    <3>2. Count(q, {vpage}) = Count(SubSeq(q, 1, n), {vpage}) + Count(rest, {vpage})
      BY <1>7
    <3> HIDE DEF D
    <3>3. Count(z.MSHR, D) + Count(z.upper[v].RQ, {vpage}) =
             Count(y.MSHR, D) + Count(y.upper[v].RQ, {vpage})
      BY <1>9, <2>1, <2>2, <2>3, <2>4, <3>1, <3>2
    <3>4. QED
      BY <3>3 DEF Wanted, D
  <2>5. CASE v # u
    <3>1. y.upper[v].RQ = z.upper[v].RQ
      BY <2>5, <1>8, <1>9
    <3>2. Count(z.MSHR, D) = Count(y.MSHR, D)
      BY <1>9, <2>1, <2>2, <2>5
    <3>3. QED
      BY <3>1, <3>2 DEF Wanted
  <2>6. QED
    BY <2>4, <2>5
<1>11. QED
  BY <1>1, <1>6, <1>8, <1>9, <1>10 DEF ReadFrom

\* All upper levels, in any order.
LEMMA ReadKeeps ==
  ASSUME vmem \in Memory, CR3Key \in DOMAIN vmem.page_table,
         NEW x \in Reading, NEW order \in Seq(Upper)
  PROVE  FoldLeft(ReadUpper, x, order) \in ReadFrom(x)
<1> DEFINE m == Len(order)
           T == ReadFrom(x)
           F == [z \in T \X (1 .. m) |-> ReadUpper(z[1], order[z[2]])]
<1>1. m \in Nat /\ DOMAIN order = 1 .. m /\ \A k \in 1 .. m : order[k] \in Upper
  BY LenProperties
<1>2. x \in T
  BY DEF ReadFrom
<1> HIDE DEF m
<1>3. \A y \in T, k \in 1 .. m : ReadUpper(y, order[k]) \in T
  BY <1>1, ReadUpperKeeps
<1> HIDE DEF T
<1>4. F \in [T \X (1 .. m) -> T]
  BY <1>3
<1>5. PICK jt \in [SUBSET (1 .. m) -> T] : FoldsTo(jt, m, x, F)
  <2> HIDE DEF F
  <2>1. QED
    BY <1>1, <1>2, <1>4, FoldExists
<1>6. jt = [s \in SUBSET DOMAIN order |->
               IF s = {} THEN x ELSE ReadUpper(jt[s \ {Max(s)}], order[Max(s)])]
  <2>1. ASSUME NEW s \in SUBSET (1 .. m), s # {}
        PROVE  F[<<jt[s \ {Top(s)}], Top(s)>>] = ReadUpper(jt[s \ {Max(s)}], order[Max(s)])
    <3>1. Top(s) \in 1 .. m
      BY <2>1, <1>1, TopOf
    <3>2. jt[s \ {Top(s)}] \in T
      BY <1>5
    <3>3. Max(s) = Top(s)
      BY DEF Max, Top
    <3>4. QED
      BY <3>1, <3>2, <3>3
  <2> HIDE DEF F
  <2>2. \A s \in SUBSET (1 .. m) :
           jt[s] = IF s = {} THEN x ELSE F[<<jt[s \ {Top(s)}], Top(s)>>]
    BY <1>5 DEF FoldsTo
  <2>3. QED
    BY <2>1, <2>2, <1>1, <1>5
<1>7. PICK it : /\ it = [s \in SUBSET DOMAIN order |->
                            IF s = {} THEN x ELSE ReadUpper(it[s \ {Max(s)}], order[Max(s)])]
                /\ FoldLeft(ReadUpper, x, order) = it[DOMAIN order]
  BY <1>6, Zenon DEF FoldLeft, MapThenFoldSet
<1> DEFINE S == {k \in 0 .. m : it[1 .. k] \in T}
<1>8. 0 \in S
  <2>1. 1 .. 0 = {} /\ {} \in SUBSET DOMAIN order /\ 0 \in 0 .. m
    BY <1>1
  <2>2. QED
    BY <1>2, <1>7, <2>1
<1>9. ASSUME NEW k \in 1 .. m, k - 1 \in S
      PROVE  k \in S
  <2>1. /\ Top(1 .. k) = k /\ (1 .. k) \ {k} = 1 .. k - 1 /\ 1 .. k # {}
        /\ 1 .. k \in SUBSET DOMAIN order
    <3>1. k \in Nat \ {0} /\ 1 .. k \in SUBSET (1 .. m)
      BY <1>1
    <3>2. QED
      BY <1>1, <3>1, TopOfFirst
  <2>2. Max(1 .. k) = k
    BY <2>1 DEF Max, Top
  <2>3. it[1 .. k] = ReadUpper(it[(1 .. k) \ {Max(1 .. k)}], order[Max(1 .. k)])
    BY <1>7, <2>1
  <2>4. it[1 .. k] = ReadUpper(it[1 .. k - 1], order[k])
    BY <2>1, <2>2, <2>3
  <2>5. k \in 0 .. m
    BY <1>1
  <2>6. QED
    BY <1>3, <1>9, <2>4, <2>5
<1>10. m \in S
  <2> HIDE DEF S
  <2>1. m \in 0 .. m
    BY <1>1
  <2>2. QED
    BY <1>1, <1>8, <1>9, <2>1, UpTo
<1>11. QED
  BY <1>1, <1>7, <1>10 DEF T

-----------------------------------------------------------------------------
(* Answers. *)

\* The channels of the upper levels.
Uppers == [Upper -> ChannelOf(WalkPages, AnswersIn(vmem))]

\* Of the answers that were in up, and those to the walks in queue.
AnswersTo(up, queue) ==
    {r \in Uppers :
        \A u \in Upper :
           /\ r[u].RQ = up[u].RQ
           /\ \A vpage \in WalkPages :
                 Count(r[u].returned, AnswersFor(vpage)) =
                    Count(up[u].returned, AnswersFor(vpage)) + Count(queue, WalksFor(u, vpage))}

\* A completed walk is an answer for everyone who wants it.
LEMMA AnswerWalkKeeps ==
  ASSUME NEW up \in Uppers, NEW m \in CompletedIn(vmem)
  PROVE  LET r == AnswerWalk(up, m)
         IN  /\ r \in Uppers
             /\ \A u \in Upper :
                   /\ r[u].RQ = up[u].RQ
                   /\ \A vpage \in WalkPages :
                         Count(r[u].returned, AnswersFor(vpage)) =
                            Count(up[u].returned, AnswersFor(vpage)) + One(m \in WalksFor(u, vpage))
<1> DEFINE r == AnswerWalk(up, m)
           a == [vpage |-> m.vpage, ppage |-> m.ppage]
<1>1. m \in WalkStep /\ HasFrame(vmem, m)
  BY DEF CompletedIn
<1>2. a \in Answer /\ a.vpage = m.vpage /\ a.ppage = m.ppage
  BY <1>1 DEF WalkStep, Answer
<1> HIDE DEF a
<1>3. a \in AnswersIn(vmem)
  BY <1>1, <1>2 DEF AnswersIn, HasFrame
<1>4. r = [u \in Upper |-> IF u \in m.to_return THEN Push(up[u], "returned", a) ELSE up[u]]
  BY DEF AnswerWalk, a
<1> HIDE DEF r
<1>5. ASSUME NEW u \in Upper
      PROVE  /\ r[u] \in ChannelOf(WalkPages, AnswersIn(vmem))
             /\ r[u].RQ = up[u].RQ
             /\ \A vpage \in WalkPages :
                   Count(r[u].returned, AnswersFor(vpage)) =
                      Count(up[u].returned, AnswersFor(vpage)) + One(m \in WalksFor(u, vpage))
  <2> DEFINE c == up[u]
             to == Push(c, "returned", a)
  <2>1. c \in ChannelOf(WalkPages, AnswersIn(vmem))
    BY DEF Uppers
  <2>2. c.returned \in Seq(AnswersIn(vmem))
    BY <2>1 DEF ChannelOf
  <2>3. CASE u \in m.to_return
    <3>1. r[u] = to
      BY <1>4, <2>3
    <3> HIDE DEF c
    <3>2. /\ to \in ChannelOf(WalkPages, AnswersIn(vmem))
          /\ \A p \in RequestQueues : to[p] = c[p]
          /\ to.returned = Append(c.returned, a)
      BY <1>3, <2>1, Answered
    <3> HIDE DEF to
    <3>3. to["RQ"] = c["RQ"]
      BY <3>2 DEF RequestQueues
    <3>4. to.RQ = c.RQ
      BY <3>3
    <3>5. ASSUME NEW vpage \in WalkPages
          PROVE  Count(to.returned, AnswersFor(vpage)) =
                    Count(c.returned, AnswersFor(vpage)) + One(m \in WalksFor(u, vpage))
      <4>1. Count(Append(c.returned, a), AnswersFor(vpage)) =
               Count(c.returned, AnswersFor(vpage)) + One(a \in AnswersFor(vpage))
        BY <1>3, <2>2, CountAppend
      <4>2. a \in AnswersFor(vpage) <=> m \in WalksFor(u, vpage)
        BY <1>1, <1>2, <2>3 DEF AnswersFor, WalksFor
      <4>3. QED
        BY <3>2, <4>1, <4>2 DEF One
    <3>6. QED
      BY <3>1, <3>2, <3>4, <3>5 DEF c
  <2>4. CASE u \notin m.to_return
    <3>1. r[u] = c
      BY <1>4, <2>4
    <3> HIDE DEF c
    <3>2. \A vpage \in WalkPages : One(m \in WalksFor(u, vpage)) = 0
      BY <2>4 DEF WalksFor, One
    <3>3. \A vpage \in WalkPages : Count(c.returned, AnswersFor(vpage)) \in Nat
      BY <2>2, CountType
    <3>4. QED
      BY <2>1, <3>1, <3>2, <3>3 DEF c
  <2>5. QED
    BY <2>3, <2>4
<1>6. r \in Uppers
  <2>1. r = [u \in Upper |-> r[u]]
    BY <1>4
  <2>2. QED
    BY <1>5, <2>1 DEF Uppers
<1>7. QED
  BY <1>5, <1>6 DEF r

\* Each of them, in order.
LEMMA AnswersKeep ==
  ASSUME NEW up \in Uppers, NEW queue \in Seq(CompletedIn(vmem))
  PROVE  FoldLeft(AnswerWalk, up, queue) \in AnswersTo(up, queue)
<1> DEFINE m == Len(queue)
           F == [z \in Uppers \X (1 .. m) |-> AnswerWalk(z[1], queue[z[2]])]
           C == CompletedIn(vmem)
<1>1. m \in Nat /\ DOMAIN queue = 1 .. m /\ \A k \in 1 .. m : queue[k] \in C
  BY LenProperties
<1> HIDE DEF m, C
<1>2. \A y \in Uppers, k \in 1 .. m : AnswerWalk(y, queue[k]) \in Uppers
  BY <1>1, AnswerWalkKeeps DEF C
<1>3. F \in [Uppers \X (1 .. m) -> Uppers]
  BY <1>2
<1>4. PICK jt \in [SUBSET (1 .. m) -> Uppers] : FoldsTo(jt, m, up, F)
  <2> HIDE DEF F
  <2>1. QED
    BY <1>1, <1>3, FoldExists
<1>5. jt = [s \in SUBSET DOMAIN queue |->
               IF s = {} THEN up ELSE AnswerWalk(jt[s \ {Max(s)}], queue[Max(s)])]
  <2>1. ASSUME NEW s \in SUBSET (1 .. m), s # {}
        PROVE  F[<<jt[s \ {Top(s)}], Top(s)>>] = AnswerWalk(jt[s \ {Max(s)}], queue[Max(s)])
    <3>1. Top(s) \in 1 .. m
      BY <2>1, <1>1, TopOf
    <3>2. jt[s \ {Top(s)}] \in Uppers
      BY <1>4
    <3>3. Max(s) = Top(s)
      BY DEF Max, Top
    <3>4. QED
      BY <3>1, <3>2, <3>3
  <2> HIDE DEF F
  <2>2. \A s \in SUBSET (1 .. m) :
           jt[s] = IF s = {} THEN up ELSE F[<<jt[s \ {Top(s)}], Top(s)>>]
    BY <1>4 DEF FoldsTo
  <2>3. QED
    BY <2>1, <2>2, <1>1, <1>4
<1>6. PICK it : /\ it = [s \in SUBSET DOMAIN queue |->
                            IF s = {} THEN up ELSE AnswerWalk(it[s \ {Max(s)}], queue[Max(s)])]
                /\ FoldLeft(AnswerWalk, up, queue) = it[DOMAIN queue]
  BY <1>5, Zenon DEF FoldLeft, MapThenFoldSet
<1> DEFINE S == {k \in 0 .. m : it[1 .. k] \in AnswersTo(up, SubSeq(queue, 1, k))}
<1>7. 0 \in S
  <2>1. 1 .. 0 = {} /\ {} \in SUBSET DOMAIN queue /\ 0 \in 0 .. m
    BY <1>1
  <2>2. it[1 .. 0] = up
    BY <1>6, <2>1
  <2>3. SubSeq(queue, 1, 0) = << >>
    BY SubSeqEmpty
  <2>4. \A D : Count(SubSeq(queue, 1, 0), D) = 0
    BY <2>3, CountEmpty
  <2>5. \A u \in Upper, vpage \in WalkPages : Count(up[u].returned, AnswersFor(vpage)) \in Nat
    <3>1. \A u \in Upper : up[u].returned \in Seq(AnswersIn(vmem))
      BY DEF Uppers, ChannelOf
    <3>2. QED
      BY <3>1, CountType
  <2> HIDE DEF C
  <2>6. up \in AnswersTo(up, SubSeq(queue, 1, 0))
    BY <2>4, <2>5 DEF AnswersTo
  <2>7. QED
    BY <2>1, <2>2, <2>6
<1>8. ASSUME NEW k \in 1 .. m, k - 1 \in S
      PROVE  k \in S
  <2>1. /\ Top(1 .. k) = k /\ (1 .. k) \ {k} = 1 .. k - 1 /\ 1 .. k # {}
        /\ 1 .. k \in SUBSET DOMAIN queue
    <3>1. k \in Nat \ {0} /\ 1 .. k \in SUBSET (1 .. m)
      BY <1>1
    <3>2. QED
      BY <1>1, <3>1, TopOfFirst
  <2>2. Max(1 .. k) = k
    BY <2>1 DEF Max, Top
  <2>3. it[1 .. k] = AnswerWalk(it[(1 .. k) \ {Max(1 .. k)}], queue[Max(1 .. k)])
    BY <1>6, <2>1
  <2> DEFINE y == it[1 .. k - 1]
             r == it[1 .. k]
             w == queue[k]
  <2>4. r = AnswerWalk(y, w) /\ w \in CompletedIn(vmem)
    BY <1>1, <2>1, <2>2, <2>3 DEF C
  <2>5. k \in 0 .. m /\ y \in AnswersTo(up, SubSeq(queue, 1, k - 1))
    BY <1>1, <1>8
  <2> HIDE DEF y, r, w
  <2>6. y \in Uppers
    BY <2>5 DEF AnswersTo
  <2>7. /\ r \in Uppers
        /\ \A u \in Upper :
              /\ r[u].RQ = y[u].RQ
              /\ \A vpage \in WalkPages :
                    Count(r[u].returned, AnswersFor(vpage)) =
                       Count(y[u].returned, AnswersFor(vpage)) + One(w \in WalksFor(u, vpage))
    BY <2>4, <2>6, AnswerWalkKeeps
  <2>8. ASSUME NEW u \in Upper, NEW vpage \in WalkPages
        PROVE  Count(r[u].returned, AnswersFor(vpage)) =
                  Count(up[u].returned, AnswersFor(vpage))
                    + Count(SubSeq(queue, 1, k), WalksFor(u, vpage))
    <3> DEFINE D == WalksFor(u, vpage)
               before == SubSeq(queue, 1, k - 1)
               a == Count(up[u].returned, AnswersFor(vpage))
               b == Count(before, D)
    <3>1. Count(SubSeq(queue, 1, k), D) = b + One(w \in D) /\ before \in Seq(CompletedIn(vmem))
      <4>1. k \in 1 .. Len(queue)
        BY DEF m
      <4>2. QED
        BY <4>1, CountUpTo DEF w
    <3>2. a \in Nat /\ b \in Nat /\ One(w \in D) \in Nat
      <4>1. up[u].returned \in Seq(AnswersIn(vmem))
        BY DEF Uppers, ChannelOf
      <4>2. QED
        BY <3>1, <4>1, CountType DEF One
    <3>3. Count(y[u].returned, AnswersFor(vpage)) = a + b
      BY <2>5 DEF AnswersTo
    <3>4. Count(r[u].returned, AnswersFor(vpage)) = a + b + One(w \in D)
      BY <2>7, <3>3
    <3> HIDE DEF a, b, D
    <3>5. Count(r[u].returned, AnswersFor(vpage)) = a + Count(SubSeq(queue, 1, k), D)
      BY <3>1, <3>2, <3>4
    <3>6. QED
      BY <3>5 DEF a, D
  <2>9. \A u \in Upper : r[u].RQ = up[u].RQ
    BY <2>5, <2>7 DEF AnswersTo
  <2>10. r \in AnswersTo(up, SubSeq(queue, 1, k))
    BY <2>7, <2>8, <2>9 DEF AnswersTo
  <2>11. QED
    BY <2>5, <2>10 DEF r
<1>9. m \in S
  <2> HIDE DEF S
  <2>1. m \in 0 .. m
    BY <1>1
  <2>2. QED
    BY <1>1, <1>7, <1>8, <2>1, UpTo
<1>10. SubSeq(queue, 1, m) = queue
  <2>1. Len(queue) = m /\ m \in 0 .. Len(queue)
    BY <1>1 DEF m
  <2>2. /\ SubSeq(queue, 1, m) \in Seq(CompletedIn(vmem)) /\ Len(SubSeq(queue, 1, m)) = m
        /\ \A i \in 1 .. m : SubSeq(queue, 1, m)[i] = queue[i]
    BY <2>1, CountSplit
  <2>3. QED
    BY <2>1, <2>2, SeqEqual
<1>11. QED
  BY <1>1, <1>6, <1>9, <1>10

\* The walks that are ready are at most the width.
LEMMA ReadyBounds ==
  ASSUME NEW T, NEW queue \in Seq(T), NEW width \in Nat
  PROVE  /\ ReadySpan(queue, width) \in 0 .. Len(queue)
         /\ ReadySpan(queue, width) <= width
<1> DEFINE S == {n \in 0 .. Len(queue) : n <= width /\ \A i \in 1 .. n : queue[i].ready = 0}
           L == {Len(queue) - n : n \in S}
<1>1. Len(queue) \in Nat
  BY LenProperties
<1>2. 0 \in S
  BY <1>1
<1>3. L \subseteq Nat /\ L # {}
  <2>1. \A n \in S : Len(queue) - n \in Nat
    BY <1>1
  <2>2. Len(queue) - 0 \in L
    BY <1>2
  <2>3. QED
    BY <2>1, <2>2
<1>4. PICK l \in L : \A k \in L : l <= k
  BY <1>3, SmallestOf
<1>5. PICK x \in S : l = Len(queue) - x
  BY <1>4
<1>6. \A y \in S : Len(queue) - x <= Len(queue) - y
  BY <1>4, <1>5
<1>7. \A y \in S : y <= x
  BY <1>1, <1>6
<1>8. ReadySpan(queue, width) \in S
  <2> HIDE DEF S
  <2>1. Greatest(S) \in S
    BY <1>5, <1>7 DEF Greatest
  <2>2. QED
    BY <2>1 DEF ReadySpan, S
<1>9. QED
  BY <1>8

-----------------------------------------------------------------------------
(* Every action keeps the invariant. *)

\* Every queue has its length.
LEMMA OwedCounts ==
  ASSUME TypeInv, NEW u \in Upper, NEW vpage \in WalkPages
  PROVE  /\ Count(MSHR, WalksFor(u, vpage)) \in Nat
         /\ Count(finished, WalksFor(u, vpage)) \in Nat
         /\ Count(completed, WalksFor(u, vpage)) \in Nat
         /\ Count(upper[u].RQ, {vpage}) \in Nat
         /\ Count(upper[u].returned, AnswersFor(vpage)) \in Nat
         /\ upper[u] \in ChannelOf(WalkPages, AnswersIn(vmem))
         /\ upper[u].RQ \in Seq(WalkPages)
         /\ upper[u].returned \in Seq(AnswersIn(vmem))
<1>1. upper[u] \in ChannelOf(WalkPages, AnswersIn(vmem))
  BY DEF TypeInv
<1>2. upper[u].RQ \in Seq(WalkPages) /\ upper[u].returned \in Seq(AnswersIn(vmem))
  BY <1>1 DEF ChannelOf
<1>3. /\ MSHR \in Seq(WalkingIn(vmem)) /\ finished \in Seq(FinishedIn(vmem))
      /\ completed \in Seq(CompletedIn(vmem))
  BY DEF TypeInv
<1>4. QED
  BY <1>1, <1>2, <1>3, CountType

\* A cycle less to wait.
LEMMA WaitedKeeps ==
  ASSUME NEW vm, NEW S, S = FinishedIn(vm) \/ S = CompletedIn(vm), NEW queue \in Seq(S)
  PROVE  /\ Waited(queue) \in Seq(S)
         /\ \A u, vpage : Count(Waited(queue), WalksFor(u, vpage)) = Count(queue, WalksFor(u, vpage))
<1> DEFINE Later(m) == [m EXCEPT !.ready = IF @ > 0 THEN @ - 1 ELSE 0]
<1>1. Len(queue) \in Nat /\ DOMAIN queue = 1 .. Len(queue) /\ \A i \in 1 .. Len(queue) : queue[i] \in S
  BY LenProperties
<1>2. Waited(queue) = [i \in 1 .. Len(queue) |-> Later(queue[i])]
  BY <1>1 DEF Waited
<1>3. ASSUME NEW m \in S
      PROVE  /\ Later(m) \in S
             /\ \A u, vpage : Later(m) \in WalksFor(u, vpage) <=> m \in WalksFor(u, vpage)
  <2> DEFINE t == IF m.ready > 0 THEN m.ready - 1 ELSE 0
             r == [m EXCEPT !.ready = t]
  <2>1. m \in WalkStep
    BY DEF FinishedIn, CompletedIn
  <2>2. t \in Nat
    BY <2>1 DEF WalkStep
  <2>3. Later(m) = r
    OBVIOUS
  <2> HIDE DEF t
  <2>4. /\ r \in WalkStep /\ r.vpage = m.vpage /\ r.level = m.level /\ r.ppage = m.ppage
        /\ r.to_return = m.to_return /\ r.address = m.address
    BY <2>1, <2>2 DEF WalkStep
  <2> HIDE DEF r
  <2>5. r \in S
    BY <2>4 DEF FinishedIn, CompletedIn, OnPath, HasFrame
  <2>6. QED
    BY <2>1, <2>3, <2>4, <2>5 DEF WalksFor
<1> HIDE DEF Later
<1>4. Waited(queue) \in [1 .. Len(queue) -> S]
  BY <1>1, <1>2, <1>3
<1>5. Waited(queue) \in Seq(S) /\ Len(Waited(queue)) = Len(queue)
  BY <1>1, <1>4, FunctionIsSequence
<1>6. ASSUME NEW u, NEW vpage
      PROVE  Count(Waited(queue), WalksFor(u, vpage)) = Count(queue, WalksFor(u, vpage))
  <2>1. \A i \in 1 .. Len(queue) : queue[i] \in WalksFor(u, vpage) <=> Waited(queue)[i] \in WalksFor(u, vpage)
    BY <1>1, <1>2, <1>3
  <2>2. QED
    BY <1>5, <2>1, CountAlike
<1>7. QED
  BY <1>5, <1>6

\* StartCycle
LEMMA StartCycleKeeps == WalkInv /\ StartCycle => WalkInv'
<1> SUFFICES ASSUME WalkInv, StartCycle PROVE WalkInv'
  OBVIOUS
<1>1. /\ finished' = Waited(finished) /\ completed' = Waited(completed)
      /\ UNCHANGED <<MSHR, pscl, vmem, upper, lower, fill_bw, pending, wait>>
  BY DEF StartCycle, externalVars
<1>2. /\ finished' \in Seq(FinishedIn(vmem)) /\ completed' \in Seq(CompletedIn(vmem))
      /\ \A u, vpage : /\ Count(finished', WalksFor(u, vpage)) = Count(finished, WalksFor(u, vpage))
                       /\ Count(completed', WalksFor(u, vpage)) = Count(completed, WalksFor(u, vpage))
  <2>1. finished \in Seq(FinishedIn(vmem)) /\ completed \in Seq(CompletedIn(vmem))
    BY DEF WalkInv, TypeInv
  <2>2. QED
    BY <1>1, <2>1, WaitedKeeps
<1>3. TypeInv'
  BY <1>1, <1>2 DEF WalkInv, TypeInv
<1>4. OwedInv'
  <2>1. \A u \in Upper, vpage \in WalkPages : Owed(u, vpage)' = Owed(u, vpage)
    BY <1>1, <1>2 DEF Owed
  <2>2. QED
    BY <1>1, <2>1 DEF WalkInv, OwedInv
<1>5. QED
  BY <1>1, <1>3, <1>4 DEF WalkInv

\* NoReturns
LEMMA NoReturnsKeeps == WalkInv /\ NoReturns => WalkInv'
<1> SUFFICES ASSUME WalkInv, NoReturns PROVE WalkInv'
  OBVIOUS
<1>1. /\ fill_bw' = MAX_FILL
      /\ UNCHANGED <<MSHR, finished, completed, pscl, vmem, upper, lower, pending, wait>>
  BY DEF NoReturns, externalVars, walkVars
<1>2. MAX_FILL \in 0 .. MAX_FILL
  BY PTWAssumption
<1>3. TypeInv'
  BY <1>1, <1>2 DEF WalkInv, TypeInv
<1>4. OwedInv'
  BY <1>1 DEF WalkInv, OwedInv, Owed
<1>5. QED
  BY <1>1, <1>3, <1>4 DEF WalkInv

\* NoFill, and a step of nobody
LEMMA NoFillKeeps ==
  WalkInv /\ (NoFill \/ UNCHANGED ptwVars) => WalkInv'
<1> SUFFICES ASSUME WalkInv, NoFill \/ UNCHANGED ptwVars PROVE WalkInv'
  OBVIOUS
<1>1. UNCHANGED <<MSHR, finished, completed, pscl, vmem, upper, lower, fill_bw, pending, wait>>
  BY DEF NoFill, externalVars, walkVars, ptwVars
<1>2. TypeInv'
  BY <1>1 DEF WalkInv, TypeInv
<1>3. OwedInv'
  BY <1>1 DEF WalkInv, OwedInv, Owed
<1>4. QED
  BY <1>1, <1>2, <1>3 DEF WalkInv

\* Request
LEMMA RequestKeeps ==
  ASSUME WalkInv, NEW u \in Upper, NEW vpage \in WalkPages, Request(u, vpage)
  PROVE  WalkInv'
<1> DEFINE c == upper[u]
           to == Push(c, "RQ", vpage)
           w == wait[u] \cup {vpage}
<1>1. /\ upper' = [upper EXCEPT ![u] = to] /\ wait' = [wait EXCEPT ![u] = w] /\ vpage \notin wait[u]
      /\ UNCHANGED <<MSHR, finished, completed, pscl, vmem, lower, fill_bw, pending>>
  BY DEF Request, walkVars
<1>2. /\ TypeInv /\ upper \in [Upper -> ChannelOf(WalkPages, AnswersIn(vmem))]
      /\ wait \in [Upper -> SUBSET WalkPages] /\ OwedInv
  BY DEF WalkInv, TypeInv
<1>3. c \in ChannelOf(WalkPages, AnswersIn(vmem))
  BY <1>2
<1> HIDE DEF c
<1>4. /\ to \in ChannelOf(WalkPages, AnswersIn(vmem)) /\ to.RQ = Append(c.RQ, vpage)
      /\ to.returned = c.returned /\ c.RQ \in Seq(WalkPages)
  BY <1>3, ReadPushed
<1> HIDE DEF to
<1>5. w \in SUBSET WalkPages
  BY <1>2
<1> HIDE DEF w
<1>6. TypeInv'
  <2>1. upper' \in [Upper -> ChannelOf(WalkPages, AnswersIn(vmem))] /\ wait' \in [Upper -> SUBSET WalkPages]
    BY <1>1, <1>2, <1>4, <1>5
  <2>2. QED
    BY <1>1, <1>2, <2>1 DEF TypeInv
<1>7. ASSUME NEW v \in Upper, NEW page \in WalkPages
      PROVE  Owed(v, page)' = One(page \in wait'[v])
  <2>1. Owed(v, page) = One(page \in wait[v])
    BY <1>2 DEF OwedInv
  <2>2. CASE v = u
    <3>1. upper'[v] = to /\ upper[v] = c /\ wait'[v] = w /\ wait[v] = wait[u]
      BY <1>1, <1>2, <2>2 DEF c
    <3>2. Count(to.RQ, {page}) = Count(c.RQ, {page}) + One(vpage \in {page})
      BY <1>4, CountAppend
    <3>3. One(page \in w) = One(page \in wait[u]) + One(vpage \in {page})
      BY <1>1 DEF One, w
    <3>4. /\ Count(MSHR, WalksFor(v, page)) \in Nat /\ Count(finished, WalksFor(v, page)) \in Nat
          /\ Count(completed, WalksFor(v, page)) \in Nat /\ Count(c.RQ, {page}) \in Nat
          /\ Count(c.returned, AnswersFor(page)) \in Nat
      BY <1>2, <3>1, OwedCounts
    <3>5. One(vpage \in {page}) \in Nat
      BY DEF One
    <3>6. Owed(v, page)' = Owed(v, page) + One(vpage \in {page})
      <4> DEFINE m == Count(MSHR, WalksFor(v, page))
                 f == Count(finished, WalksFor(v, page))
                 d == Count(completed, WalksFor(v, page))
                 r == Count(c.returned, AnswersFor(page))
      <4>1. Owed(v, page)' = m + f + d + Count(to.RQ, {page}) + r
        BY <1>1, <1>4, <3>1 DEF Owed
      <4>2. Owed(v, page) = m + f + d + Count(c.RQ, {page}) + r
        BY <3>1 DEF Owed
      <4>3. m \in Nat /\ f \in Nat /\ d \in Nat /\ r \in Nat
        BY <3>4
      <4> HIDE DEF m, f, d, r
      <4>4. Count(to.RQ, {page}) = Count(c.RQ, {page}) + One(vpage \in {page})
        BY <1>4, <3>2
      <4>5. QED
        BY <3>4, <3>5, <4>1, <4>2, <4>3, <4>4
    <3>7. QED
      BY <2>1, <3>1, <3>3, <3>6
  <2>3. CASE v # u
    <3>1. upper'[v] = upper[v] /\ wait'[v] = wait[v]
      BY <1>1, <1>2, <2>3
    <3>2. Owed(v, page)' = Owed(v, page)
      BY <1>1, <3>1 DEF Owed
    <3>3. QED
      BY <2>1, <3>1, <3>2
  <2>4. QED
    BY <2>2, <2>3
<1>8. QED
  BY <1>1, <1>6, <1>7 DEF WalkInv, OwedInv

\* TakeAnswer
LEMMA TakeAnswerKeeps ==
  ASSUME WalkInv, NEW u \in Upper, TakeAnswer(u)
  PROVE  WalkInv'
<1> DEFINE c == upper[u]
           to == Pop(c, "returned")
           vpage == Head(c.returned).vpage
           w == wait[u] \ {vpage}
<1>1. /\ upper' = [upper EXCEPT ![u] = to] /\ wait' = [wait EXCEPT ![u] = w] /\ c.returned # << >>
      /\ UNCHANGED <<MSHR, finished, completed, pscl, vmem, lower, fill_bw, pending>>
  BY DEF TakeAnswer, walkVars
<1>2. /\ TypeInv /\ upper \in [Upper -> ChannelOf(WalkPages, AnswersIn(vmem))]
      /\ wait \in [Upper -> SUBSET WalkPages] /\ OwedInv
  BY DEF WalkInv, TypeInv
<1>3. c \in ChannelOf(WalkPages, AnswersIn(vmem))
  BY <1>2
<1> HIDE DEF c
<1>4. /\ to \in ChannelOf(WalkPages, AnswersIn(vmem)) /\ to.RQ = c.RQ
      /\ to.returned = Tail(c.returned) /\ c.returned \in Seq(AnswersIn(vmem))
  <2>1. /\ to \in ChannelOf(WalkPages, AnswersIn(vmem)) /\ \A p \in RequestQueues : to[p] = c[p]
        /\ to.returned = Tail(c.returned) /\ c.returned \in Seq(AnswersIn(vmem))
    BY <1>1, <1>3, AnswerRead
  <2> HIDE DEF to
  <2>2. to["RQ"] = c["RQ"]
    BY <2>1 DEF RequestQueues
  <2>3. QED
    BY <2>1, <2>2
<1> HIDE DEF to
<1>5. Head(c.returned) \in AnswersIn(vmem) /\ Head(c.returned) \in Answer
  BY <1>1, <1>4, CountTail DEF AnswersIn
<1> HIDE DEF vpage
<1>6. w \in SUBSET WalkPages
  BY <1>2
<1> HIDE DEF w
<1>7. TypeInv'
  <2>1. upper' \in [Upper -> ChannelOf(WalkPages, AnswersIn(vmem))] /\ wait' \in [Upper -> SUBSET WalkPages]
    BY <1>1, <1>2, <1>4, <1>6
  <2>2. QED
    BY <1>1, <1>2, <2>1 DEF TypeInv
<1>8. ASSUME NEW v \in Upper, NEW page \in WalkPages
      PROVE  Owed(v, page)' = One(page \in wait'[v])
  <2>1. Owed(v, page) = One(page \in wait[v])
    BY <1>2 DEF OwedInv
  <2>2. CASE v = u
    <3>1. upper'[v] = to /\ upper[v] = c /\ wait'[v] = w /\ wait[v] = wait[u]
      BY <1>1, <1>2, <2>2 DEF c
    <3>2. Count(c.returned, AnswersFor(page)) =
             One(Head(c.returned) \in AnswersFor(page)) + Count(to.returned, AnswersFor(page))
          /\ to.returned \in Seq(AnswersIn(vmem))
      BY <1>1, <1>4, CountTail
    <3>3. Head(c.returned) \in AnswersFor(page) <=> page = vpage
      BY <1>5 DEF AnswersFor, vpage
    <3>4. One(Head(c.returned) \in AnswersFor(page)) = IF page = vpage THEN 1 ELSE 0
      BY <3>3 DEF One
    <3>5. /\ Count(MSHR, WalksFor(v, page)) \in Nat /\ Count(finished, WalksFor(v, page)) \in Nat
          /\ Count(completed, WalksFor(v, page)) \in Nat /\ Count(c.RQ, {page}) \in Nat
          /\ Count(to.returned, AnswersFor(page)) \in Nat
      BY <1>2, <3>1, <3>2, OwedCounts, CountType
    <3>6. Owed(v, page) = Owed(v, page)' + IF page = vpage THEN 1 ELSE 0
      BY <1>1, <1>4, <3>1, <3>2, <3>4, <3>5 DEF Owed
    <3>7. Owed(v, page)' \in Nat
      BY <1>1, <1>4, <3>1, <3>5 DEF Owed
    <3>8. One(page \in wait[u]) = (IF page \in wait[u] THEN 1 ELSE 0)
          /\ One(page \in w) = IF page \in wait[u] /\ page # vpage THEN 1 ELSE 0
      BY DEF One, w
    <3> DEFINE a == Owed(v, page)
               b == a'
    <3>9. a = b + (IF page = vpage THEN 1 ELSE 0) /\ b \in Nat
          /\ a = IF page \in wait[u] THEN 1 ELSE 0
      BY <2>1, <3>1, <3>6, <3>7, <3>8
    <3> HIDE DEF a
    <3>10. b = IF page \in wait[u] /\ page # vpage THEN 1 ELSE 0
      BY <3>9
    <3>11. QED
      BY <3>1, <3>8, <3>10 DEF a
  <2>3. CASE v # u
    <3>1. upper'[v] = upper[v] /\ wait'[v] = wait[v]
      BY <1>1, <1>2, <2>3
    <3>2. Owed(v, page)' = Owed(v, page)
      BY <1>1, <3>1 DEF Owed
    <3>3. QED
      BY <2>1, <3>1, <3>2
  <2>4. QED
    BY <2>2, <2>3
<1>9. QED
  BY <1>1, <1>7, <1>8 DEF WalkInv, OwedInv

\* The lower level takes a read from its queue.
LEMMA ReadPopped ==
  ASSUME NEW S, NEW R, NEW c \in ChannelOf(S, R), c.RQ # << >>
  PROVE  /\ Pop(c, "RQ") \in ChannelOf(S, R)
         /\ Pop(c, "RQ").RQ = Tail(c.RQ)
         /\ Pop(c, "RQ").returned = c.returned
         /\ c.RQ \in Seq(S)
<1> DEFINE to == Pop(c, "RQ")
<1>1. "RQ" \in RequestQueues /\ c["RQ"] # << >>
  BY DEF RequestQueues
<1>2. /\ to \in ChannelOf(S, R)
      /\ \A p \in RequestQueues : to[p] = IF p = "RQ" THEN Tail(c["RQ"]) ELSE c[p]
      /\ to.returned = c.returned
      /\ c["RQ"] \in Seq(S)
  BY <1>1, Popped
<1> HIDE DEF to
<1>3. to["RQ"] = Tail(c["RQ"])
  BY <1>1, <1>2
<1>4. QED
  BY <1>2, <1>3 DEF to

\* Reads that are under way stay so.
LEMMA OutstandingOn ==
  ASSUME NEW mshr, NEW low, NEW below, Outstanding(mshr, low, below), NEW to, NEW then,
         \A block : UnderWay(low, below, block) => UnderWay(to, then, block)
  PROVE  Outstanding(mshr, to, then)
BY DEF Outstanding

\* Accept
LEMMA AcceptKeeps == WalkInv /\ Accept => WalkInv'
<1> SUFFICES ASSUME WalkInv, Accept PROVE WalkInv'
  OBVIOUS
<1> DEFINE b == Head(lower.RQ)
           same == Cardinality({i \in DOMAIN pending : pending[i] = b})
           to == Pop(lower, "RQ")
<1>1. /\ lower.RQ # << >> /\ lower' = to
      /\ pending' = Append(pending, b) \/ (same > 0 /\ pending' = pending)
      /\ UNCHANGED <<MSHR, finished, completed, pscl, vmem, upper, fill_bw, wait>>
  BY DEF Accept, walkVars
<1>2. /\ TypeInv /\ lower \in ChannelOf(Blocks, Blocks) /\ Len(lower.RQ) <= LowerSize
      /\ pending \in Seq(Blocks) /\ OwedInv /\ Outstanding(MSHR, lower, pending)
  BY DEF WalkInv, TypeInv, LowerChannel
<1>3. /\ to \in ChannelOf(Blocks, Blocks) /\ to.RQ = Tail(lower.RQ)
      /\ to.returned = lower.returned /\ lower.RQ \in Seq(Blocks)
  BY <1>1, <1>2, ReadPopped
<1>4. /\ Len(to.RQ) = Len(lower.RQ) - 1 /\ Len(lower.RQ) \in Nat \ {0}
      /\ b = lower.RQ[1] /\ b \in Blocks
      /\ \A i \in 1 .. Len(lower.RQ) - 1 : to.RQ[i] = lower.RQ[i + 1]
  BY <1>1, <1>3, CountTail
<1>5. same > 0 => Contains(pending, b)
  <2> SUFFICES ASSUME same > 0 PROVE Contains(pending, b)
    OBVIOUS
  <2>1. {i \in DOMAIN pending : pending[i] = b} # {}
    <3> SUFFICES ASSUME {i \in DOMAIN pending : pending[i] = b} = {} PROVE FALSE
      OBVIOUS
    <3>1. same = 0
      BY FS_EmptySet
    <3> HIDE DEF same
    <3>2. QED
      BY <3>1
  <2>2. DOMAIN pending = 1 .. Len(pending)
    BY <1>2, LenProperties
  <2>3. QED
    BY <2>1, <2>2 DEF Contains
<1> HIDE DEF b, same, to
<1>6. /\ pending' \in Seq(Blocks) /\ Contains(pending', b)
      /\ \A c : Contains(pending, c) => Contains(pending', c)
  <2>1. CASE pending' = Append(pending, b)
    <3>1. /\ Append(pending, b) \in Seq(Blocks) /\ Len(Append(pending, b)) = Len(pending) + 1
          /\ Len(pending) \in Nat
          /\ \A i \in 1 .. Len(pending) : Append(pending, b)[i] = pending[i]
          /\ Append(pending, b)[Len(pending) + 1] = b
      BY <1>2, <1>4, AppendProperties, LenProperties
    <3>2. \A i \in 1 .. Len(pending) : i \in 1 .. Len(pending) + 1
      BY <3>1
    <3>3. Len(pending) + 1 \in 1 .. Len(pending) + 1
      BY <3>1
    <3>4. QED
      BY <2>1, <3>1, <3>2, <3>3 DEF Contains
  <2>2. CASE same > 0 /\ pending' = pending
    BY <1>2, <1>5, <2>2
  <2>3. QED
    BY <1>1, <2>1, <2>2
<1>7. ASSUME NEW c
      PROVE  UnderWay(lower, pending, c) => UnderWay(to, pending', c)
  <2>1. CASE Contains(lower.RQ, c)
    <3>1. PICK i \in 1 .. Len(lower.RQ) : lower.RQ[i] = c
      BY <2>1 DEF Contains
    <3>2. CASE i = 1
      BY <1>4, <1>6, <3>1, <3>2 DEF UnderWay
    <3>3. CASE i # 1
      <4>1. i - 1 \in 1 .. Len(lower.RQ) - 1 /\ (i - 1) + 1 = i
        BY <1>4, <3>3
      <4>2. to.RQ[i - 1] = c
        BY <1>4, <3>1, <4>1
      <4>3. QED
        BY <1>4, <4>1, <4>2 DEF UnderWay, Contains
    <3>4. QED
      BY <3>2, <3>3
  <2>2. QED
    BY <1>3, <1>6, <2>1 DEF UnderWay
<1>8. Outstanding(MSHR, lower, pending)'
  BY <1>1, <1>2, <1>7, OutstandingOn
<1>9. TypeInv'
  <2>1. to \in LowerChannel
    <3>1. Len(to.RQ) <= LowerSize
      BY <1>2, <1>4, PTWAssumption
    <3>2. QED
      BY <1>3, <3>1 DEF LowerChannel
  <2>2. QED
    BY <1>1, <1>2, <1>6, <2>1 DEF TypeInv
<1>10. OwedInv'
  BY <1>1, <1>2 DEF OwedInv, Owed
<1>11. QED
  BY <1>8, <1>9, <1>10 DEF WalkInv

\* Respond
LEMMA RespondKeeps ==
  ASSUME WalkInv, NEW i \in DOMAIN pending, Respond(i)
  PROVE  WalkInv'
<1> DEFINE b == pending[i]
           to == Push(lower, "returned", b)
           rest == RemoveAt(pending, i)
<1>1. /\ lower' = to /\ pending' = rest
      /\ UNCHANGED <<MSHR, finished, completed, pscl, vmem, upper, fill_bw, wait>>
  BY DEF Respond, walkVars
<1>2. /\ TypeInv /\ lower \in ChannelOf(Blocks, Blocks) /\ Len(lower.RQ) <= LowerSize
      /\ pending \in Seq(Blocks) /\ OwedInv /\ Outstanding(MSHR, lower, pending)
  BY DEF WalkInv, TypeInv, LowerChannel
<1>3. i \in 1 .. Len(pending) /\ b \in Blocks /\ Len(pending) \in Nat
  BY <1>2, LenProperties
<1>4. /\ rest \in Seq(Blocks) /\ Len(rest) = Len(pending) - 1
      /\ \A k \in 1 .. Len(pending) - 1 : rest[k] = IF k < i THEN pending[k] ELSE pending[k + 1]
  BY <1>2, <1>3, Removed
<1> HIDE DEF b
<1>5. /\ to \in ChannelOf(Blocks, Blocks) /\ to.RQ = lower.RQ
      /\ to.returned = Append(lower.returned, b) /\ lower.returned \in Seq(Blocks)
  <2>1. /\ to \in ChannelOf(Blocks, Blocks) /\ \A p \in RequestQueues : to[p] = lower[p]
        /\ to.returned = Append(lower.returned, b) /\ lower.returned \in Seq(Blocks)
    <3> DEFINE c == lower
    <3> HIDE DEF c
    <3>1. c \in ChannelOf(Blocks, Blocks)
      BY <1>2 DEF c
    <3>2. /\ Push(c, "returned", b) \in ChannelOf(Blocks, Blocks)
          /\ \A p \in RequestQueues : Push(c, "returned", b)[p] = c[p]
          /\ Push(c, "returned", b).returned = Append(c.returned, b)
          /\ c.returned \in Seq(Blocks)
      BY <1>3, <3>1, Answered
    <3>3. QED
      BY <3>2 DEF c
  <2> HIDE DEF to
  <2>2. to["RQ"] = lower["RQ"]
    BY <2>1 DEF RequestQueues
  <2>3. QED
    BY <2>1, <2>2
<1> HIDE DEF to, rest
<1>6. /\ Len(to.returned) = Len(lower.returned) + 1 /\ Len(lower.returned) \in Nat
      /\ \A k \in 1 .. Len(lower.returned) : to.returned[k] = lower.returned[k]
      /\ to.returned[Len(lower.returned) + 1] = b
  BY <1>3, <1>5, AppendProperties, LenProperties
<1>7. Contains(to.returned, b) /\ \A c : Contains(lower.returned, c) => Contains(to.returned, c)
  <2>1. /\ \A k \in 1 .. Len(lower.returned) : k \in 1 .. Len(lower.returned) + 1
        /\ Len(lower.returned) + 1 \in 1 .. Len(lower.returned) + 1
    BY <1>6
  <2>2. QED
    BY <1>6, <2>1 DEF Contains
<1>8. ASSUME NEW c
      PROVE  UnderWay(lower, pending, c) => UnderWay(to, rest, c)
  <2>1. CASE Contains(pending, c)
    <3>1. PICK k \in 1 .. Len(pending) : pending[k] = c
      BY <2>1 DEF Contains
    <3>2. CASE k = i
      BY <1>7, <3>1, <3>2 DEF UnderWay, b
    <3>3. CASE k < i
      <4>1. k \in 1 .. Len(pending) - 1 /\ rest[k] = c
        BY <1>3, <1>4, <3>1, <3>3
      <4>2. QED
        BY <1>4, <4>1 DEF UnderWay, Contains
    <3>4. CASE k > i
      <4>1. k - 1 \in 1 .. Len(pending) - 1 /\ ~(k - 1 < i) /\ (k - 1) + 1 = k
        BY <1>3, <3>4
      <4>2. rest[k - 1] = c
        BY <1>4, <3>1, <4>1
      <4>3. QED
        BY <1>4, <4>1, <4>2 DEF UnderWay, Contains
    <3>5. QED
      BY <1>3, <3>2, <3>3, <3>4
  <2>2. QED
    BY <1>5, <1>7, <2>1 DEF UnderWay
<1>9. Outstanding(MSHR, lower, pending)'
  BY <1>1, <1>2, <1>8, OutstandingOn
<1>10. TypeInv'
  <2>1. to \in LowerChannel
    BY <1>2, <1>5 DEF LowerChannel
  <2>2. QED
    BY <1>1, <1>2, <1>4, <2>1 DEF TypeInv
<1>11. OwedInv'
  BY <1>1, <1>2 DEF OwedInv, Owed
<1>12. QED
  BY <1>9, <1>10, <1>11 DEF WalkInv

\* Complete
LEMMA CompleteKeeps == WalkInv /\ Complete => WalkInv'
<1> SUFFICES ASSUME WalkInv, Complete PROVE WalkInv'
  OBVIOUS
<1> DEFINE n == ReadySpan(completed, fill_bw)
           first == SubSeq(completed, 1, n)
           rest == SubSeq(completed, n + 1, Len(completed))
           up == FoldLeft(AnswerWalk, upper, first)
<1>1. /\ upper' = up /\ completed' = rest /\ fill_bw' = fill_bw - n
      /\ UNCHANGED <<MSHR, finished, pscl, vmem, lower, pending, wait>>
  BY DEF Complete, externalVars
<1>2. /\ TypeInv /\ OwedInv /\ Outstanding(MSHR, lower, pending)
      /\ upper \in Uppers /\ completed \in Seq(CompletedIn(vmem)) /\ fill_bw \in 0 .. MAX_FILL
      /\ MAX_FILL \in Nat
  BY PTWAssumption DEF WalkInv, TypeInv, Uppers
<1>3. n \in 0 .. Len(completed) /\ n <= fill_bw
  <2>1. fill_bw \in Nat
    BY <1>2
  <2>2. QED
    BY <1>2, <2>1, ReadyBounds
<1> HIDE DEF n
<1>4. /\ first \in Seq(CompletedIn(vmem)) /\ rest \in Seq(CompletedIn(vmem))
      /\ \A D : Count(completed, D) = Count(first, D) + Count(rest, D)
  BY <1>2, <1>3, CountSplit
<1> HIDE DEF first, rest
<1>5. up \in AnswersTo(upper, first)
  BY <1>2, <1>4, AnswersKeep
<1> HIDE DEF up
<1>6. /\ up \in Uppers
      /\ \A u \in Upper :
           /\ up[u].RQ = upper[u].RQ
           /\ \A vpage \in WalkPages :
                 Count(up[u].returned, AnswersFor(vpage)) =
                    Count(upper[u].returned, AnswersFor(vpage)) + Count(first, WalksFor(u, vpage))
  BY <1>5 DEF AnswersTo
<1>7. TypeInv'
  <2>1. fill_bw' \in 0 .. MAX_FILL
    <3>1. Len(completed) \in Nat
      BY <1>2, LenProperties
    <3>2. QED
      BY <1>1, <1>2, <1>3, <3>1
  <2>2. QED
    BY <1>1, <1>2, <1>4, <1>6, <2>1 DEF TypeInv, Uppers
<1>8. OwedInv'
  <2>1. ASSUME NEW u \in Upper, NEW vpage \in WalkPages
        PROVE  Owed(u, vpage)' = Owed(u, vpage)
    <3> DEFINE D == WalksFor(u, vpage)
               m == Count(MSHR, D)
               f == Count(finished, D)
               a == Count(first, D)
               z == Count(rest, D)
               r == Count(upper[u].returned, AnswersFor(vpage))
               q == Count(upper[u].RQ, {vpage})
    <3>1. Count(completed, D) = a + z /\ Count(up[u].returned, AnswersFor(vpage)) = r + a
          /\ Count(up[u].RQ, {vpage}) = q
      BY <1>4, <1>6
    <3>2. m \in Nat /\ f \in Nat /\ r \in Nat /\ q \in Nat
      BY <1>2, OwedCounts
    <3>3. a \in Nat /\ z \in Nat
      BY <1>4, CountType
    <3>4. Owed(u, vpage) = m + f + (a + z) + q + r
      BY <3>1 DEF Owed
    <3>5. Owed(u, vpage)' = m + f + z + q + (r + a)
      BY <1>1, <3>1 DEF Owed
    <3> HIDE DEF m, f, a, z, r, q, D
    <3>6. QED
      BY <3>2, <3>3, <3>4, <3>5
  <2>2. QED
    BY <1>1, <1>2, <2>1 DEF OwedInv
<1>9. QED
  BY <1>1, <1>2, <1>7, <1>8 DEF WalkInv

\* The order of the upper levels: SetToSeq chooses one.
LEMMA UpperOrder == SetToSeq(Upper) \in Seq(Upper)
<1> DEFINE n == Cardinality(Upper)
<1>1. n \in Nat /\ ExistsBijection(1 .. n, Upper)
  BY PTWAssumption, FS_CardinalityType
<1>2. PICK f : f \in [1 .. n -> Upper] /\ \A i, j \in 1 .. n : f[i] = f[j] => i = j
  BY <1>1 DEF ExistsBijection, Bijection, Injection, IsInjective
<1>3. SetToSeq(Upper) \in [1 .. n -> Upper]
  <2>1. \E g \in [1 .. n -> Upper] : IsInjective(g)
    BY <1>2 DEF IsInjective
  <2>2. QED
    BY <2>1 DEF SetToSeq
<1>4. QED
  BY <1>1, <1>3, FunctionIsSequence

\* Read
LEMMA ReadsKeep == WalkInv /\ Read => WalkInv'
<1> SUFFICES ASSUME WalkInv, Read PROVE WalkInv'
  OBVIOUS
<1> DEFINE x == [lower |-> lower, MSHR |-> MSHR, pscl |-> pscl, upper |-> upper,
                 bw |-> MAX_READ, stop |-> FALSE]
           end == FoldLeft(ReadUpper, x, SetToSeq(Upper))
<1>1. /\ lower' = end.lower /\ MSHR' = end.MSHR /\ pscl' = end.pscl /\ upper' = end.upper
      /\ fill_bw' = 0
      /\ UNCHANGED <<finished, completed, vmem, pending, wait>>
  BY DEF Read, externalVars
<1>2. TypeInv /\ OwedInv /\ Outstanding(MSHR, lower, pending)
  BY DEF WalkInv
<1>3. x \in Reading
  <2>1. MAX_READ \in Nat
    BY PTWAssumption
  <2>2. QED
    BY <1>2, <2>1 DEF TypeInv, Reading
<1>4. /\ x.MSHR = MSHR /\ x.upper = upper
      /\ vmem \in Memory /\ CR3Key \in DOMAIN vmem.page_table
  BY <1>2 DEF TypeInv
<1> HIDE DEF x
<1>5. end \in ReadFrom(x)
  BY <1>3, <1>4, UpperOrder, ReadKeeps
<1> HIDE DEF end
<1>6. /\ end.lower \in LowerChannel /\ end.MSHR \in Seq(WalkingIn(vmem))
      /\ end.pscl \in [PsclLevels -> PsclIn(vmem)]
      /\ end.upper \in [Upper -> ChannelOf(WalkPages, AnswersIn(vmem))]
      /\ Outstanding(end.MSHR, end.lower, pending)
  BY <1>5 DEF ReadFrom, Reading
<1>7. TypeInv'
  <2>1. 0 \in 0 .. MAX_FILL
    BY PTWAssumption
  <2>2. QED
    BY <1>1, <1>2, <1>6, <2>1 DEF TypeInv
<1>8. OwedInv'
  <2>1. ASSUME NEW u \in Upper, NEW vpage \in WalkPages
        PROVE  Owed(u, vpage)' = Owed(u, vpage)
    <3> DEFINE D == WalksFor(u, vpage)
               m == Count(MSHR, D)
               q == Count(upper[u].RQ, {vpage})
               f == Count(finished, D)
               d == Count(completed, D)
               r == Count(upper[u].returned, AnswersFor(vpage))
               m1 == Count(end.MSHR, D)
               q1 == Count(end.upper[u].RQ, {vpage})
    <3>1. Wanted(end, u, vpage) = Wanted(x, u, vpage) /\ end.upper[u].returned = x.upper[u].returned
      BY <1>5 DEF ReadFrom
    <3>2. m1 + q1 = m + q
      BY <1>4, <3>1 DEF Wanted
    <3>3. m \in Nat /\ q \in Nat /\ f \in Nat /\ d \in Nat /\ r \in Nat
      BY <1>2, OwedCounts
    <3>4. m1 \in Nat /\ q1 \in Nat
      <4>1. end.upper[u].RQ \in Seq(WalkPages)
        BY <1>6 DEF ChannelOf
      <4>2. QED
        BY <1>6, <4>1, CountType
    <3>5. Owed(u, vpage) = m + f + d + q + r
      BY DEF Owed
    <3>6. Owed(u, vpage)' = m1 + f + d + q1 + r
      BY <1>1, <1>4, <3>1 DEF Owed
    <3> HIDE DEF m, q, f, d, r, m1, q1, D
    <3>7. QED
      BY <3>2, <3>3, <3>4, <3>5, <3>6
  <2>2. QED
    BY <1>1, <1>2, <2>1 DEF OwedInv
<1>9. QED
  BY <1>1, <1>6, <1>7, <1>8 DEF WalkInv

\* The pscl of its level learns the page of a finished step.
LEMMA FilledPscl ==
  ASSUME NEW tables \in [PsclLevels -> PsclIn(vmem)], NEW m \in FinishedIn(vmem)
  PROVE  [tables EXCEPT ![m.level] = fill(@, PSCL_WAY, [tag |-> PsclTag(m.vpage, m.level),
                                                        page |-> m.address.page])]
            \in [PsclLevels -> PsclIn(vmem)]
<1> DEFINE e == [tag |-> PsclTag(m.vpage, m.level), page |-> m.address.page]
           t == tables[m.level]
           r == fill(t, PSCL_WAY, e)
<1>1. m \in WalkStep /\ m.level \in PsclLevels /\ OnPath(vmem, m, m.level)
  BY DEF FinishedIn
<1>2. m.level # 0
  BY <1>1 DEF PsclLevels
<1>3. PteKey(cpu, m.vpage, m.level) \in Keys /\ m.address.page \in TablePage
  BY <1>1, <1>2, StepKeys DEF WalkStep
<1>4. e \in EntriesIn(vmem)
  BY <1>1, <1>3 DEF EntriesIn, Entry, OnPath, PsclTag
<1>5. t \in Seq(EntriesIn(vmem)) /\ Len(t) <= PSCL_WAY /\ OncePerTag(t) /\ PSCL_WAY \in Nat
  BY <1>1, PTWAssumption DEF PsclIn
<1> HIDE DEF e, t
<1>6. r \in PsclIn(vmem)
  BY <1>4, <1>5, FilledTable DEF PsclIn
<1> HIDE DEF r
<1>7. [tables EXCEPT ![m.level] = r] \in [PsclLevels -> PsclIn(vmem)]
  BY <1>6
<1>8. QED
  BY <1>7 DEF r, e, t

\* The step below a finished one.
LEMMA StepBelow ==
  ASSUME NEW m \in FinishedIn(vmem)
  PROVE  LET t == [m EXCEPT !.level = @ - 1]
         IN  /\ t \in WalkingIn(vmem) /\ t \in WalkStep
             /\ \A u, vpage : t \in WalksFor(u, vpage) <=> m \in WalksFor(u, vpage)
<1> DEFINE l == m.level - 1
           t == [m EXCEPT !.level = l]
<1>1. m \in WalkStep /\ m.level \in PsclLevels /\ OnPath(vmem, m, m.level)
  BY DEF FinishedIn
<1>2. pt_levels \in Nat
  BY VirtualMemoryAssumption
<1>3. l \in 0 .. pt_levels - 1 /\ l + 1 = m.level /\ m.level \in Level
  BY <1>1, <1>2 DEF PsclLevels, Level
<1>4. [m EXCEPT !.level = @ - 1] = t
  OBVIOUS
<1> HIDE DEF l
<1>5. /\ t \in WalkStep /\ t.vpage = m.vpage /\ t.to_return = m.to_return
      /\ t.address = m.address /\ t.level = l
  BY <1>1, <1>3 DEF WalkStep
<1> HIDE DEF t
<1>6. t.level + 1 \in PsclLevels /\ OnPath(vmem, t, t.level + 1)
  BY <1>1, <1>3, <1>5 DEF OnPath
<1>7. t \in WalkingIn(vmem)
  BY <1>5, <1>6 DEF WalkingIn
<1>8. QED
  BY <1>1, <1>4, <1>5, <1>7 DEF WalksFor

\* HandleFill
LEMMA HandleFillKeeps == WalkInv /\ HandleFill => WalkInv'
<1> SUFFICES ASSUME WalkInv, HandleFill PROVE WalkInv'
  OBVIOUS
<1> DEFINE m == Head(finished)
           t == [m EXCEPT !.level = @ - 1]
           low == Push(lower, "RQ", Block(t.address))
           mshr == Append(MSHR, t)
<1>1. /\ fill_bw > 0 /\ ReadySpan(finished, 1) = 1
      /\ pscl' = [pscl EXCEPT ![m.level] = fill(@, PSCL_WAY, [tag |-> PsclTag(m.vpage, m.level),
                                                              page |-> m.address.page])]
      /\ \/ /\ CanStep(lower) /\ lower' = low /\ MSHR' = mshr
            /\ finished' = Tail(finished) /\ fill_bw' = fill_bw - 1
         \/ UNCHANGED <<lower, MSHR, finished, fill_bw>>
      /\ UNCHANGED <<completed, vmem, upper, pending, wait>>
  BY DEF HandleFill, Step, externalVars
<1>2. /\ TypeInv /\ OwedInv /\ Outstanding(MSHR, lower, pending)
      /\ finished \in Seq(FinishedIn(vmem)) /\ MSHR \in Seq(WalkingIn(vmem))
      /\ lower \in ChannelOf(Blocks, Blocks) /\ Len(lower.RQ) <= LowerSize
      /\ fill_bw \in 0 .. MAX_FILL /\ MAX_FILL \in Nat /\ LowerSize \in Nat
      /\ pscl \in [PsclLevels -> PsclIn(vmem)]
  BY PTWAssumption DEF WalkInv, TypeInv, LowerChannel
<1>3. finished # << >>
  <2>1. 1 \in 0 .. Len(finished)
    BY <1>1, <1>2, ReadyBounds
  <2>2. QED
    BY <2>1, <1>2, LenProperties
<1>4. /\ m \in FinishedIn(vmem) /\ Tail(finished) \in Seq(FinishedIn(vmem))
      /\ \A D : Count(finished, D) = One(m \in D) + Count(Tail(finished), D)
  BY <1>2, <1>3, CountTail
<1> HIDE DEF m
<1>5. pscl' \in [PsclLevels -> PsclIn(vmem)]
  BY <1>1, <1>2, <1>4, FilledPscl
<1>6. CASE UNCHANGED <<lower, MSHR, finished, fill_bw>>
  <2>1. TypeInv'
    BY <1>1, <1>2, <1>5, <1>6 DEF TypeInv
  <2>2. OwedInv'
    BY <1>1, <1>2, <1>6 DEF OwedInv, Owed
  <2>3. QED
    BY <1>1, <1>2, <1>6, <2>1, <2>2 DEF WalkInv
<1>7. CASE /\ CanStep(lower) /\ lower' = low /\ MSHR' = mshr
           /\ finished' = Tail(finished) /\ fill_bw' = fill_bw - 1
  <2>1. /\ t \in WalkingIn(vmem) /\ t \in WalkStep
        /\ \A u, vpage : t \in WalksFor(u, vpage) <=> m \in WalksFor(u, vpage)
    BY <1>4, StepBelow
  <2> HIDE DEF t
  <2>2. MSHR \in Seq(WalkStep)
    <3>1. WalkingIn(vmem) \subseteq WalkStep
      BY DEF WalkingIn
    <3>2. QED
      BY <3>1, <1>2, SeqWider
  <2>3. Outstanding(mshr, low, pending)
    BY <1>2, <2>1, <2>2, StepOutstanding
  <2>4. low \in LowerChannel
    <3> DEFINE b == Block(t.address)
    <3>1. b \in Blocks
      BY <2>1 DEF Blocks, WalkStep
    <3> HIDE DEF b
    <3>2. /\ Push(lower, "RQ", b) \in ChannelOf(Blocks, Blocks)
          /\ Push(lower, "RQ", b).RQ = Append(lower.RQ, b)
          /\ lower.RQ \in Seq(Blocks)
      BY <1>2, <3>1, ReadPushed
    <3>3. Len(Append(lower.RQ, b)) = Len(lower.RQ) + 1 /\ Len(lower.RQ) \in Nat
      BY <3>1, <3>2, AppendProperties, LenProperties
    <3>4. Len(lower.RQ) + 1 <= LowerSize
      BY <1>2, <1>7, <3>3 DEF CanStep, HasRoom
    <3>5. Push(lower, "RQ", b) \in LowerChannel
      BY <3>2, <3>3, <3>4 DEF LowerChannel
    <3>6. QED
      BY <3>5 DEF b
  <2>5. mshr \in Seq(WalkingIn(vmem)) /\ \A D : Count(mshr, D) = Count(MSHR, D) + One(t \in D)
    BY <1>2, <2>1, AppendProperties, CountAppend
  <2> HIDE DEF mshr, low
  <2>6. TypeInv'
    <3>1. fill_bw' \in 0 .. MAX_FILL
      BY <1>1, <1>2, <1>7
    <3>2. QED
      BY <1>1, <1>2, <1>4, <1>5, <1>7, <2>4, <2>5, <3>1 DEF TypeInv
  <2>7. ASSUME NEW u \in Upper, NEW vpage \in WalkPages
        PROVE  Owed(u, vpage)' = Owed(u, vpage)
    <3> DEFINE D == WalksFor(u, vpage)
               a == Count(MSHR, D)
               o == One(m \in D)
               f == Count(Tail(finished), D)
               d == Count(completed, D)
               q == Count(upper[u].RQ, {vpage})
               r == Count(upper[u].returned, AnswersFor(vpage))
    <3>1. Count(mshr, D) = a + o
      <4>1. One(t \in D) = One(m \in D)
        BY <2>1 DEF One
      <4>2. QED
        BY <2>5, <4>1
    <3>2. Count(finished, D) = o + f
      BY <1>4
    <3>3. a \in Nat /\ d \in Nat /\ q \in Nat /\ r \in Nat
      BY <1>2, OwedCounts
    <3>4. o \in Nat /\ f \in Nat
      BY <1>4, CountType DEF One
    <3>5. Owed(u, vpage) = a + (o + f) + d + q + r
      BY <3>2 DEF Owed
    <3>6. Owed(u, vpage)' = (a + o) + f + d + q + r
      BY <1>1, <1>7, <3>1 DEF Owed
    <3> HIDE DEF a, o, f, d, q, r, D
    <3>7. QED
      BY <3>3, <3>4, <3>5, <3>6
  <2>8. OwedInv'
    BY <1>1, <1>2, <2>7 DEF OwedInv
  <2>9. QED
    BY <1>1, <1>7, <2>3, <2>6, <2>8 DEF WalkInv
<1>8. QED
  BY <1>1, <1>6, <1>7

\* FinishPacket
LEMMA FinishPacketKeeps == WalkInv /\ FinishPacket => WalkInv'
<1> SUFFICES ASSUME WalkInv, FinishPacket PROVE WalkInv'
  OBVIOUS
<1> DEFINE b == Head(lower.returned)
           M == Matching(MSHR, b)
           x == [vm |-> vmem, finished |-> finished, completed |-> completed]
           rest == Kept(MSHR, DOMAIN MSHR \ M)
           to == Pop(lower, "returned")
<1>1. /\ lower.returned # << >> /\ MSHR' = rest /\ lower' = to
      /\ UNCHANGED <<pscl, upper, fill_bw, pending, wait>>
      /\ \E order \in SetToSeqs(M) :
            LET end == FinishAll(x, MSHR, order)
            IN  vmem' = end.vm /\ finished' = end.finished /\ completed' = end.completed
  BY DEF FinishPacket, externalVars
<1>2. /\ TypeInv /\ OwedInv /\ Outstanding(MSHR, lower, pending)
      /\ MSHR \in Seq(WalkingIn(vmem)) /\ lower \in ChannelOf(Blocks, Blocks)
      /\ Len(lower.RQ) <= LowerSize
  BY DEF WalkInv, TypeInv, LowerChannel
<1>3. DOMAIN MSHR = 1 .. Len(MSHR) /\ Len(MSHR) \in Nat /\ M \in SUBSET (1 .. Len(MSHR))
  BY <1>2, LenProperties DEF Matching
<1>4. PICK order \in SetToSeqs(M) :
         LET end == FinishAll(x, MSHR, order)
         IN  vmem' = end.vm /\ finished' = end.finished /\ completed' = end.completed
  BY <1>1
<1> DEFINE end == FinishAll(x, MSHR, order)
           taken == Taken(MSHR, order)
<1>5. MSHR \in Seq(WalkStep)
  <2>1. WalkingIn(vmem) \subseteq WalkStep
    BY DEF WalkingIn
  <2>2. QED
    BY <2>1, <1>2, SeqWider
<1>6. order \in Seq(1 .. Len(MSHR))
  BY <1>2, <1>3, TakenCount
<1>7. x \in Finishing(vmem) /\ x.finished = finished /\ x.completed = completed
  <2>1. /\ vmem \in Memory /\ Good(vmem)
        /\ finished \in Seq(FinishedIn(vmem)) /\ completed \in Seq(CompletedIn(vmem))
    BY <1>2 DEF TypeInv
  <2>2. finished \in Seq(WalkStep) /\ completed \in Seq(WalkStep)
    <3>1. FinishedIn(vmem) \subseteq WalkStep /\ CompletedIn(vmem) \subseteq WalkStep
      BY DEF FinishedIn, CompletedIn
    <3>2. QED
      BY <2>1, <3>1, SeqWider
  <2>3. Grows(vmem, vmem)
    BY GrowsItself
  <2>4. QED
    BY <2>1, <2>2, <2>3 DEF Finishing
<1> HIDE DEF x, M
<1>8. /\ end \in Finishing(vmem)
      /\ \A u \in Upper, vpage \in WalkPages :
            Done(end, u, vpage) = Done(x, u, vpage) + Count(taken, WalksFor(u, vpage))
  BY <1>5, <1>6, <1>7, FinishAllResult
<1>9. \A D : /\ Count(MSHR, D) = Count(taken, D) + Count(rest, D)
             /\ Count(taken, D) = Cardinality(Places(MSHR, D) \cap M)
  BY <1>2, <1>3, TakenAndKept, TakenCount
<1>10. vmem' = end.vm /\ finished' = end.finished /\ completed' = end.completed
  BY <1>4
<1> HIDE DEF end, taken
<1>11. /\ vmem' \in Memory /\ Good(vmem') /\ Grows(vmem, vmem')
       /\ finished' \in Seq(FinishedIn(vmem')) /\ completed' \in Seq(CompletedIn(vmem'))
  BY <1>8, <1>10 DEF Finishing
<1>12. /\ to \in ChannelOf(Blocks, Blocks) /\ to.RQ = lower.RQ
       /\ to.returned = Tail(lower.returned) /\ lower.returned \in Seq(Blocks)
  <2> DEFINE c == lower
  <2> HIDE DEF c
  <2>1. c \in ChannelOf(Blocks, Blocks) /\ c.returned # << >>
    BY <1>1, <1>2 DEF c
  <2>2. /\ Pop(c, "returned") \in ChannelOf(Blocks, Blocks)
        /\ \A p \in RequestQueues : Pop(c, "returned")[p] = c[p]
        /\ Pop(c, "returned").returned = Tail(c.returned) /\ c.returned \in Seq(Blocks)
    BY <2>1, AnswerRead
  <2>3. Pop(c, "returned")["RQ"] = c["RQ"]
    BY <2>2 DEF RequestQueues
  <2>4. QED
    BY <2>2, <2>3 DEF c
<1>13. /\ Len(to.returned) = Len(lower.returned) - 1 /\ Len(lower.returned) \in Nat \ {0}
       /\ b = lower.returned[1]
       /\ \A i \in 1 .. Len(lower.returned) - 1 : to.returned[i] = lower.returned[i + 1]
  BY <1>1, <1>12, CountTail
<1> HIDE DEF to, b
\* The steps that are kept do not read the block that came.
<1>14. rest \in Seq({MSHR[j] : j \in DOMAIN MSHR \ M})
  <2> DEFINE I == DOMAIN MSHR \ M
  <2>1. I \in SUBSET (1 .. Len(MSHR))
    BY <1>3
  <2> HIDE DEF I
  <2>2. Kept(MSHR, I) \in Seq({MSHR[j] : j \in I})
    BY <1>2, <2>1, KeptResult
  <2>3. QED
    BY <2>2 DEF I
<1>15. rest \in Seq(WalkingIn(vmem'))
  <2>1. {MSHR[j] : j \in DOMAIN MSHR \ M} \subseteq WalkingIn(vmem')
    <3>1. \A j \in DOMAIN MSHR \ M : MSHR[j] \in WalkingIn(vmem)
      BY <1>2, <1>3
    <3>2. WalkingIn(vmem) \subseteq WalkingIn(vmem')
      BY <1>11, GrowsWider
    <3>3. QED
      BY <3>1, <3>2
  <2> HIDE DEF rest
  <2>2. QED
    BY <1>14, <2>1, SeqWider
<1>16. Outstanding(rest, to, pending)
  <2> SUFFICES ASSUME NEW i \in 1 .. Len(rest)
               PROVE  UnderWay(to, pending, Block(rest[i].address))
    BY DEF Outstanding
  <2> HIDE DEF rest
  <2>1. rest[i] \in {MSHR[j] : j \in DOMAIN MSHR \ M}
    BY <1>14, LenProperties
  <2>2. PICK j \in DOMAIN MSHR \ M : rest[i] = MSHR[j]
    BY <2>1
  <2> DEFINE c == Block(MSHR[j].address)
  <2>3. c # b /\ j \in 1 .. Len(MSHR)
    BY <1>3, <2>2 DEF Matching, M
  <2>4. UnderWay(lower, pending, c)
    BY <1>2, <2>3 DEF Outstanding
  <2> HIDE DEF c
  <2>5. Contains(lower.returned, c) => Contains(to.returned, c)
    <3> SUFFICES ASSUME NEW k \in 1 .. Len(lower.returned), lower.returned[k] = c
                 PROVE  Contains(to.returned, c)
      BY DEF Contains
    <3>1. k # 1
      BY <1>13, <2>3
    <3>2. k - 1 \in 1 .. Len(lower.returned) - 1 /\ (k - 1) + 1 = k
      BY <1>13, <3>1
    <3>3. to.returned[k - 1] = c
      BY <1>13, <3>2
    <3>4. QED
      BY <1>13, <3>2, <3>3 DEF Contains
  <2>6. UnderWay(to, pending, c)
    BY <1>12, <2>4, <2>5 DEF UnderWay
  <2>7. QED
    BY <2>2, <2>6 DEF c
<1> HIDE DEF rest
<1>17. TypeInv'
  <2>1. to \in LowerChannel
    BY <1>2, <1>12 DEF LowerChannel
  <2>2. CR3Key \in DOMAIN vmem'.page_table
    BY <1>2, <1>11 DEF TypeInv, Grows, Keeps
  <2>3. pscl' \in [PsclLevels -> PsclIn(vmem')]
    <3>1. PsclIn(vmem) \subseteq PsclIn(vmem')
      <4>1. EntriesIn(vmem) \subseteq EntriesIn(vmem')
        BY <1>11, GrowsWider
      <4>2. \A table \in Seq(EntriesIn(vmem)) : table \in Seq(EntriesIn(vmem'))
        BY <4>1, SeqWider
      <4>3. QED
        BY <4>2 DEF PsclIn
    <3>2. pscl \in [PsclLevels -> PsclIn(vmem)]
      BY <1>2 DEF TypeInv
    <3>3. QED
      BY <1>1, <3>1, <3>2
  <2>4. upper' \in [Upper -> ChannelOf(WalkPages, AnswersIn(vmem'))]
    <3>1. AnswersIn(vmem) \subseteq AnswersIn(vmem')
      BY <1>11, GrowsWider
    <3>2. \A s \in Seq(AnswersIn(vmem)) : s \in Seq(AnswersIn(vmem'))
      BY <3>1, SeqWider
    <3>3. ChannelOf(WalkPages, AnswersIn(vmem)) \subseteq ChannelOf(WalkPages, AnswersIn(vmem'))
      BY <3>2 DEF ChannelOf
    <3>4. upper \in [Upper -> ChannelOf(WalkPages, AnswersIn(vmem))]
      BY <1>2 DEF TypeInv
    <3>5. QED
      BY <1>1, <3>3, <3>4
  <2>5. QED
    BY <1>1, <1>2, <1>11, <1>15, <2>1, <2>2, <2>3, <2>4 DEF TypeInv
<1>18. ASSUME NEW u \in Upper, NEW vpage \in WalkPages
       PROVE  Owed(u, vpage)' = Owed(u, vpage)
  <2> DEFINE D == WalksFor(u, vpage)
             m == Count(MSHR, D)
             f == Count(finished, D)
             d == Count(completed, D)
             q == Count(upper[u].RQ, {vpage})
             r == Count(upper[u].returned, AnswersFor(vpage))
             m1 == Count(rest, D)
             f1 == Count(end.finished, D)
             d1 == Count(end.completed, D)
             k == Count(taken, D)
  <2>1. f1 + d1 = f + d + k
    BY <1>7, <1>8 DEF Done
  <2>2. m = k + m1
    BY <1>9
  <2>3. m \in Nat /\ f \in Nat /\ d \in Nat /\ q \in Nat /\ r \in Nat
    BY <1>2, OwedCounts
  <2>4. f1 \in Nat /\ d1 \in Nat /\ m1 \in Nat
    BY <1>8, <1>15, CountType DEF Finishing
  <2>5. k \in Nat
    <3>1. IsFiniteSet(Places(MSHR, D))
      BY <1>2, CountType
    <3>2. IsFiniteSet(Places(MSHR, D) \cap M)
      BY <3>1, FS_Intersection
    <3>3. Cardinality(Places(MSHR, D) \cap M) \in Nat
      BY <3>2, FS_CardinalityType
    <3>4. QED
      BY <1>9, <3>3
  <2>6. Owed(u, vpage) = m + f + d + q + r
    BY DEF Owed
  <2>7. Owed(u, vpage)' = m1 + f1 + d1 + q + r
    BY <1>1, <1>10 DEF Owed
  <2> HIDE DEF m, f, d, q, r, m1, f1, d1, k, D
  <2>8. QED
    BY <2>1, <2>2, <2>3, <2>4, <2>5, <2>6, <2>7
<1>19. OwedInv'
  BY <1>1, <1>2, <1>18 DEF OwedInv
<1>20. QED
  BY <1>1, <1>16, <1>17, <1>19 DEF WalkInv

\* The constructor.
LEMMA PTWInitKeeps == PTWInit => WalkInv
<1> SUFFICES ASSUME PTWInit PROVE WalkInv
  OBVIOUS
<1> DEFINE v == CHOOSE v \in VPage : TRUE
           vm == VirtualMemoryInit
<1>1. /\ MSHR = << >> /\ finished = << >> /\ completed = << >>
      /\ pscl = [level \in PsclLevels |-> << >>]
      /\ vmem = get_pte_pa(vm, cpu, v, pt_levels)
      /\ upper = [u \in Upper |-> EmptyChannel] /\ lower = EmptyChannel /\ pending = << >>
      /\ fill_bw = 0 /\ wait = [u \in Upper |-> {}]
  BY DEF PTWInit
<1>2. vm \in Memory
  <2>1. PtePages \in Nat \ {0} /\ Frame # {}
    BY VirtualMemoryAssumption
  <2>2. << >> \in [{} -> Frame] /\ << >> \in [{} -> TablePage]
    OBVIOUS
  <2>3. << >> \in Partial(Pages, Frame) /\ << >> \in Partial(Keys, TablePage)
    BY <2>2 DEF Partial
  <2>4. QED
    BY <2>1, <2>3 DEF Memory, VirtualMemoryInit
<1>3. PteKey(cpu, v, pt_levels) = CR3Key /\ CR3Key \in Keys
  BY RootKey DEF Keys
<1> HIDE DEF v, vm
<1>4. vmem \in Memory /\ CR3Key \in DOMAIN vmem.page_table
  BY <1>1, <1>2, <1>3, GetPtePaMemory
<1>5. Good(vmem)
  BY <1>1, VMInitGood, GetPtePaGood DEF vm
<1>6. /\ \A S : << >> \in Seq(S)
      /\ \A S, R : EmptyChannel \in ChannelOf(S, R)
      /\ EmptyChannel.RQ = << >> /\ EmptyChannel.returned = << >>
  BY DEF EmptyChannel, ChannelOf
<1>7. TypeInv
  <2>1. PSCL_WAY \in Nat /\ MAX_FILL \in Nat /\ LowerSize \in Nat
    BY PTWAssumption
  <2>2. << >> \in PsclIn(vmem)
    <3>1. Len(<< >>) = 0
      OBVIOUS
    <3>2. QED
      BY <1>6, <2>1, <3>1 DEF PsclIn, OncePerTag
  <2>3. EmptyChannel \in LowerChannel
    BY <1>6, <2>1 DEF LowerChannel
  <2>4. QED
    BY <1>1, <1>4, <1>5, <1>6, <2>1, <2>2, <2>3 DEF TypeInv
<1>8. Outstanding(MSHR, lower, pending)
  BY <1>1 DEF Outstanding
<1>9. OwedInv
  <2> SUFFICES ASSUME NEW u \in Upper, NEW vpage \in WalkPages
               PROVE  Owed(u, vpage) = One(vpage \in wait[u])
    BY DEF OwedInv
  <2>1. One(vpage \in wait[u]) = 0
    BY <1>1 DEF One
  <2>2. upper[u].RQ = << >> /\ upper[u].returned = << >>
    BY <1>1, <1>6
  <2>3. Owed(u, vpage) = 0
    BY <1>1, <2>2, CountEmpty DEF Owed
  <2>4. QED
    BY <2>1, <2>3
<1>10. QED
  BY <1>7, <1>8, <1>9 DEF WalkInv

\* Every step of the walker and of its neighbours.
LEMMA WalkStepKeeps == WalkInv /\ [PTWNext]_ptwVars => WalkInv'
<1> SUFFICES ASSUME WalkInv, [PTWNext]_ptwVars PROVE WalkInv'
  OBVIOUS
<1>1. CASE PTWOperate
  BY <1>1, StartCycleKeeps, FinishPacketKeeps, NoReturnsKeeps, CompleteKeeps, HandleFillKeeps,
     NoFillKeeps, ReadsKeep DEF PTWOperate
<1>2. ASSUME NEW u \in Upper, TakeAnswer(u)
      PROVE  WalkInv'
  BY <1>2, TakeAnswerKeeps
<1>3. ASSUME NEW u \in Upper, NEW vpage \in WalkPages, Request(u, vpage)
      PROVE  WalkInv'
  BY <1>3, RequestKeeps
<1>4. CASE Accept
  BY <1>4, AcceptKeeps
<1>5. ASSUME NEW i \in DOMAIN pending, Respond(i)
      PROVE  WalkInv'
  BY <1>5, RespondKeeps
<1>6. CASE UNCHANGED ptwVars
  BY <1>6, NoFillKeeps
<1>7. QED
  BY <1>1, <1>2, <1>3, <1>4, <1>5, <1>6 DEF PTWNext

\* The steps in the queues.
LEMMA StepsTyped ==
  ASSUME TypeInv
  PROVE  /\ MSHR \in Seq(WalkStep) /\ finished \in Seq(WalkStep) /\ completed \in Seq(WalkStep)
         /\ \A i \in DOMAIN MSHR : MSHR[i] \in WalkingIn(vmem)
         /\ \A i \in DOMAIN finished : finished[i] \in FinishedIn(vmem)
         /\ DOMAIN MSHR = 1 .. Len(MSHR)
<1>1. /\ MSHR \in Seq(WalkingIn(vmem)) /\ finished \in Seq(FinishedIn(vmem))
      /\ completed \in Seq(CompletedIn(vmem))
  BY DEF TypeInv
<1>2. WalkingIn(vmem) \subseteq WalkStep /\ FinishedIn(vmem) \subseteq WalkStep
      /\ CompletedIn(vmem) \subseteq WalkStep
  BY DEF WalkingIn, FinishedIn, CompletedIn
<1>3. MSHR \in Seq(WalkStep) /\ finished \in Seq(WalkStep) /\ completed \in Seq(WalkStep)
  BY <1>1, <1>2, SeqWider
<1>4. /\ DOMAIN MSHR = 1 .. Len(MSHR) /\ DOMAIN finished = 1 .. Len(finished)
      /\ \A i \in 1 .. Len(MSHR) : MSHR[i] \in WalkingIn(vmem)
      /\ \A i \in 1 .. Len(finished) : finished[i] \in FinishedIn(vmem)
  BY <1>1, LenProperties
<1>5. QED
  BY <1>3, <1>4

\* The types of the properties.
LEMMA WalkTypes == WalkInv => PTWTypeOK
<1> SUFFICES ASSUME WalkInv PROVE PTWTypeOK
  OBVIOUS
<1>1. TypeInv
  BY DEF WalkInv
<1>2. WalkStep \subseteq StepType
  <2>1. WalkPages \subseteq VPage
    BY PTWAssumption
  <2>2. QED
    BY <2>1 DEF WalkStep, StepType, TablePage
<1>3. ASSUME NEW q \in {MSHR, finished, completed}, NEW i \in DOMAIN q
      PROVE  q[i] \in StepType
  <2>1. q \in Seq(WalkStep)
    BY <1>1, StepsTyped
  <2>2. q[i] \in WalkStep
    BY <2>1, LenProperties
  <2>3. QED
    BY <1>2, <2>2
<1>4. ASSUME NEW level \in PsclLevels
      PROVE  Len(pscl[level]) <= PSCL_WAY /\ Cardinality(Tags(pscl[level])) = Len(pscl[level])
  <2>1. pscl[level] \in PsclIn(vmem)
    BY <1>1 DEF TypeInv
  <2>2. /\ pscl[level] \in Seq(EntriesIn(vmem)) /\ Len(pscl[level]) <= PSCL_WAY
        /\ OncePerTag(pscl[level])
    BY <2>1 DEF PsclIn
  <2>3. QED
    BY <2>2, TagsCounted
<1>5. Len(lower.RQ) <= LowerSize /\ fill_bw \in 0 .. MAX_FILL
  BY <1>1 DEF TypeInv, LowerChannel
<1>6. QED
  BY <1>3, <1>4, <1>5 DEF PTWTypeOK

\* The invariant holds in every state.
LEMMA WalksKeepInvariant == PTWSpec => []WalkInv
<1>1. QED
  BY PTWInitKeeps, WalkStepKeeps, PTL DEF PTWSpec

\* For any number of steps, of channels and of their sizes: a step in MSHR has a
\* read of its block in the queue of the lower level, below it, or in a response
\* that is on its way (finish_packet, handle_fill, handle_read).
THEOREM NoStepIsForgotten == PTWSpec => []StepsOutstanding
<1>1. WalkInv => StepsOutstanding
  <2> SUFFICES ASSUME WalkInv PROVE StepsOutstanding
    OBVIOUS
  <2>1. PTWTypeOK /\ Outstanding(MSHR, lower, pending) /\ DOMAIN MSHR = 1 .. Len(MSHR)
    BY WalkTypes, StepsTyped DEF WalkInv
  <2>2. QED
    BY <2>1 DEF StepsOutstanding, Outstanding, UnderWay
<1>2. QED
  BY <1>1, WalksKeepInvariant, PTL

\* For any depth of the page table and size of its pages, whatever the pscls remember
\* and however the responses are merged: a step reads the page table of its own page,
\* or, in the first read of a walk, the first piece of the frame it is in, and an
\* answer is the frame that page has (finish_step, finish_last_step, handle_read).
THEOREM WalksReadTheirOwnPath == PTWSpec => []WalkStaysOnPath
<1>1. WalkInv => WalkStaysOnPath
  <2> SUFFICES ASSUME WalkInv PROVE WalkStaysOnPath
    OBVIOUS
  <2>1. TypeInv
    BY DEF WalkInv
  <2>2. ASSUME NEW i \in DOMAIN MSHR
        PROVE  ReadsNext(MSHR[i]) \/ ReadsFirst(MSHR[i])
    <3>1. MSHR[i] \in WalkingIn(vmem)
      BY <2>1, StepsTyped
    <3>2. QED
      BY <3>1 DEF WalkingIn, StartsOn, AtPiece, OnPath, ReadsNext, ReadsFirst, InTable
  <2>3. ASSUME NEW i \in DOMAIN finished
        PROVE  InTable(finished[i].address.page, finished[i].vpage, finished[i].level)
    <3>1. finished[i] \in FinishedIn(vmem)
      BY <2>1, StepsTyped
    <3>2. QED
      BY <3>1 DEF FinishedIn, OnPath, InTable
  <2>4. ASSUME NEW u \in Upper, NEW i \in DOMAIN upper[u].returned
        PROVE  HasFrame(vmem, upper[u].returned[i])
    <3>1. upper[u] \in ChannelOf(WalkPages, AnswersIn(vmem))
      BY <2>1 DEF TypeInv
    <3>2. upper[u].returned \in Seq(AnswersIn(vmem))
      BY <3>1 DEF ChannelOf
    <3>3. upper[u].returned[i] \in AnswersIn(vmem)
      BY <3>2, LenProperties
    <3>4. QED
      BY <3>3 DEF AnswersIn
  <2>5. QED
    BY <2>2, <2>3, <2>4 DEF WalkStaysOnPath, HasFrame
<1>2. QED
  BY <1>1, WalksKeepInvariant, PTL

\* Where a page table page has a frame of its own, as in the defaults, nothing is lost
\* of its address, and every step reads an entry of a page table on its path, from a
\* pscl, from CR3 and from the step before (ptw.cc:69, :94).
THEOREM WholePagesAreReadAsWritten ==
  ASSUME PtePages = 1
  PROVE  PTWSpec => []StepsReadTheirTables
<1>1. WalkInv => StepsReadTheirTables
  <2> SUFFICES ASSUME WalkInv, NEW i \in DOMAIN MSHR
               PROVE  \E level \in {MSHR[i].level, MSHR[i].level + 1} :
                         InTable(MSHR[i].address.page, MSHR[i].vpage, level)
    BY DEF StepsReadTheirTables
  <2> DEFINE m == MSHR[i]
  <2>1. TypeInv
    BY DEF WalkInv
  <2>2. m \in WalkingIn(vmem)
    BY <2>1, StepsTyped
  <2>3. vmem.page_table \in Partial(Keys, TablePage)
    BY <2>1 DEF TypeInv, Memory
  <2>4. \A key \in DOMAIN vmem.page_table : vmem.page_table[key] \in TablePage
    BY <2>3 DEF Partial
  <2>5. \A key \in DOMAIN vmem.page_table :
           FirstPiece(vmem.page_table[key]) = vmem.page_table[key]
    BY <2>4, FirstPieceType
  <2> HIDE DEF m
  <2>6. CASE StartsOn(vmem, m)
    BY <2>5, <2>6 DEF StartsOn, AtPiece, InTable, m
  <2>7. CASE OnPath(vmem, m, m.level + 1)
    BY <2>7 DEF OnPath, InTable, m
  <2>8. QED
    BY <2>2, <2>6, <2>7 DEF WalkingIn
<1>2. QED
  BY <1>1, WalksKeepInvariant, PTL

\* For any number of upper levels and pages: a page that an upper level waits for is
\* in one place, its queue, one step of one walk, or one answer, and a page that it
\* does not wait for is in none (finish_packet, operate, handle_fill, handle_read).
THEOREM WalksAreOwedOnce == PTWSpec => []WalksOwedOnce
<1>1. WalkInv => WalksOwedOnce
  <2> SUFFICES ASSUME WalkInv, NEW u \in Upper, NEW vpage \in WalkPages
               PROVE  LET mine(q) == Cardinality({i \in DOMAIN q : q[i].vpage = vpage
                                                                   /\ u \in q[i].to_return})
                      IN  mine(MSHR) + mine(finished) + mine(completed)
                            + Cardinality({i \in DOMAIN upper[u].RQ : upper[u].RQ[i] = vpage})
                            + Cardinality({i \in DOMAIN upper[u].returned :
                                              upper[u].returned[i].vpage = vpage})
                          = IF vpage \in wait[u] THEN 1 ELSE 0
    BY DEF WalksOwedOnce
  <2> DEFINE mine(q) == Cardinality({i \in DOMAIN q : q[i].vpage = vpage /\ u \in q[i].to_return})
  <2>1. TypeInv /\ OwedInv
    BY DEF WalkInv
  <2>2. ASSUME NEW q \in Seq(WalkStep)
        PROVE  mine(q) = Count(q, WalksFor(u, vpage))
    <3>1. \A i \in DOMAIN q : q[i] \in WalkStep
      BY LenProperties
    <3>2. {i \in DOMAIN q : q[i].vpage = vpage /\ u \in q[i].to_return}
             = Places(q, WalksFor(u, vpage))
      BY <3>1 DEF Places, WalksFor
    <3>3. QED
      BY <3>2 DEF Count
  <2>3. /\ mine(MSHR) = Count(MSHR, WalksFor(u, vpage))
        /\ mine(finished) = Count(finished, WalksFor(u, vpage))
        /\ mine(completed) = Count(completed, WalksFor(u, vpage))
    BY <2>1, <2>2, StepsTyped
  <2>4. Cardinality({i \in DOMAIN upper[u].RQ : upper[u].RQ[i] = vpage})
           = Count(upper[u].RQ, {vpage})
    <3>1. {i \in DOMAIN upper[u].RQ : upper[u].RQ[i] = vpage} = Places(upper[u].RQ, {vpage})
      BY DEF Places
    <3>2. QED
      BY <3>1 DEF Count
  <2>5. Cardinality({i \in DOMAIN upper[u].returned : upper[u].returned[i].vpage = vpage})
           = Count(upper[u].returned, AnswersFor(vpage))
    <3> DEFINE r == upper[u].returned
    <3>1. r \in Seq(AnswersIn(vmem))
      BY <2>1, OwedCounts
    <3> HIDE DEF r
    <3>2. \A i \in DOMAIN r : r[i] \in Answer
      BY <3>1, LenProperties DEF AnswersIn
    <3>3. {i \in DOMAIN r : r[i].vpage = vpage} = Places(r, AnswersFor(vpage))
      BY <3>2 DEF Places, AnswersFor
    <3>4. QED
      BY <3>3 DEF Count, r
  <2>6. Owed(u, vpage) = One(vpage \in wait[u])
    BY <2>1 DEF OwedInv
  <2> HIDE DEF mine
  <2>7. mine(MSHR) + mine(finished) + mine(completed)
          + Cardinality({i \in DOMAIN upper[u].RQ : upper[u].RQ[i] = vpage})
          + Cardinality({i \in DOMAIN upper[u].returned : upper[u].returned[i].vpage = vpage})
        = IF vpage \in wait[u] THEN 1 ELSE 0
    BY <2>3, <2>4, <2>5, <2>6 DEF Owed, One
  <2>8. QED
    BY <2>7 DEF mine
<1>2. QED
  BY <1>1, WalksKeepInvariant, PTL

\* The walker, too, calls the memory so that no frame serves two purposes.
THEOREM WalkerSharesNoFrame == PTWSpec => []FramesDistinct
<1>1. WalkInv => FramesDistinct
  BY DEF WalkInv, TypeInv, Good, Apart, FramesDistinct
<1>2. QED
  BY <1>1, WalksKeepInvariant, PTL
=============================================================================

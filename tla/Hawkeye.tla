------------------------------ MODULE Hawkeye -------------------------------
(***************************************************************************)
(* The hawkeye replacement module (replacement/hawkeye/hawkeye.cc): OPTgen *)
(* labels each access, the label trains the counter of the PC that made    *)
(* the previous access of the same line, and the counters classify the     *)
(* lines the RRPV table orders.  hawkeye keeps its own copy of OPTgen's    *)
(* window, pcHistory, to remember those PCs: nothing in the code ties the  *)
(* copy to the original but that both are updated alike.                   *)
(*                                                                         *)
(* Its hooks are called by CACHE (src/cache.cc), which is reduced here to  *)
(* the lines its ways hold, so that the calls are ones it can make.        *)
(***************************************************************************)
EXTENDS OPTgen, RRPVTable

CONSTANTS
    PC,        \* instruction pointers
    NoPC,      \* no pc recorded
    Entries,   \* indices of ctrTable
    PcIndex,   \* the hash of predictor.cc, as a function: PCs may collide
    NoLine     \* an invalid way

ASSUME HawkeyeAssumption ==
    /\ Associativity = NumWays
    /\ NoPC \notin PC
    /\ NoLine \notin Addr
    /\ PcIndex \in [PC -> Entries]

VARIABLES
    pcHistory,   \* per set: the last accesses, and the PC of each line's latest
    ctrTable,    \* the predictor's counters
    rrpvTable,   \* per set: the RRPV of each way
    block        \* external: the lines of the cache

hawkeyeVars == <<totalSets, pcHistory, ctrTable, rrpvTable, block>>

-----------------------------------------------------------------------------
(* The predictor: counters of 3 bits. *)

MaxCounter == 7
Threshold == 4

Train(ctr, pc, optHit) ==
    [ctr EXCEPT ![PcIndex[pc]] =
        IF optHit THEN (IF @ < MaxCounter THEN @ + 1 ELSE @)
                  ELSE (IF @ > 0 THEN @ - 1 ELSE @)]

\* predict and toClassification
ClassOf(ctr, pc) ==
    IF ctr[PcIndex[pc]] >= Threshold THEN "CACHE_FRIENDLY" ELSE "CACHE_AVERSE"

-----------------------------------------------------------------------------
(* pcHistory: hawkeye's copy of the window of one set. *)

NoRecord == [timestamp |-> Absent, pc |-> NoPC]

PcRecord == [timestamp : Nat, pc : PC]

PcHistorySet == [history : Seq([blockAddr : Addr, timestamp : Nat]),
                 last    : [Addr -> PcRecord \cup {NoRecord}],
                 time    : Nat]

FreshHistory == [history |-> << >>,
                 last    |-> [a \in Addr |-> NoRecord],
                 time    |-> 0]

MutantPcHistoryLength == 2 * Associativity * HistoryMultiplier

\* historyLength(8 * numWays); OPTgen computes its own from its default of 8.
PcHistoryLength == HistoryMultiplier * NumWays

PrevPc(h, a) == h.last[a].pc

HistoryFull(h) == Len(h.history) = PcHistoryLength

\* The records that survive the drop of the oldest access.
LastOf(h) ==
    LET oldest == Head(h.history)
    IN  IF HistoryFull(h) /\ h.last[oldest.blockAddr].timestamp = oldest.timestamp
          THEN [h.last EXCEPT ![oldest.blockAddr] = NoRecord]
          ELSE h.last

PcRecorded(h, a, pc) ==
    [history |-> Append(IF HistoryFull(h) THEN Tail(h.history) ELSE h.history,
                        [blockAddr |-> a, timestamp |-> h.time]),
     last    |-> [LastOf(h) EXCEPT ![a] = [timestamp |-> h.time, pc |-> pc]],
     time    |-> h.time + 1]

-----------------------------------------------------------------------------
HawkeyeInit ==
    /\ OPTgenInit
    /\ pcHistory = [s \in Sets |-> FreshHistory]
    /\ ctrTable = [e \in Entries |-> Threshold]
    /\ rrpvTable = [s \in Sets |-> [w \in Ways |-> MaxRRPV]]
    /\ block = [s \in Sets |-> [w \in Ways |-> NoLine]]

MutantLearnSelf(s, a, pc) ==
    /\ Access(s, a)
    /\ pcHistory' = [pcHistory EXCEPT ![s] = PcRecorded(@, a, pc)]
    /\ ctrTable' = Train(ctrTable, pc, OptHit(totalSets[s], a))

\* prevPcAndRecord, OPTgen::access and the training they lead to.
Learn(s, a, pc) ==
    /\ Access(s, a)
    /\ pcHistory' = [pcHistory EXCEPT ![s] = PcRecorded(@, a, pc)]
    /\ ctrTable' = IF PrevPc(pcHistory[s], a) = NoPC
                     THEN ctrTable
                     ELSE Train(ctrTable, PrevPc(pcHistory[s], a),
                                OptHit(totalSets[s], a))

HoldsFirst(s, w, a) ==
    /\ block[s][w] = a
    /\ \A x \in 1 .. w - 1 : block[s][x] # a

\* update_replacement_state with hit = true: the line is in way w.
UpdateOnHit(s, w, a, pc) ==
    /\ HoldsFirst(s, w, a)
    /\ Learn(s, a, pc)
    /\ rrpvTable' =
          [rrpvTable EXCEPT ![s] = UpdateRRPV(@, w, ClassOf(ctrTable', pc), TRUE)]
    /\ UNCHANGED block

\* update_replacement_state with hit = false; CACHE repeats it for a miss that
\* has to wait.
UpdateOnMiss(s, a, pc) ==
    /\ \A w \in Ways : block[s][w] # a
    /\ Learn(s, a, pc)
    /\ UNCHANGED <<rrpvTable, block>>

\* replacement_cache_fill on way w, whose values find_victim may have aged.
CacheFill(s, w, a, pc, rrpv) ==
    /\ rrpvTable' = [rrpvTable EXCEPT ![s] =
                        UpdateRRPV(rrpv, w, ClassOf(ctrTable, pc), FALSE)]
    /\ block' = [block EXCEPT ![s][w] = a]
    /\ UNCHANGED <<totalSets, pcHistory, ctrTable>>

InvalidWays(s) == {w \in Ways : block[s][w] = NoLine}

FillInvalidWay(s, w, a, pc) ==
    /\ w \in InvalidWays(s)
    /\ \A x \in InvalidWays(s) : w <= x
    /\ CacheFill(s, w, a, pc, rrpvTable[s])

FillVictim(s, a, pc) ==
    /\ InvalidWays(s) = {}
    /\ CacheFill(s, VictimOf(rrpvTable[s]), a, pc, Aged(rrpvTable[s]))

\* The lower level refuses the victim's writeback: find_victim has aged the set
\* and CACHE will call it again.
RefusedFill(s) ==
    /\ InvalidWays(s) = {}
    /\ rrpvTable' = [rrpvTable EXCEPT ![s] = Aged(@)]
    /\ UNCHANGED <<totalSets, pcHistory, ctrTable, block>>

HawkeyeNext ==
    \E s \in Sets :
        \/ \E a \in Addr, pc \in PC :
              \/ \E w \in Ways :
                    \/ UpdateOnHit(s, w, a, pc)
                    \/ FillInvalidWay(s, w, a, pc)
              \/ UpdateOnMiss(s, a, pc)
              \/ FillVictim(s, a, pc)
        \/ RefusedFill(s)

HawkeyeSpec == HawkeyeInit /\ [][HawkeyeNext]_hawkeyeVars

-----------------------------------------------------------------------------
\* The counters stay in 0..7, the RRPVs in 0..7, and the rest has its type.
HawkeyeTypeOK ==
    /\ OPTgenTypeOK
    /\ pcHistory \in [Sets -> PcHistorySet]
    /\ ctrTable \in [Entries -> 0 .. MaxCounter]
    /\ rrpvTable \in [Sets -> [Ways -> RRPV]]
    /\ block \in [Sets -> [Ways -> Addr \cup {NoLine}]]

Mirrors(h, st) ==
    /\ h.time = st.time
    /\ Len(h.history) = Len(st.accessHistory)
    /\ \A i \in 1 .. Len(h.history) :
          /\ h.history[i].blockAddr = st.accessHistory[i]
          /\ h.history[i].timestamp = StartQueue(st) + i - 1
    /\ \A a \in Addr : h.last[a].timestamp = st.prevAccess[a]

\* pcHistory is an exact copy of OPTgen's window (hawkeye.cc:19-47 against
\* optgen.cc:18-86): a line has a recorded PC exactly when OPTgen has a previous
\* access for it, and both mean the same access; otherwise a label would train a
\* PC that had nothing to do with the interval it judges, or be lost.
MirrorCoherent == \A s \in Sets : Mirrors(pcHistory[s], totalSets[s])
=============================================================================

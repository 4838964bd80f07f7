---------------------------- MODULE HawkeyeTrace ----------------------------
(***************************************************************************)
(* Hawkeye with the history of the uses of every set, to say which PC an   *)
(* access ought to train.                                                  *)
(***************************************************************************)
EXTENDS Hawkeye, FiniteSetsExt, TLC

VARIABLE uses    \* history: per set, the [addr, pc] of every access

hawkeyeTraceVars == <<hawkeyeVars, uses>>

\* The access the step makes, if it makes one, is the newest of pcHistory.
Used(s) ==
    IF totalSets'[s].time = totalSets[s].time
      THEN << >>
      ELSE LET h == pcHistory'[s].history
               a == h[Len(h)].blockAddr
           IN  << [addr |-> a, pc |-> pcHistory'[s].last[a].pc] >>

HawkeyeTraceInit == HawkeyeInit /\ uses = [s \in Sets |-> << >>]

HawkeyeTraceNext ==
    /\ HawkeyeNext
    /\ uses' = [s \in Sets |-> uses[s] \o Used(s)]

HawkeyeTraceSpec == HawkeyeTraceInit /\ [][HawkeyeTraceNext]_hawkeyeTraceVars

-----------------------------------------------------------------------------
\* The latest of the last HistoryLength uses that was of line a, 0 if none was.
PreviousUse(u, a) ==
    Max({0} \cup {p \in 1 .. Len(u) : p > Len(u) - HistoryLength /\ u[p].addr = a})

\* One step of the counter e in the direction of OPTgen's answer, and no other.
OneStep(e, optHit) ==
    /\ \A f \in Entries \ {e} : ctrTable'[f] = ctrTable[f]
    /\ ctrTable'[e] =
          IF optHit THEN Min({ctrTable[e] + 1, MaxCounter})
                    ELSE Max({ctrTable[e] - 1, 0})

TrainsPreviousUser(s) ==
    LET u == uses[s]
        a == uses'[s][Len(u) + 1].addr
        p == PreviousUse(u, a)
    IN  IF p = 0
          THEN UNCHANGED ctrTable
          ELSE OneStep(PcIndex[u[p].pc], OptHit(totalSets[s], a))

\* Only a use trains, once, and it trains the PC that made the previous use of
\* the same line among the last HistoryLength ones of the set, as OPTgen judged
\* that reuse (hawkeye.cc:104-109): never the PC of the access itself, of an
\* older use, or of a use that has left the window.
TrainingIsAttributed ==
    [][ /\ \A s \in Sets : uses'[s] # uses[s] => TrainsPreviousUser(s)
        /\ UNCHANGED uses => UNCHANGED ctrTable ]_hawkeyeTraceVars

-----------------------------------------------------------------------------
(* For TLC: one set of two ways, a window of two accesses that five        *)
(* accesses outgrow, two PCs with counters of their own.                   *)

CONSTANTS p1, p2

MCPC == {p1, p2}

MCPcIndex == p1 :> 0 @@ p2 :> 1

Permuted == Permutations(Addr)
=============================================================================

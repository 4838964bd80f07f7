----------------------------- MODULE Simulation -----------------------------
(***************************************************************************)
(* The phase driver (src/champsim.cc): do_phase's loop over the cycles of  *)
(* all operables, each with its own clock (operable, chrono), until every  *)
(* core has retired its instructions, a trace has ended, or the program    *)
(* aborts.  What an operable does in a cycle is left open: it progresses   *)
(* or not, and a core that progresses may retire.  Times are relative to   *)
(* the global clock, counts to what is left of them.                       *)
(***************************************************************************)
EXTENDS Integers, FiniteSets, FiniteSetsExt, Functions

CONSTANTS
    Cores,             \* the O3_CPUs
    Others,            \* the caches, walkers and memory
    clock_period,      \* of each operable
    length,            \* instructions of each phase
    RetireWidth,       \* instructions a core retires in a cycle of its own
    DEADLOCK_CYCLE,
    livelock_period,
    LivelockPercent    \* 100 * livelock_threshold[0]

Operables == Cores \cup Others

VARIABLES
    phase,              \* number of the phase, DOMAIN length + 1 after the last
    ahead,              \* current_time of each operable, from the global clock's
    left,               \* instructions a core has still to retire in the phase
    since,              \* instructions retired since livelock_instr was taken
    phase_complete,
    stalled_cycle, livelock_timer,
    eof,                \* some trace has ended
    aborted,
    ended               \* history: how often each core's end_phase was announced

simulationVars == <<phase, ahead, left, since, phase_complete, stalled_cycle,
                    livelock_timer, eof, aborted, ended>>

time_quantum == Min({clock_period[op] : op \in Operables})

Each(x) == [c \in Cores |-> x]

SimulationInit ==
    /\ phase = 1
    /\ ahead = [op \in Operables |-> 0]
    /\ left = Each(length[1])
    /\ since = Each(0)
    /\ phase_complete = Each(FALSE)
    /\ stalled_cycle = 0
    /\ livelock_timer = 0
    /\ eof = FALSE
    /\ aborted = FALSE
    /\ ended = Each(0)

Running == phase \in DOMAIN length /\ ~aborted

-----------------------------------------------------------------------------
(* One cycle. *)

\* How often operate_on calls _operate: until the operable's time is not before
\* the global clock's.
Operations(op) ==
    LET behind == time_quantum - ahead[op]
    IN  IF behind <= 0 THEN 0 ELSE (behind + clock_period[op] - 1) \div clock_period[op]

\* Retiring is progress.
Retirable(c, active) == 0 .. (IF c \in active THEN RetireWidth * Operations(c) ELSE 0)

\* livelock_ipc <= livelock_threshold[0]
Livelocked(retired) == 100 * retired <= LivelockPercent * livelock_period

MutantRetaken(retired) ==
    IF livelock_timer + 1 < livelock_period
      THEN /\ livelock_timer' = livelock_timer + 1
           /\ since' = [c \in Cores |-> Min({since[c] + retired[c], livelock_period * RetireWidth})]
      ELSE /\ livelock_timer' = 0
           /\ since' = [c \in Cores |-> Min({since[c] + retired[c], livelock_period * RetireWidth})]

\* After livelock_period cycles every core's count is taken anew.
Retaken(retired) ==
    IF livelock_timer + 1 < livelock_period
      THEN /\ livelock_timer' = livelock_timer + 1
           /\ since' = [c \in Cores |-> since[c] + retired[c]]
      ELSE /\ livelock_timer' = 0
           /\ since' = [c \in Cores |-> 0]

LivelockTrigger(retired) ==
    /\ livelock_timer + 1 >= livelock_period
    /\ \E c \in Cores : Livelocked(since[c] + retired[c])

Complete(c) == phase_complete[c] \/ eof' \/ left'[c] = 0

\* What a cycle does to the clocks and the counts: the operables of active progress.
Advance(active, retired) ==
    /\ Running
    /\ \E c \in Cores : ~phase_complete[c]
    /\ active \subseteq {op \in Operables : Operations(op) > 0}
    /\ ahead' = [op \in Operables |->
                   ahead[op] + Operations(op) * clock_period[op] - time_quantum]
    /\ left' = [c \in Cores |-> IF left[c] > retired[c] THEN left[c] - retired[c] ELSE 0]
    /\ stalled_cycle' = IF active = {} THEN stalled_cycle + 1 ELSE 0
    /\ Retaken(retired)

\* do_cycle goes well: cores that are finished have end_phase announced, once.
Cycle(active, retired) ==
    /\ Advance(active, retired)
    /\ stalled_cycle' < DEADLOCK_CYCLE
    /\ ~LivelockTrigger(retired)
    /\ eof' \in {eof, TRUE}
    /\ phase_complete' = [c \in Cores |-> Complete(c)]
    /\ ended' = [c \in Cores |->
                   ended[c] + (IF Complete(c) # phase_complete[c] THEN 1 ELSE 0)]
    /\ UNCHANGED <<phase, aborted>>

\* Nothing progressed for too long, or a core retires too little.
Abort(active, retired) ==
    /\ Advance(active, retired)
    /\ stalled_cycle' >= DEADLOCK_CYCLE \/ LivelockTrigger(retired)
    /\ aborted' = TRUE
    /\ UNCHANGED <<phase, phase_complete, eof, ended>>

CycleOrAbort ==
    \E active \in SUBSET Operables :
       \E retired \in [Cores -> 0 .. RetireWidth] :
          /\ \A c \in Cores : retired[c] \in Retirable(c, active)
          /\ Cycle(active, retired) \/ Abort(active, retired)

\* The next phase starts where the clocks are; a trace that has ended stays so.
NextPhase ==
    /\ Running
    /\ \A c \in Cores : phase_complete[c]
    /\ phase' = phase + 1
    /\ left' = Each(IF phase + 1 \in DOMAIN length THEN length[phase + 1] ELSE 0)
    /\ since' = Each(0)
    /\ phase_complete' = Each(FALSE)
    /\ stalled_cycle' = 0
    /\ livelock_timer' = 0
    /\ ended' = Each(0)
    /\ UNCHANGED <<ahead, eof, aborted>>

SimulationNext == CycleOrAbort \/ NextPhase

SimulationFairness == WF_simulationVars(SimulationNext)

SimulationSpec == SimulationInit /\ [][SimulationNext]_simulationVars /\ SimulationFairness

-----------------------------------------------------------------------------
(* Properties. *)

\* Whatever the operables do, the loop of do_phase ends (champsim.cc:88-153): cores
\* that retire reach the end of each phase, and one that does not is found by the
\* watch over stalled cycles or, if other operables stay busy, by the livelock
\* watch, also when it has finished its own instructions.
SimulationEnds == <>(aborted \/ phase > Cardinality(DOMAIN length))
=============================================================================

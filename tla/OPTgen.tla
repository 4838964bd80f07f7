------------------------------- MODULE OPTgen -------------------------------
(***************************************************************************)
(* OPTgen (replacement/hawkeye/optgen.cc): for every cache set, decides    *)
(* for each access whether Belady's optimal policy would have hit, from an *)
(* occupancy vector over the last HistoryLength accesses of that set.      *)
(*                                                                         *)
(* Indices: the deques of the code count from 0, the sequences here from   *)
(* 1; index i of both deques stands for time startQueue + i - 1.           *)
(***************************************************************************)
EXTENDS Integers, Sequences

CONSTANTS
    Sets,               \* the cache sets (num_sets of them)
    Addr,               \* line addresses
    Associativity,      \* setAssociativity
    HistoryMultiplier,  \* history_multiplier, 8 unless the caller says otherwise
    MaxAccesses         \* bound on the accesses of one set, for model checking

\* What the constructor insists on; it throws invalid_argument otherwise.
ASSUME OPTgenAssumption ==
    /\ Sets # {}
    /\ Associativity \in Nat \ {0}
    /\ HistoryMultiplier \in Nat \ {0}
    /\ MaxAccesses \in Nat

HistoryLength == Associativity * HistoryMultiplier

\* prevAccess is an unordered_map: a line with no entry maps to Absent.
Absent == -1

SetInfo == [occVector     : Seq(Nat),
            accessHistory : Seq(Addr),
            prevAccess    : [Addr -> Nat \cup {Absent}],
            time          : Nat]

FreshSet == [occVector     |-> << >>,
             accessHistory |-> << >>,
             prevAccess    |-> [a \in Addr |-> Absent],
             time          |-> 0]

-----------------------------------------------------------------------------
(* One call of access, on one set. *)

\* The time of the oldest access still in the window.
StartQueue(st) == st.time - Len(st.occVector)

\* The slots from the previous access of a up to now.
ReuseInterval(st, a) ==
    (st.prevAccess[a] - StartQueue(st) + 1) .. Len(st.occVector)

MutantOptHitOffByOne(st, a) ==
    /\ st.prevAccess[a] # Absent
    /\ \A i \in ReuseInterval(st, a) : st.occVector[i] <= Associativity

MutantOptHitLate(st, a) ==
    /\ st.prevAccess[a] # Absent
    /\ \A i \in ReuseInterval(st, a) \ {st.prevAccess[a] - StartQueue(st) + 1} :
            st.occVector[i] < Associativity

\* OPT would have kept a: every slot of its reuse interval has room.
OptHit(st, a) ==
    /\ st.prevAccess[a] # Absent
    /\ \A i \in ReuseInterval(st, a) : st.occVector[i] < Associativity

\* The occupancy once the line that would have stayed takes its slots.
Occupied(st, a) ==
    [i \in 1 .. Len(st.occVector) |->
        IF OptHit(st, a) /\ i \in ReuseInterval(st, a)
          THEN st.occVector[i] + 1
          ELSE st.occVector[i]]

Full(st) == Len(st.occVector) = HistoryLength

MutantForgottenAlways(st) ==
    IF Full(st)
      THEN [st.prevAccess EXCEPT ![Head(st.accessHistory)] = Absent]
      ELSE st.prevAccess

\* A full window drops its oldest access: the map forgets that line only if
\* the dropped access is the latest one recorded for it.
Forgotten(st) ==
    IF Full(st) /\ st.prevAccess[Head(st.accessHistory)] = StartQueue(st)
      THEN [st.prevAccess EXCEPT ![Head(st.accessHistory)] = Absent]
      ELSE st.prevAccess

\* push_back, after a pop_front when the window is full.
Slide(st, deque, e) == Append(IF Full(st) THEN Tail(deque) ELSE deque, e)

Recorded(st, a) ==
    [occVector     |-> Slide(st, Occupied(st, a), 0),
     accessHistory |-> Slide(st, st.accessHistory, a),
     prevAccess    |-> [Forgotten(st) EXCEPT ![a] = st.time],
     time          |-> st.time + 1]

-----------------------------------------------------------------------------
VARIABLE totalSets

optgenVars == <<totalSets>>

OPTgenInit == totalSets = [s \in Sets |-> FreshSet]

Access(s, a) ==
    /\ totalSets[s].time < MaxAccesses
    /\ totalSets' = [totalSets EXCEPT ![s] = Recorded(@, a)]

OPTgenNext == \E s \in Sets, a \in Addr : Access(s, a)

OPTgenSpec == OPTgenInit /\ [][OPTgenNext]_optgenVars

-----------------------------------------------------------------------------
(* Correctness of one set. *)

SetTypeOK(st) == st \in SetInfo

\* Both deques describe the same accesses: the last HistoryLength of them.
WindowAligned(st) ==
    /\ Len(st.occVector) = Len(st.accessHistory)
    /\ Len(st.occVector) <= HistoryLength
    /\ Len(st.occVector) = st.time \/ (Full(st) /\ HistoryLength <= st.time)

\* No slot ever promises more lines than the set has ways.
WithinCapacity(st) ==
    \A i \in 1 .. Len(st.occVector) : st.occVector[i] <= Associativity

\* A recorded previous access lies in the window, at a slot that holds that
\* very line: the unsigned prevTime - startQueue of the code never wraps.
PrevInWindow(st) ==
    \A a \in Addr : st.prevAccess[a] # Absent =>
        /\ st.prevAccess[a] >= StartQueue(st)
        /\ st.prevAccess[a] < st.time
        /\ st.accessHistory[st.prevAccess[a] - StartQueue(st) + 1] = a

\* A line in the window has a record, of its latest access there.
LatestRecorded(st) ==
    \A i \in 1 .. Len(st.accessHistory) :
        /\ st.prevAccess[st.accessHistory[i]] # Absent
        /\ st.prevAccess[st.accessHistory[i]] >= StartQueue(st) + i - 1

SetInv(st) ==
    /\ SetTypeOK(st)
    /\ WindowAligned(st)
    /\ WithinCapacity(st)
    /\ PrevInWindow(st)
    /\ LatestRecorded(st)

\* The types of OPTgen's state: every set keeps two deques, a map and a clock.
OPTgenTypeOK == totalSets \in [Sets -> SetInfo]

\* In every set, the map prevAccess is exactly the latest position of each line
\* inside the sliding window and the occupancy stays within the associativity:
\* the index computed at optgen.cc:37 is always inside occVector, and dropping
\* the oldest access (optgen.cc:59-73) leaves no stale or missing record.
WindowInv == \A s \in Sets : SetInv(totalSets[s])
=============================================================================

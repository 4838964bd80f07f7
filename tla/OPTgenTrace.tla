----------------------------- MODULE OPTgenTrace ----------------------------
(***************************************************************************)
(* OPTgen with two history variables, to say what its answers are worth:   *)
(* answers, the accesses made so far with what each returned, and reach,   *)
(* what an omniscient replacement policy could have achieved on them.      *)
(***************************************************************************)
EXTENDS OPTgen, FiniteSets, FiniteSetsExt

VARIABLES answers, reach

traceVars == <<totalSets, answers, reach>>

\* What a set of Associativity ways can hold.
Contents == {C \in SUBSET Addr : Cardinality(C) <= Associativity}

Impossible == -1

\* reach[s][C]: the most hits any policy, free to bypass and to evict whatever
\* it likes, can have had in set s when it now holds C.
Reachable(r, a) ==
    [D \in Contents |->
        Max({Impossible} \cup
            {r[C] + (IF a \in C THEN 1 ELSE 0) :
                C \in {C \in Contents : r[C] # Impossible /\ D \subseteq C \cup {a}}})]

Returned(st, a) ==
    [addr |-> a, from |-> st.prevAccess[a] + 1, optHit |-> OptHit(st, a)]

TraceInit ==
    /\ OPTgenInit
    /\ answers = [s \in Sets |-> << >>]
    /\ reach = [s \in Sets |-> [C \in Contents |-> IF C = {} THEN 0 ELSE Impossible]]

TracedAccess(s, a) ==
    /\ Access(s, a)
    /\ answers' = [answers EXCEPT ![s] = Append(@, Returned(totalSets[s], a))]
    /\ reach' = [reach EXCEPT ![s] = Reachable(@, a)]

TraceNext == \E s \in Sets, a \in Addr : TracedAccess(s, a)

TraceSpec == TraceInit /\ [][TraceNext]_traceVars

-----------------------------------------------------------------------------
OptHits(s) == Cardinality({t \in 1 .. Len(answers[s]) : answers[s][t].optHit})

BestPossible(s) == Max({reach[s][C] : C \in Contents})

\* OPTgen's hits are those of the optimal policy: as long as no access has left
\* the window, the number of accesses that optgen.cc:18-86 answers true is the
\* most hits any replacement policy with bypassing could have had on the same
\* accesses; later the window may only make it pessimistic, never optimistic.
MatchesOptimal ==
    \A s \in Sets :
        /\ OptHits(s) <= BestPossible(s)
        /\ Len(answers[s]) <= HistoryLength => OptHits(s) = BestPossible(s)

\* Every answer is the one the definition by reuse intervals gives: the occupancy
\* vector, the sliding deques and the map of optgen.cc together implement the
\* interval-packing specification of ReuseIntervals.
Packing == INSTANCE ReuseIntervals WITH calls <- answers
ImplementsReuseIntervals == Packing!Spec
=============================================================================

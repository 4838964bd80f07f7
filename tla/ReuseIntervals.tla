--------------------------- MODULE ReuseIntervals ---------------------------
(***************************************************************************)
(* What OPTgen promises, without its data structures.  A set's accesses    *)
(* form a trace; a reuse interval runs from the previous access of a line, *)
(* if it is among the last HistoryLength accesses, to the current one.     *)
(* The access is an OPT hit exactly when the interval can be added to the  *)
(* ones accepted so far without any slot holding more than Associativity   *)
(* of them.                                                                *)
(***************************************************************************)
EXTENDS Integers, Sequences, FiniteSets

CONSTANTS Sets, Addr, Associativity, HistoryLength, MaxAccesses

VARIABLE calls    \* calls[s][t]: the t-th access of set s and its answer

Call == [addr : Addr, from : Nat, optHit : BOOLEAN]

\* The positions of a among the last HistoryLength accesses of trace c.
RecentUses(c, a) ==
    {p \in 1 .. Len(c) : p > Len(c) - HistoryLength /\ c[p].addr = a}

\* The latest of them, 0 if there is none.
PreviousUse(c, a) ==
    IF RecentUses(c, a) = {}
      THEN 0
      ELSE CHOOSE p \in RecentUses(c, a) : \A q \in RecentUses(c, a) : q <= p

\* The accepted intervals that cover slot u: from <= u < their end.
Covering(c, u) ==
    {t \in 1 .. Len(c) : c[t].optHit /\ c[t].from <= u /\ u < t}

Fits(c, from) ==
    \A u \in from .. Len(c) : Cardinality(Covering(c, u)) < Associativity

Answer(c, a) ==
    [addr   |-> a,
     from   |-> PreviousUse(c, a),
     optHit |-> PreviousUse(c, a) # 0 /\ Fits(c, PreviousUse(c, a))]

Init == calls = [s \in Sets |-> << >>]

Access(s, a) ==
    /\ Len(calls[s]) < MaxAccesses
    /\ calls' = [calls EXCEPT ![s] = Append(@, Answer(@, a))]

Next == \E s \in Sets, a \in Addr : Access(s, a)

Spec == Init /\ [][Next]_calls
=============================================================================

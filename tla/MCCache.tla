------------------------------ MODULE MCCache -------------------------------
(***************************************************************************)
(* Lines of one set.  A run has few requests: WarmSpec starts also when    *)
(* two stores have been answered and nothing is on its way, so that the    *)
(* first miss has to evict, and writes back, one of two dirty lines.       *)
(***************************************************************************)
EXTENDS Cache

CONSTANTS a1, a2, a3, u1, u2, s1

OneSet == [a \in Line |-> s1]

\* A page for each line.
OwnPage == [a \in Line |-> a]

StoredInit ==
    /\ QuietInit
    /\ block = [s \in CacheSets |-> [w \in Way |-> [addr |-> IF w = 1 THEN a2 ELSE a3,
                                                    dirty |-> TRUE]]]
    /\ written = {a2, a3}

WarmInit == CacheInit \/ StoredInit

WarmSpec == WarmInit /\ [][CacheNext]_cacheVars /\ CacheFairness
=============================================================================

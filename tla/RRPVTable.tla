----------------------------- MODULE RRPVTable ------------------------------
(***************************************************************************)
(* The re-reference prediction values of one set and the two operations    *)
(* of replacement/hawkeye/rrip.cc on them, as operators: update_rrpv, and  *)
(* what find_victim returns and leaves behind (RRIPSearch has its loop).   *)
(* Way w of the code is w + 1 here.                                        *)
(***************************************************************************)
EXTENDS Integers

CONSTANT NumWays

ASSUME RRIPAssumption == NumWays \in Nat \ {0}

Ways == 1 .. NumWays

MaxRRPV == 7
MaxFriendlyRRPV == 6

RRPV == 0 .. MaxRRPV

Classification == {"CACHE_FRIENDLY", "CACHE_AVERSE"}

MutantUpdateStopsAtWay(rrpv, way, cls, isHit) ==
    [w \in Ways |->
        IF w = way
          THEN (IF cls = "CACHE_AVERSE" THEN MaxRRPV ELSE 0)
          ELSE IF cls = "CACHE_FRIENDLY" /\ ~isHit /\ w < way
                     /\ rrpv[w] < MaxFriendlyRRPV
                 THEN rrpv[w] + 1
                 ELSE rrpv[w]]

\* A cache-averse line becomes the first to go; a cache-friendly one the last,
\* and a friendly insertion ages the other lines, never up to MaxRRPV.
UpdateRRPV(rrpv, way, cls, isHit) ==
    [w \in Ways |->
        IF w = way
          THEN (IF cls = "CACHE_AVERSE" THEN MaxRRPV ELSE 0)
          ELSE IF cls = "CACHE_FRIENDLY" /\ ~isHit /\ rrpv[w] < MaxFriendlyRRPV
                 THEN rrpv[w] + 1
                 ELSE rrpv[w]]

\* The ways with the highest value, and the first of them.
Oldest(rrpv) == {w \in Ways : \A x \in Ways : rrpv[x] <= rrpv[w]}

VictimOf(rrpv) == CHOOSE w \in Oldest(rrpv) : \A x \in Oldest(rrpv) : w <= x

\* find_victim ages every line by as much as the victim lacks to MaxRRPV.
Aged(rrpv) == [w \in Ways |-> rrpv[w] + (MaxRRPV - rrpv[VictimOf(rrpv)])]
=============================================================================

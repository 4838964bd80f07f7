----------------------------- MODULE RRIPSearch -----------------------------
(***************************************************************************)
(* replacement/hawkeye/rrip.cc step by step: find_victim is a while (1)    *)
(* that scans the set for MaxRRPV and, finding none, ages every line in    *)
(* place.  The table is the caller's, so what the search leaves in it is   *)
(* there for the next call, whether or not the victim was replaced.        *)
(***************************************************************************)
EXTENDS RRPVTable

VARIABLES
    rrpv,        \* the set's values
    victim,      \* the last way returned
    searching,   \* inside find_victim's loop
    atCall,      \* history: the values find_victim was called with
    goesBefore   \* history: <<x, y>> when x should go no later than y

searchVars == <<rrpv, victim, searching, atCall, goesBefore>>

\* The promise: seen from outside, the table changes when the search returns.
Promise == INSTANCE RRIP WITH rrpv <- IF searching THEN atCall ELSE rrpv

NoVictim == Promise!NoVictim

SearchInit ==
    /\ rrpv = [w \in Ways |-> MaxRRPV]
    /\ victim = NoVictim
    /\ searching = FALSE
    /\ atCall = rrpv
    /\ goesBefore = {}

\* A friendly touch puts the line behind all the others, an averse one in front.
Touched(way, cls) ==
    {p \in goesBefore : way \notin {p[1], p[2]}} \cup
    (IF cls = "CACHE_FRIENDLY"
       THEN {<<x, way>> : x \in Ways \ {way}}
       ELSE {<<way, x>> : x \in Ways \ {way}})

Update(way, cls, isHit) ==
    /\ ~searching
    /\ rrpv' = UpdateRRPV(rrpv, way, cls, isHit)
    /\ goesBefore' = Touched(way, cls)
    /\ atCall' = rrpv'
    /\ UNCHANGED <<victim, searching>>

CallFindVictim ==
    /\ ~searching
    /\ searching' = TRUE
    /\ atCall' = rrpv
    /\ UNCHANGED <<rrpv, victim, goesBefore>>

Candidates == {w \in Ways : rrpv[w] = MaxRRPV}

MutantReturnVictimLast ==
    /\ searching
    /\ Candidates # {}
    /\ victim' = CHOOSE w \in Candidates : \A x \in Candidates : x <= w
    /\ searching' = FALSE
    /\ atCall' = rrpv
    /\ UNCHANGED <<rrpv, goesBefore>>

ReturnVictim ==
    /\ searching
    /\ Candidates # {}
    /\ victim' = CHOOSE w \in Candidates : \A x \in Candidates : w <= x
    /\ searching' = FALSE
    /\ atCall' = rrpv
    /\ UNCHANGED <<rrpv, goesBefore>>

MutantAgeAllByValue ==
    /\ searching
    /\ Candidates = {}
    /\ UNCHANGED searchVars

AgeAll ==
    /\ searching
    /\ Candidates = {}
    /\ rrpv' = [w \in Ways |-> rrpv[w] + 1]
    /\ UNCHANGED <<victim, searching, atCall, goesBefore>>

SearchNext ==
    \/ \E way \in Ways, cls \in Classification, isHit \in BOOLEAN :
            Update(way, cls, isHit)
    \/ CallFindVictim
    \/ ReturnVictim
    \/ AgeAll

SearchSafe == SearchInit /\ [][SearchNext]_searchVars

\* The loop of a call runs on: the simulator has one thread.
SearchSpec == SearchSafe /\ WF_searchVars(ReturnVictim) /\ WF_searchVars(AgeAll)

-----------------------------------------------------------------------------
\* The values never leave 0..7, the history variables have their types.
SearchTypeOK ==
    /\ rrpv \in [Ways -> RRPV]
    /\ victim \in Ways \cup {NoVictim}
    /\ searching \in BOOLEAN
    /\ atCall \in [Ways -> RRPV]
    /\ goesBefore \in SUBSET (Ways \X Ways)

\* The values never contradict the order in which lines should go: an averse
\* line before every other, then the friendly line used longer ago.  Aging by
\* insertions, the cap at 6, and searches whose victim is not replaced (the fill
\* at cache.cc:177 is retried) may make values equal but never swap them.
EvictionOrder == \A p \in goesBefore : rrpv[p[1]] >= rrpv[p[2]]

\* find_victim's loop (rrip.cc:36-42) ends: some line reaches exactly 7.
SearchEnds == searching ~> ~searching

\* The loop does what RRIP says of find_victim in one step: the first of the
\* lines with the highest value, and every value raised by the same amount.
ImplementsRRIP == Promise!RRIPSpec
=============================================================================

-------------------------------- MODULE RRIP --------------------------------
(***************************************************************************)
(* What Hawkeye's replacement table of one set promises its caller:        *)
(* update_rrpv and find_victim (replacement/hawkeye/rrip.cc) as one step   *)
(* each.  RRIPSearch, which runs find_victim's loop, implements it.        *)
(***************************************************************************)
EXTENDS RRPVTable

NoVictim == 0

VARIABLES
    rrpv,    \* rrpvTable[set]
    victim   \* what find_victim last returned

rripVars == <<rrpv, victim>>

RRIPInit ==
    /\ rrpv = [w \in Ways |-> MaxRRPV]
    /\ victim = NoVictim

Update(way, cls, isHit) ==
    /\ rrpv' = UpdateRRPV(rrpv, way, cls, isHit)
    /\ UNCHANGED victim

FindVictim ==
    /\ victim' = VictimOf(rrpv)
    /\ rrpv' = Aged(rrpv)

RRIPNext ==
    \/ \E way \in Ways, cls \in Classification, isHit \in BOOLEAN :
            Update(way, cls, isHit)
    \/ FindVictim

RRIPSpec == RRIPInit /\ [][RRIPNext]_rripVars
=============================================================================

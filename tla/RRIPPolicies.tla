---------------------------- MODULE RRIPPolicies ----------------------------
(***************************************************************************)
(* The replacement policies that keep re-reference values: srrip, drrip    *)
(* and ship (src/replacement/), for one set of a cache, with the hooks     *)
(* that CACHE calls and the way it reaches them (inc/cache.h): a policy    *)
(* without replacement_cache_fill is not called for a miss.                *)
(***************************************************************************)
EXTENDS FwCounter, FiniteSets, FiniteSetsExt

CONSTANTS
    NumWay,        \* NUM_WAY
    Line,          \* lines of the set
    IP,            \* instructions, each with its own counter of the SHCT
    NoLine,        \* an invalid way
    NoIP,          \* the ip of a sampler entry not used yet
    maxRRPV,       \* maxRRPV
    BrripMax,      \* BRRIP_MAX
    CounterSpan,   \* values of the unsigned brrip_counter
    PselMax,       \* maximum of PSEL
    ShctMax,       \* maximum of the counters of the SHCT
    MaxSteps       \* bound on the calls, for model checking

Way == 1 .. NumWay

\* A set has a way, and values tell at least three ages.
ASSUME PolicyAssumption ==
    NumWay \in Nat \ {0} /\ maxRRPV \in Nat /\ maxRRPV >= 2 /\ NoLine \notin Line

VARIABLES
    policy,          \* which of the three
    category,        \* sample category of the set: 0 and 1 lead, 2 follows
    block,           \* lines of the set
    rrpv_values,     \* their re-reference values
    PSEL,            \* drrip: which insertion does better
    brrip_counter,   \* drrip: bimodal insertions so far
    sampler,         \* ship: the sampled set
    SHCT,            \* ship: per instruction, whether its lines go unused
    calls,           \* calls so far, among them ship's access_count
    recent           \* history: ways hit since the set was last aged

policyVars == <<policy, category, block, rrpv_values, PSEL, brrip_counter, sampler, SHCT,
                calls, recent>>

PolicyInit ==
    /\ policy \in {"srrip", "drrip", "ship"}
    /\ category \in 0 .. 2
    /\ block = [w \in Way |-> NoLine]
    /\ rrpv_values = [w \in Way |-> IF policy = "drrip" THEN 0 ELSE maxRRPV]
    /\ PSEL = 0
    /\ brrip_counter \in 0 .. CounterSpan - 1
    /\ policy # "drrip" => brrip_counter = 0
    /\ policy = "srrip" => category = 2
    /\ sampler = [w \in Way |-> [valid |-> FALSE, used |-> FALSE, addr |-> NoLine,
                                 ip |-> NoIP, last_used |-> 0]]
    /\ SHCT = [i \in IP \cup {NoIP} |-> 0]
    /\ calls = 0
    /\ recent = {}

Called == calls < MaxSteps /\ calls' = calls + 1

-----------------------------------------------------------------------------
(* Victims. *)

Largest(values) == Max({values[w] : w \in Way})

OldestWay(values) == Min({w \in Way : values[w] = Largest(values)})

MutantAged(values) ==
    [w \in Way |-> IF w <= OldestWay(values) THEN values[w] + (maxRRPV - Largest(values))
                                          ELSE values[w]]

\* The whole set is aged until its oldest line has the maximum.
AllAged(values) == [w \in Way |-> values[w] + (maxRRPV - Largest(values))]

StillRecent(values) == IF Largest(values) = maxRRPV THEN recent ELSE {}

-----------------------------------------------------------------------------
(* Tag checks. *)

Matching(addr) == {w \in Way : sampler[w].valid /\ sampler[w].addr = addr}

LeastRecent ==
    CHOOSE w \in Way : \A x \in Way :
        sampler[w].last_used < sampler[x].last_used
        \/ (sampler[w].last_used = sampler[x].last_used /\ w <= x)

\* ship's sampler sees every tag check of a sampled set: a line used again counts
\* against its instruction being one whose lines die, one replaced unused for it.
Sample(addr, ip) ==
    IF policy # "ship" \/ category # 0
      THEN UNCHANGED <<sampler, SHCT>>
      ELSE IF Matching(addr) # {}
        THEN LET w == Min(Matching(addr))
             IN  /\ SHCT' = [SHCT EXCEPT ![sampler[w].ip] = Minus(@, 1, ShctMax)]
                 /\ sampler' = [sampler EXCEPT ![w].used = TRUE, ![w].last_used = calls]
        ELSE LET w == LeastRecent
             IN  /\ SHCT' = IF sampler[w].used THEN SHCT
                              ELSE [SHCT EXCEPT ![sampler[w].ip] = Plus(@, 1, ShctMax)]
                 /\ sampler' = [sampler EXCEPT ![w] =
                                  [valid |-> TRUE, used |-> FALSE, addr |-> addr,
                                   ip |-> ip, last_used |-> calls]]

\* drrip demotes a line that a writeback hits.
HitValue(write) == IF policy = "drrip" /\ write THEN maxRRPV - 1 ELSE 0

\* update_replacement_state with hit = true.
Hit(w, ip, write) ==
    /\ Called
    /\ block[w] # NoLine
    /\ rrpv_values' = [rrpv_values EXCEPT ![w] = HitValue(write)]
    /\ recent' = IF HitValue(write) = 0 THEN recent \cup {w} ELSE recent \ {w}
    /\ Sample(block[w], ip)
    /\ UNCHANGED <<policy, category, block, PSEL, brrip_counter>>

\* With hit = false, it reaches only the policies that have replacement_cache_fill.
Miss(addr, ip) ==
    /\ Called
    /\ policy # "srrip"
    /\ \A w \in Way : block[w] # addr
    /\ Sample(addr, ip)
    /\ UNCHANGED <<policy, category, block, rrpv_values, PSEL, brrip_counter, recent>>

-----------------------------------------------------------------------------
(* Fills. *)

Bimodal == decide(PSEL, category, PselMax)

LongInsertion(counter) == (counter + 1) % CounterSpan = BrripMax

\* update_brrip
Counted(counter) == IF LongInsertion(counter) THEN 0 ELSE (counter + 1) % CounterSpan

\* What replacement_cache_fill sets the value of the filled way to: srrip has no
\* such hook, and impl_replacement_cache_fill's call of update_replacement_state in
\* its place does not reach it.
FillValue(old, ip, write) ==
    CASE policy = "srrip" -> old
      [] write /\ policy # "srrip" -> maxRRPV - 1
      [] policy = "drrip" /\ ~write ->
            IF Bimodal /\ ~LongInsertion(brrip_counter) THEN maxRRPV ELSE maxRRPV - 1
      [] policy = "ship" /\ ~write -> IF SHCT[ip] = ShctMax THEN maxRRPV ELSE maxRRPV - 1

Dueled(cat, counted) ==
    IF policy = "drrip" /\ counted
      THEN /\ brrip_counter' = IF decide(PSEL, cat, PselMax) THEN Counted(brrip_counter)
                                                            ELSE brrip_counter
           /\ PSEL' = update_bad(PSEL, cat, PselMax)
      ELSE UNCHANGED <<PSEL, brrip_counter>>

InvalidWays == {w \in Way : block[w] = NoLine}

\* An invalid way is filled without asking the policy for a victim.
Fill(addr, ip, write) ==
    /\ Called
    /\ \A w \in Way : block[w] # addr
    /\ LET w == IF InvalidWays # {} THEN Min(InvalidWays) ELSE OldestWay(rrpv_values)
           values == IF InvalidWays # {} THEN rrpv_values ELSE AllAged(rrpv_values)
       IN  /\ block' = [block EXCEPT ![w] = addr]
           /\ rrpv_values' = [values EXCEPT ![w] = FillValue(@, ip, write)]
           /\ recent' = (IF InvalidWays # {} THEN recent ELSE StillRecent(rrpv_values)) \ {w}
    /\ Dueled(category, ~write)
    /\ UNCHANGED <<policy, category, sampler, SHCT>>

\* A fill whose victim cannot be written back has aged the set all the same.
RefusedFill ==
    /\ Called
    /\ InvalidWays = {}
    /\ rrpv_values' = AllAged(rrpv_values)
    /\ recent' = StillRecent(rrpv_values)
    /\ UNCHANGED <<policy, category, block, PSEL, brrip_counter, sampler, SHCT>>

\* drrip: a fill of another set, which may lead.
FillElsewhere(cat) ==
    /\ policy = "drrip"
    /\ Called
    /\ Dueled(cat, TRUE)
    /\ UNCHANGED <<policy, category, block, rrpv_values, sampler, SHCT, recent>>

PolicyNext ==
    \/ \E ip \in IP, write \in BOOLEAN :
          \/ \E w \in Way : Hit(w, ip, write)
          \/ \E addr \in Line : Fill(addr, ip, write)
    \/ \E addr \in Line, ip \in IP : Miss(addr, ip)
    \/ RefusedFill
    \/ \E cat \in 0 .. 2 : FillElsewhere(cat)

PolicySpec == PolicyInit /\ [][PolicyNext]_policyVars

-----------------------------------------------------------------------------
(* Properties. *)

\* A line that was hit since the set was last aged is not replaced while another
\* has not been (srrip.cc:34-44, drrip.cc:68-79, ship.cc:25-36), whatever writes,
\* bimodal insertions and refused fills did to the values in between, and no value
\* leaves 0 .. maxRRPV, where drrip's unsigned difference would wrap.
RecentlyHitSurvives ==
    /\ \A w \in Way : rrpv_values[w] \in 0 .. maxRRPV
    /\ InvalidWays = {} => (OldestWay(rrpv_values) \in recent => recent = Way)

\* What Modules.rst:287 says of a policy without replacement_cache_fill: it is
\* told of fills, so that srrip gives a filled line a long interval, not the one
\* the victim had (srrip.cc:23, 46).
FilledIsLong ==
    [][\A w \in Way :
          (policy = "srrip" /\ block'[w] # block[w]) => rrpv_values'[w] = maxRRPV - 1]_policyVars
=============================================================================

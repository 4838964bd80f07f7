------------------------------ MODULE FwCounter -----------------------------
(***************************************************************************)
(* Saturating counters (src/inc/msl/fwcounter.h) and the set dueling that  *)
(* counts with them (src/inc/msl/stat_methods.h).  A counter is its value; *)
(* the limits belong to its type.                                          *)
(***************************************************************************)
EXTENDS Integers

clamp(value, min, max) ==
    IF value < min THEN min ELSE IF value > max THEN max ELSE value

Plus(counter, n, max) == clamp(counter + n, 0, max)
Minus(counter, n, max) == clamp(counter - n, 0, max)

\* A signed counter moves towards its maximum, -max - 1 .. max.
SignedPlus(counter, n, max) == clamp(counter + n, -max - 1, max)

\* dscounter: leaders of the two policies are decided, the others follow the
\* counter, which the misses of the leaders move.
decide(counter, category, max) ==
    category = 0 \/ (category # 1 /\ counter >= max \div 2)

update_bad(counter, category, max) ==
    CASE category = 0 -> Minus(counter, 1, max)
      [] category = 1 -> Plus(counter, 1, max)
      [] OTHER -> counter
=============================================================================

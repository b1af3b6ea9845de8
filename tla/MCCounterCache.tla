--------------------------- MODULE MCCounterCache ---------------------------
(* Values of the constants of CounterCache for TLC.                        *)
EXTENDS CounterCache, TLC

CONSTANTS k1, k2, g1, g2

\* Two sketch rows: the keys collide in the first and not in the second.
MCHash == [r \in Rows |-> [k \in Keys |-> IF r = 2 /\ k = k2 THEN 2 ELSE 1]]

GoroutineSymmetry == Permutations({g1, g2})
=============================================================================

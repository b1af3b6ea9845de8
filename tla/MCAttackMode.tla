---------------------------- MODULE MCAttackMode ----------------------------
EXTENDS AttackMode

CONSTANTS r1, r2

\* What an operator may reload: as it was, not sharing, switched off with another raise.
Settings == {[enabled |-> TRUE, share |-> TRUE, raise |-> 1],
             [enabled |-> TRUE, share |-> FALSE, raise |-> 1],
             [enabled |-> FALSE, share |-> TRUE, raise |-> 2]}
Always == {[enabled |-> TRUE, share |-> TRUE, raise |-> 1]}
=============================================================================

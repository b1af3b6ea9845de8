------------------------------ MODULE MCEngine ------------------------------
EXTENDS Engine

CONSTANTS r1, r2, c1, c2, g1, u1, u2

\* A URL feed alone, or from another URL and with a local list.
FeedConfigs == {[url |-> u1, file |-> FALSE], [url |-> u2, file |-> TRUE]}
=============================================================================

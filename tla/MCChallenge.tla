---------------------------- MODULE MCChallenge ----------------------------
EXTENDS Challenge, TLC

CONSTANTS p1, p2, t1, t2, c1, c2

\* The first replica's clock is ahead.
Ahead == [p \in Replicas |-> IF p = p1 THEN 1 ELSE 0]

\* The second challenge competes for the cache.
Mixed == [c \in Challenges |->
    IF c = c1 THEN {[kind |-> "stateful", nojs |-> FALSE, alg |-> "sha256"],
                    [kind |-> "stateless", nojs |-> TRUE, alg |-> "argon2id"]}
    ELSE {[kind |-> "stateless", nojs |-> FALSE, alg |-> "sha256"]}]

Interchangeable == Permutations(Threads)
=============================================================================

------------------------------- MODULE MCKeys -------------------------------
EXTENDS Keys, TLC

CONSTANTS t1, t2

Interchangeable == Permutations(Threads)
=============================================================================

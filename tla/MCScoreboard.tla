---------------------------- MODULE MCScoreboard ----------------------------
EXTENDS Scoreboard, TLC

CONSTANTS s1, s2, u1, u2

WriterSymmetry == Permutations(Scorers) \cup Permutations(Unblockers)
=============================================================================

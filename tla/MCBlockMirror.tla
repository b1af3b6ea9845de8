---------------------------- MODULE MCBlockMirror ----------------------------
EXTENDS BlockMirror, TLC

CONSTANTS a1, a2, w1, w2
=============================================================================

------------------------------ MODULE MCRedis ------------------------------
(* A small fleet on one Redis: an offender's block, another IP's block that *)
(* is about to expire, and one window counter.                              *)
EXTENDS Redis, TLC

MCBlockKeys == <<"block", "block2">>

MCSeed == [hold |-> None, gen |-> None, win |-> None, block |-> None,
           ctr |-> Entry(1, 2), block2 |-> Entry(9, 1)]

\* TTLs and deadlines in caller's units, two to the server's millisecond.
MCCalls ==
    { [op |-> "Set", key |-> "block2", ttl |-> 4],
      [op |-> "Delete", key |-> "block2"],
      [op |-> "CompareAndSwap", key |-> "block2", ttl |-> 0],
      [op |-> "CompareAndDelete", key |-> "block2"],
      [op |-> "CommitBlock", key |-> "block", base |-> 4, cap |-> 6, ttl |-> 6],
      [op |-> "CommitEvent", key |-> "ctr", ttl |-> 3],
      [op |-> "CommitUnblock", key |-> "block", ttl |-> 2, genTTL |-> 20, reset |-> TRUE],
      [op |-> "IncrByDeadline", key |-> "win", delta |-> 1, deadline |-> 1],
      [op |-> "GetWithExpiry", key |-> "block2"] }

\* The hypothesis of OffensesCorrect: these calls fence their commits.
ASSUME MCFenced == CommitsAreFenced

MCSymmetry == Permutations(Insts)
=============================================================================

------------------------------ MODULE MCPebble ------------------------------
(* One offender's records and a second block key over three shard mutexes:  *)
(* a generation, a counter and the second block share one.                 *)
EXTENDS Pebble

MCBlockKeys == <<"block", "block2">>
MCShard == [hold |-> 2, gen |-> 1, ctr |-> 1, block |-> 3, block2 |-> 1]

Write(kind, k, v, t) == [op |-> kind, key |-> k, val |-> v, ttl |-> t]
Swap(o, v, t)        == [op |-> "CompareAndSwap", key |-> "block", old |-> o, val |-> v, ttl |-> t]
Block(o, g, v)       == [op |-> "CommitBlock", key |-> "block", old |-> o, guard |-> g, val |-> v,
                         base |-> 1, cap |-> 3, ttl |-> 2]

MCMenu == [p1 |-> {Block(0, 0, 4), Block(1, 1, 4), [op |-> "CommitEvent", key |-> "ctr", ttl |-> 2],
                   [op |-> "IncrByDeadline", key |-> "ctr", delta |-> 1, deadline |-> 1],
                   Swap(0, 5, 2)},
           p2 |-> {[op |-> "CommitUnblock", key |-> "block", val |-> 1, ttl |-> 1, gen |-> 2,
                    genTTL |-> 2, reset |-> TRUE],
                   Write("Set", "block", 3, 1), [op |-> "Delete", key |-> "block"],
                   [op |-> "CompareAndDelete", key |-> "block", old |-> 1],
                   [op |-> "Get", key |-> "block"], [op |-> "ScanLimit", limit |-> 1]}]

Fresh == [hold |-> None, gen |-> None, ctr |-> None, block |-> None, block2 |-> None]
MCSeeds == {[Fresh EXCEPT !.block = Entry(1, 1), !.ctr = Entry(2, 1), !.gen = Entry(1, 0),
                          !.block2 = Entry(1, 0)],
            [Fresh EXCEPT !.hold = Entry(1, 1)]}
=============================================================================

------------------------------- MODULE Store -------------------------------
(***************************************************************************)
(* What a store backend promises its callers: every operation of the Store *)
(* interface (core/store/store.go) takes effect in one instant between its *)
(* call and its return.  The effect is translated from the backend whose   *)
(* code IS such an instant, BuntDB: each operation there runs in one       *)
(* exclusive db.Update or db.View transaction (core/store/buntdb.go).      *)
(* Pebble, which has to build the instant out of shard mutexes and         *)
(* batches, is shown to implement this module (Pebble.tla).                *)
(*                                                                         *)
(* Two things keep the promise from being plain linearizability.  Time     *)
(* goes on during a call, so a key whose deadline falls inside the call    *)
(* may be judged live or expired by it.  And a written state becomes       *)
(* durable later: hist lists the states since the last durable one, its    *)
(* head, and a crash goes back to any of them (SyncPolicy EverySecond, or  *)
(* Pebble's NoSync); a store opened with Sync returns only once the        *)
(* caller's own write is durable.                                          *)
(*                                                                         *)
(* Keys and values are those of one behavioural block: the unblock hold,   *)
(* the unblock generation, the offense counter, and the two block keys a   *)
(* prefix scan walks in order.  Values are positive integers (an owner     *)
(* token, a generation, a count); Nil is Go's nil byte slice.              *)
(***************************************************************************)
EXTENDS Integers, Sequences, TLC

CONSTANTS Procs,      \* the goroutines that call the store
          Menu,       \* Menu[p] is the set of calls p may make
          BlockKeys,  \* the keys of the block: prefix, in key order
          DefaultBase, DefaultCap   \* ladder bounds for a degenerate commit

VARIABLES now,   \* the clock
          hist,  \* states of the keyspace: the durable one ... the current one
          base,  \* how many states were dropped from the head of hist
          call,  \* call[p]: the operation p has under way
          sync   \* the store was opened with Sync

vars == <<now, hist, base, call, sync>>

Nil   == 0
None  == [val |-> Nil, dl |-> -1]         \* no record under the key
Keys  == {"hold", "gen", "ctr"} \cup {BlockKeys[i] : i \in 1..Len(BlockKeys)}
Idle  == [stage |-> "idle"]
Nothing == <<>>                           \* a mutation of no key

Entry(v, d)    == [val |-> v, dl |-> d]
Stamp(ttl, at) == IF ttl > 0 THEN at + ttl ELSE 0
Live(e, t)     == e # None /\ (e.dl = 0 \/ t < e.dl)
Current        == hist[Len(hist)]

\* A comparison against an expected value: Nil demands absence.
Matches(e, old) == e.val = old

\* What an operation writes and what it returns: whether it applied, a count,
\* a block TTL, and the comparison that stopped it.
Reply(write, ok, n, ttl, refusal) ==
    [write |-> write, ans |-> [ok |-> ok, n |-> n, ttl |-> ttl, refusal |-> refusal]]
Applied(write, n)     == Reply(write, TRUE, n, 0, "none")
Refused(n, refusal)   == Reply(Nothing, FALSE, n, 0, refusal)

Bounded(n, default) == IF n <= 0 THEN default ELSE n
CounterOf(e)   == IF e.val < 0 THEN 0 ELSE e.val
Smaller(a, b)  == IF a < b THEN a ELSE b

\* The block TTL of the n-th offense, in closed form.
BackoffTTL(c, n) ==
    Smaller(Bounded(c.cap, DefaultCap), Bounded(c.base, DefaultBase) * 2^(n - 1))

\* A counter advanced by one, keeping a live counter's expiry.
Advanced(e, ttl, at) ==
    Entry(CounterOf(e) + 1, IF e = None THEN Stamp(ttl, at) ELSE e.dl)

(***************************************************************************)
(* The operations, each over the view s of the keyspace the transaction    *)
(* has (expired keys are None in it) and the instant `at' it reads the     *)
(* clock; the two that write two deadlines read it again, at `then'.       *)
(***************************************************************************)
Set(c, s, at) == Applied(c.key :> Entry(c.val, Stamp(c.ttl, at)), 0)

Delete(c, s, at) == Applied(c.key :> None, 0)

IncrByDeadline(c, s, at) ==
    LET e == s[c.key] IN
    CASE c.deadline # 0 /\ at >= c.deadline -> Refused(e.val, "none")
      [] e = None -> Applied(c.key :> Entry(c.delta, c.deadline), c.delta)
      [] OTHER    -> Applied(c.key :> Entry(e.val + c.delta, e.dl), e.val + c.delta)

CompareAndSwap(c, s, at) ==
    IF Matches(s[c.key], c.old)
    THEN Applied(c.key :> Entry(c.val, Stamp(c.ttl, at)), 0)
    ELSE Refused(0, "none")

CompareAndDelete(c, s, at) ==
    IF c.old # Nil /\ Matches(s[c.key], c.old)
    THEN Applied(c.key :> None, 0)
    ELSE Refused(0, "none")

CommitBlock(c, s, at, then) ==
    LET ctr == Advanced(s["ctr"], c.ttl, at)
        ttl == BackoffTTL(c, ctr.val)
    IN CASE s["hold"] # None               -> Refused(0, "hold")
         [] ~Matches(s["gen"], c.guard)    -> Refused(0, "generation")
         [] ~Matches(s[c.key], c.old)      -> Refused(0, "block")
         [] OTHER -> Reply("ctr" :> ctr @@ c.key :> Entry(c.val, then + ttl),
                            TRUE, ctr.val, ttl, "none")

CommitEvent(c, s, at) ==
    LET ctr == Advanced(s["ctr"], c.ttl, at) IN
    IF s["hold"] # None THEN Refused(0, "hold")
                        ELSE Applied("ctr" :> ctr, ctr.val)

CommitUnblock(c, s, at, then) ==
    Applied("hold" :> Entry(c.val, Stamp(c.ttl, at)) @@ "gen" :> Entry(c.gen, Stamp(c.genTTL, then))
              @@ c.key :> None @@ (IF c.reset THEN "ctr" :> None ELSE Nothing), 0)

Outcome(c, s, at, then) ==
    CASE c.op = "Set"              -> Set(c, s, at)
      [] c.op = "Delete"           -> Delete(c, s, at)
      [] c.op = "IncrByDeadline"   -> IncrByDeadline(c, s, at)
      [] c.op = "CompareAndSwap"   -> CompareAndSwap(c, s, at)
      [] c.op = "CompareAndDelete" -> CompareAndDelete(c, s, at)
      [] c.op = "CommitBlock"      -> CommitBlock(c, s, at, then)
      [] c.op = "CommitEvent"      -> CommitEvent(c, s, at)
      [] c.op = "CommitUnblock"    -> CommitUnblock(c, s, at, then)

IsRead(c) == c.op \in {"Get", "ScanLimit"}

\* The live block keys of s in key order, and the first `limit' of them.
LiveBlocks(s, t) == SelectSeq(BlockKeys, LAMBDA k : Live(s[k], t))

ReadAnswer(c, s, t) ==
    IF c.op = "Get" THEN IF Live(s[c.key], t) THEN s[c.key] ELSE None
    ELSE LET ks == LiveBlocks(s, t)
             n  == IF c.limit > 0 THEN Smaller(c.limit, Len(ks)) ELSE Len(ks)
         IN [kvs |-> [i \in 1..n |-> <<ks[i], s[ks[i]]>>], complete |-> n = Len(ks)]

----------------------------------------------------------------------------
Init ==
    /\ now = 0 /\ base = 0 /\ sync \in BOOLEAN
    /\ Len(hist) = 1 /\ hist[1] \in [Keys -> [val : Int, dl : Int]]
    /\ call = [p \in Procs |-> Idle]

Call(p) ==
    /\ call[p] = Idle
    /\ \E c \in Menu[p] : call' = [call EXCEPT ![p] = [stage |-> "called", c |-> c, since |-> now]]
    /\ UNCHANGED <<now, hist, base, sync>>

\* The instant of a mutation.
Do(p) ==
    /\ call[p].stage = "called" /\ ~IsRead(call[p].c)
    /\ \E at \in call[p].since..now : \E then \in at..now :
       \E gone \in SUBSET {k \in Keys : Live(Current[k], call[p].since) /\ ~Live(Current[k], now)} :
         LET s == [k \in Keys |-> IF Live(Current[k], call[p].since) /\ k \notin gone
                                  THEN Current[k] ELSE None]
             o == Outcome(call[p].c, s, at, then)
         IN /\ hist' = IF o.write = Nothing THEN hist ELSE Append(hist, o.write @@ Current)
            /\ call' = [call EXCEPT ![p] =
                  [stage |-> "done", ans |-> o.ans,
                   mark |-> IF o.write = Nothing THEN 0 ELSE base + Len(hist) + 1]]
    /\ UNCHANGED <<now, base, sync>>

\* A read sees the keyspace of one instant and judges expiry at a later one.
See(p) ==
    /\ call[p].stage = "called" /\ IsRead(call[p].c)
    /\ call' = [call EXCEPT ![p] = [stage |-> "seen", c |-> call[p].c, seen |-> Current]]
    /\ UNCHANGED <<now, hist, base, sync>>

Judge(p) ==
    /\ call[p].stage = "seen"
    /\ call' = [call EXCEPT ![p] = [stage |-> "done", mark |-> 0,
                                    ans |-> ReadAnswer(call[p].c, call[p].seen, now)]]
    /\ UNCHANGED <<now, hist, base, sync>>

Return(p) ==
    /\ call[p].stage = "done"
    /\ sync => call[p].mark <= base + 1
    /\ call' = [call EXCEPT ![p] = Idle]
    /\ UNCHANGED <<now, hist, base, sync>>

\* An expired record may be collected at any time; nobody can tell.
Expire(k) ==
    /\ ~Live(Current[k], now)
    /\ hist' = Append(hist, k :> None @@ Current)
    /\ UNCHANGED <<now, base, call, sync>>

Flush ==
    /\ \E i \in 2..Len(hist) : /\ hist' = SubSeq(hist, i, Len(hist))
                               /\ base' = base + i - 1
    /\ UNCHANGED <<now, call, sync>>

Tick == now' = now + 1 /\ UNCHANGED <<hist, base, call, sync>>

Crash ==
    /\ \E i \in 1..Len(hist) : hist' = <<hist[i]>>
    /\ base' = 0
    /\ call' = [p \in Procs |-> Idle]
    /\ UNCHANGED <<now, sync>>

Next ==
    \/ \E p \in Procs : Call(p) \/ Do(p) \/ See(p) \/ Judge(p) \/ Return(p)
    \/ \E k \in Keys : Expire(k)
    \/ Flush \/ Tick \/ Crash

Spec == Init /\ [][Next]_vars
=============================================================================

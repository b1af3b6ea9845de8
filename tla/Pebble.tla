------------------------------- MODULE Pebble -------------------------------
(***************************************************************************)
(* The Pebble backend (core/store/pebble.go).  Pebble is an LSM engine     *)
(* without TTLs, compare-and-swap or atomic increments, so the adapter     *)
(* makes its operations out of                                             *)
(*   - records prefixed with an absolute deadline, judged when read;       *)
(*   - shard mutexes, one per key (lock) or several (lockMany);            *)
(*   - reads of one key at a time under those mutexes;                     *)
(*   - one batch per mutation, visible as soon as it is in the WAL and     *)
(*     durable when the WAL is synced;                                     *)
(*   - a janitor that deletes what has expired.                            *)
(* Every mutex acquisition, every read and every commit is a step here, so *)
(* the steps of two calls, of the janitor and of the clock interleave      *)
(* freely, and a crash may fall between any two of them.                   *)
(*                                                                         *)
(* Pebble itself (batches, WAL, iterators as snapshots) is external.       *)
(***************************************************************************)
EXTENDS Integers, Sequences, FiniteSets, TLC, SequencesExt

CONSTANTS Procs, Menu, BlockKeys, DefaultBase, DefaultCap,   \* as in Store
          Shard,        \* Shard[k]: the index of the mutex key k hashes to
          Seeds,        \* the keyspaces the database directory may hold at start
          MaxNow, MaxCalls, MaxRestarts    \* bounds

VARIABLES now,
          log,       \* the keyspace after each commit: the durable one first, then
                     \* one per batch that is only in the WAL; readers see the last
          flushed,   \* how many batches have been made durable since the start
          owner,     \* owner[i]: who holds shard mutex i
          op,        \* op[p]: p's operation and how far it is
          todo,      \* the expired keys the janitor still has to re-check
          sync,      \* PebbleOptions.Sync
          calls, restarts   \* used up of the bounds

vars == <<now, log, flushed, owner, op, todo, sync, calls, restarts>>

Nil     == 0
None    == [val |-> Nil, dl |-> -1]
Keys    == DOMAIN Shard
Free    == "free"
Idle    == [stage |-> "idle"]
Nothing == <<>>

mem         == log[Len(log)]
Entry(v, d) == [val |-> v, dl |-> d]

\* splitExpiry and the comparison every reader makes: deadline 0 is permanent.
Expired(e, t) == e.dl # 0 /\ e.dl <= t
Present(e, t) == e # None /\ ~Expired(e, t)

expiryDeadline(ttl, t) == IF ttl > 0 THEN t + ttl ELSE 0

\* BackoffBounds and the doubling loop of blockBackoffTTL.
Bounds(c) == [base |-> IF c.base <= 0 THEN DefaultBase ELSE c.base,
              cap  |-> IF c.cap <= 0 THEN DefaultCap ELSE c.cap]

blockBackoffTTL(c, offenses) ==
    LET b   == Bounds(c)
        ttl[n \in 1..offenses] ==
            IF n = 1 THEN b.base
            ELSE IF ttl[n - 1] >= b.cap THEN ttl[n - 1]
            ELSE IF ttl[n - 1] > b.cap \div 2 THEN b.cap ELSE 2 * ttl[n - 1]
    IN IF ttl[offenses] > b.cap THEN b.cap ELSE ttl[offenses]

counterValue(e) == IF e.val < 0 THEN 0 ELSE e.val

----------------------------------------------------------------------------
(* The keys an operation locks, in the order the code lists them, and the  *)
(* keys it reads, in the order it reads them.                              *)

LockKeys(c) ==
    CASE c.op = "CommitBlock"   -> <<c.key, "ctr", "gen", "hold">>
      [] c.op = "CommitEvent"   -> <<"ctr", "hold">>
      [] c.op = "CommitUnblock" -> <<"hold", "gen", c.key, "ctr">>
      [] OTHER                  -> <<c.key>>

\* Mutant: shards locked in the order the keys are listed.
lockManyAsListed(ks) ==
    LET at(i) == Shard[ks[i]]
        new(i) == \A j \in 1..(i - 1) : at(j) # at(i)
        keep   == SelectSeq([i \in 1..Len(ks) |-> i], LAMBDA i : new(i))
    IN [n \in 1..Len(keep) |-> at(keep[n])]

\* lockMany: the shard indexes sorted and compacted.
lockMany(ks) ==
    SetToSortSeq({Shard[ks[i]] : i \in 1..Len(ks)}, LAMBDA a, b : a < b)

ReadKeys(c) ==
    CASE c.op \in {"IncrByDeadline", "CompareAndSwap", "CompareAndDelete"} -> <<c.key>>
      [] c.op = "CommitBlock" -> <<"hold", "gen", c.key, "ctr">>
      [] c.op = "CommitEvent" -> <<"hold", "ctr">>
      [] OTHER                -> <<>>

\* The early returns: what the value just read makes of the operation.
Equal(e, old) == IF old = Nil THEN e = None ELSE e # None /\ e.val = old

Refusal(c, k, e, t) ==
    CASE k = "hold" /\ c.op \in {"CommitBlock", "CommitEvent"} /\ e # None       -> "hold"
      [] c.op = "CommitBlock" /\ k = "gen" /\ ~Equal(e, c.guard)               -> "generation"
      [] c.op = "CommitBlock" /\ k = c.key /\ ~Equal(e, c.old)                 -> "block"
      [] c.op = "CompareAndSwap" /\ ~Equal(e, c.old)                           -> "none"
      [] c.op = "CompareAndDelete" /\ (c.old = Nil \/ ~Equal(e, c.old))        -> "none"
      [] c.op = "IncrByDeadline" /\ c.deadline # 0 /\ t >= c.deadline          -> "none"
      [] OTHER                                                                 -> "no"

\* The counter CommitBlock and CommitEvent write back: a live one keeps its
\* expiry, a fresh one is stamped with the commit's TTL.
Count(c, e, t) ==
    IF e = None THEN Entry(1, expiryDeadline(c.ttl, t)) ELSE Entry(counterValue(e) + 1, e.dl)

\* The batch of an operation none of whose comparisons failed; one that stamps
\* two deadlines reads the clock twice, at t and at u.
Batch(c, seen, t, u) ==
    CASE c.op = "Set"              -> c.key :> Entry(c.val, expiryDeadline(c.ttl, t))
      [] c.op = "Delete"           -> c.key :> None
      [] c.op = "CompareAndSwap"   -> c.key :> Entry(c.val, expiryDeadline(c.ttl, t))
      [] c.op = "CompareAndDelete" -> c.key :> None
      [] c.op = "IncrByDeadline"   ->
             c.key :> (IF seen[c.key] = None THEN Entry(c.delta, c.deadline)
                       ELSE Entry(seen[c.key].val + c.delta, seen[c.key].dl))
      [] c.op = "CommitEvent"      -> "ctr" :> Count(c, seen["ctr"], t)
      [] c.op = "CommitBlock"      ->
             LET n == Count(c, seen["ctr"], t) IN
             "ctr" :> n @@ c.key :> Entry(c.val, expiryDeadline(blockBackoffTTL(c, n.val), u))
      [] c.op = "CommitUnblock"    ->
             "hold" :> Entry(c.val, expiryDeadline(c.ttl, t))
               @@ "gen" :> Entry(c.gen, expiryDeadline(c.genTTL, u))
               @@ c.key :> None @@ (IF c.reset THEN "ctr" :> None ELSE Nothing)

Result(ok, n, ttl, refusal) == [ok |-> ok, n |-> n, ttl |-> ttl, refusal |-> refusal]

\* What a committed operation returns.
Committed(c, b) ==
    CASE c.op = "CommitBlock"      -> Result(TRUE, b["ctr"].val, blockBackoffTTL(c, b["ctr"].val), "none")
      [] c.op = "CommitEvent"      -> Result(TRUE, b["ctr"].val, 0, "none")
      [] c.op = "IncrByDeadline"   -> Result(TRUE, b[c.key].val, 0, "none")
      [] OTHER                     -> Result(TRUE, 0, 0, "none")

----------------------------------------------------------------------------
At(p, stage) == op[p].stage = stage
Goto(p, rec) == op' = [op EXCEPT ![p] = rec]
Held(p)      == {i \in DOMAIN owner : owner[i] = p}

Init ==
    /\ now = 0 /\ sync \in BOOLEAN
    /\ \E d \in Seeds : log = <<d>>
    /\ flushed = 0
    /\ owner = [i \in {Shard[k] : k \in Keys} |-> Free]
    /\ op = [p \in Procs |-> Idle]
    /\ todo = <<>>
    /\ calls = [p \in Procs |-> 0] /\ restarts = 0

\* A caller enters the store.  A mutation goes for its mutexes, a read does not.
Call(p) ==
    /\ At(p, "idle") /\ calls[p] < MaxCalls
    /\ \E c \in Menu[p] :
         Goto(p, IF c.op \in {"Get", "ScanLimit"}
                 THEN [stage |-> "open", c |-> c, since |-> now]
                 ELSE [stage |-> "lock", c |-> c, since |-> now, want |-> lockMany(LockKeys(c))])
    /\ calls' = [calls EXCEPT ![p] = @ + 1]
    /\ UNCHANGED <<now, log, flushed, owner, todo, sync, restarts>>

\* One mutex of lockMany, or the only one of lock.
Lock(p) ==
    /\ At(p, "lock") /\ owner[Head(op[p].want)] = Free
    /\ owner' = [owner EXCEPT ![Head(op[p].want)] = p]
    /\ Goto(p, IF Len(op[p].want) > 1 THEN [op[p] EXCEPT !.want = Tail(@)]
               ELSE [stage |-> "read", c |-> op[p].c, since |-> op[p].since,
                     seen |-> Nothing, want |-> ReadKeys(op[p].c)])
    /\ UNCHANGED <<now, log, flushed, todo, sync, calls, restarts>>

\* One db.Get under the mutexes, judged against the clock, and the early
\* return its result may cause.
Read(p) ==
    /\ At(p, "read") /\ op[p].want # <<>>
    /\ LET k == Head(op[p].want)
           e == IF Present(mem[k], now) THEN mem[k] ELSE None
           r == Refusal(op[p].c, k, e, now)
       IN Goto(p, IF r = "no"
                  THEN [op[p] EXCEPT !.want = Tail(@), !.seen = (k :> e) @@ @]
                  ELSE [stage |-> "end", mark |-> 0,
                        ans |-> Result(FALSE, IF op[p].c.op = "IncrByDeadline" THEN e.val ELSE 0, 0, r)])
    /\ UNCHANGED <<now, log, flushed, owner, todo, sync, calls, restarts>>

\* The batch is built, its deadlines stamped: the first of them,
Prepare(p) ==
    /\ At(p, "read") /\ op[p].want = <<>>
    /\ LET c == op[p].c IN
       Goto(p, IF c.op \in {"CommitBlock", "CommitUnblock"}
               THEN [stage |-> "stamp", c |-> c, since |-> op[p].since, seen |-> op[p].seen, at |-> now]
               ELSE [stage |-> "commit", c |-> c, since |-> op[p].since,
                     batch |-> Batch(c, op[p].seen, now, now)])
    /\ UNCHANGED <<now, log, flushed, owner, todo, sync, calls, restarts>>

\* and the second.
Restamp(p) ==
    /\ At(p, "stamp")
    /\ Goto(p, [stage |-> "commit", c |-> op[p].c, since |-> op[p].since,
                batch |-> Batch(op[p].c, op[p].seen, op[p].at, now)])
    /\ UNCHANGED <<now, log, flushed, owner, todo, sync, calls, restarts>>

\* batch.Commit: the batch is in the WAL and visible to every reader.
Commit(p) ==
    /\ At(p, "commit")
    /\ log' = Append(log, op[p].batch @@ mem)
    /\ Goto(p, [stage |-> "end", mark |-> flushed + Len(log),
                ans |-> Committed(op[p].c, op[p].batch)])
    /\ UNCHANGED <<now, flushed, owner, todo, sync, calls, restarts>>

\* Get and NewIter read one version of the keyspace without any mutex ...
Open(p) ==
    /\ At(p, "open")
    /\ Goto(p, [stage |-> "iter", c |-> op[p].c, view |-> mem])
    /\ UNCHANGED <<now, log, flushed, owner, todo, sync, calls, restarts>>

\* ... and judge its records against the clock afterwards.
Iterate(p) ==
    /\ At(p, "iter")
    /\ LET c    == op[p].c
           live == SelectSeq(BlockKeys, LAMBDA k : Present(op[p].view[k], now))
           out  == IF c.op = "ScanLimit" /\ c.limit > 0 /\ Len(live) > c.limit
                   THEN SubSeq(live, 1, c.limit) ELSE live
       IN Goto(p, [stage |-> "end", mark |-> 0,
                   ans |-> IF c.op = "Get"
                           THEN IF Present(op[p].view[c.key], now) THEN op[p].view[c.key] ELSE None
                           ELSE [kvs |-> [i \in 1..Len(out) |-> <<out[i], op[p].view[out[i]]>>],
                                 complete |-> Len(out) = Len(live)]])
    /\ UNCHANGED <<now, log, flushed, owner, todo, sync, calls, restarts>>

\* The call returns: with Sync, after its batch is on disk; the deferred
\* unlock runs last.
Return(p) ==
    /\ At(p, "end")
    /\ sync => op[p].mark <= flushed
    /\ owner' = [i \in DOMAIN owner |-> IF i \in Held(p) THEN Free ELSE owner[i]]
    /\ Goto(p, Idle)
    /\ UNCHANGED <<now, log, flushed, todo, sync, calls, restarts>>

----------------------------------------------------------------------------
(* The janitor.                                                            *)

\* The iterator pass of sweepExpired collects candidates without any mutex.
SweepScan ==
    /\ todo = <<>>
    /\ todo' = SetToSeq({k \in Keys : mem[k] # None /\ Expired(mem[k], now)})
    /\ todo' # <<>>
    /\ UNCHANGED <<now, log, flushed, owner, op, sync, calls, restarts>>

\* Mutant: the janitor trusts its snapshot.
StillExpiredUnchecked(k) == TRUE

\* Does the record still have to go, now that its mutex is held?
StillExpired(k) == ~Present(mem[k], now)

\* One candidate, under its mutex: re-read, and deleted without sync.
SweepOne ==
    /\ todo # <<>> /\ owner[Shard[Head(todo)]] = Free
    /\ todo' = Tail(todo)
    /\ IF StillExpired(Head(todo))
       THEN log' = Append(log, [mem EXCEPT ![Head(todo)] = None])
       ELSE UNCHANGED log
    /\ UNCHANGED <<now, flushed, owner, op, sync, calls, restarts>>

----------------------------------------------------------------------------
(* The engine underneath and the process around it.                        *)

\* The WAL is synced: by a commit that waits for it, or by Pebble itself.
Flush ==
    /\ Len(log) > 1
    /\ log' = <<mem>> /\ flushed' = flushed + Len(log) - 1
    /\ UNCHANGED <<now, owner, op, todo, sync, calls, restarts>>

Tick ==
    /\ now < MaxNow
    /\ now' = now + 1
    /\ UNCHANGED <<log, flushed, owner, op, todo, sync, calls, restarts>>

Reopen(d) ==
    /\ restarts < MaxRestarts /\ restarts' = restarts + 1
    /\ log' = <<d>> /\ flushed' = 0
    /\ owner' = [i \in DOMAIN owner |-> Free]
    /\ op' = [p \in Procs |-> Idle]
    /\ todo' = <<>>
    /\ UNCHANGED <<now, sync, calls>>

\* The process or the host dies; any prefix of the unsynced WAL survives.
Crash == \E n \in 1..Len(log) : Reopen(log[n])

\* Close, once its callers are gone, waits for the janitor's sweep and closes
\* the engine, which syncs the WAL; the next start opens the same directory.
Close ==
    /\ \A p \in Procs : At(p, "idle")
    /\ todo = <<>>
    /\ Reopen(mem)

Step(p) == Lock(p) \/ Read(p) \/ Prepare(p) \/ Restamp(p) \/ Commit(p) \/ Open(p) \/ Iterate(p) \/ Return(p)

Next ==
    \/ \E p \in Procs : Call(p) \/ Step(p)
    \/ SweepScan \/ SweepOne
    \/ Flush \/ Tick \/ Crash \/ Close

(***************************************************************************)
(* Fairness: a goroutine inside the store keeps running, the WAL is synced *)
(* when asked to be, and a Go mutex in starvation mode is handed to its    *)
(* longest waiter, so a goroutine cannot be passed over for ever.          *)
(***************************************************************************)
Fairness ==
    /\ \A p \in Procs : WF_vars(Step(p)) /\ SF_vars(Lock(p))
    /\ WF_vars(Flush) /\ WF_vars(SweepOne)

Spec == Init /\ [][Next]_vars /\ Fairness

----------------------------------------------------------------------------
(* Refinement.                                                             *)

AbstractCall(p) ==
    CASE op[p].stage = "idle" -> Idle
      [] op[p].stage \in {"lock", "read", "stamp", "commit", "open"} ->
             [stage |-> "called", c |-> op[p].c, since |-> op[p].since]
      [] op[p].stage = "iter" -> [stage |-> "seen", c |-> op[p].c, seen |-> op[p].view]
      [] op[p].stage = "end"  ->
             [stage |-> "done", ans |-> op[p].ans,
              mark |-> IF op[p].mark = 0 THEN 0 ELSE op[p].mark + 1]

Abstract == INSTANCE Store WITH
    hist <- log,
    base <- flushed,
    call <- [p \in Procs |-> AbstractCall(p)]

\* Every operation of the Pebble backend takes effect in one instant between
\* its call and its return, whatever the interleaving of mutexes, reads,
\* commits, janitor sweeps, clock and crashes: no lost update, no torn commit,
\* no refused commit with an effect, no live record collected, no synced write
\* lost (Set, IncrByDeadline, CompareAndSwap, CommitBlock and the rest).
Refines == Abstract!Spec

\* Every call of the store returns: the mutexes of lockMany are taken in one
\* global order, and twice-listed shards once (lockMany, pebble.go).
EveryCallEnds == \A p \in Procs : op[p].stage # "idle" ~> op[p].stage = "idle"
=============================================================================

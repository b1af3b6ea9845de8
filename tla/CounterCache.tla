---------------------------- MODULE CounterCache ----------------------------
(***************************************************************************)
(* core/store/countercache.go: the in-process counters in front of         *)
(* Store.IncrByDeadline.  A request bumps a local entry and answers at     *)
(* once; drain goroutines push the accumulated deltas to the shared store  *)
(* in the background and merge the shared total back.                      *)
(*                                                                         *)
(* Every critical section of c.mu is one action, every store round is one  *)
(* action, and a goroutine's local variables live in `hand' and `claim'    *)
(* between them.  Go maps are total functions whose zero value means       *)
(* absent, as a Go map read of a missing key returns the zero entry.       *)
(***************************************************************************)
EXTENDS Integers, Sequences, FiniteSets

CONSTANTS
    Keys,               \* counter keys
    ForgetKeys,         \* those callers forget (escalation, not issuance limits)
    PeerKeys,           \* those another replica on the same store counts too
    NoKey,              \* a goroutine that holds no key
    Goroutines,         \* identities for drain goroutines (more than the cap)
    TTL,                \* window length in clock ticks (callers pass one constant)
    SweepGap,           \* pacing of the room sweep in ticks (one second in the code)
    MaxCounterEntries, MaxFlushQueue, MaxFlushWorkers,
    Rows, Cells, Hash,  \* overflow sketch: Hash[r][k] is the cell of key k in row r
    Lag,                \* how stale a clock reading taken before c.mu.Lock may be
    StoreErrors,        \* how a store round may fail, a subset of {"lost", "applied"}
    MaxTime, MaxOps     \* bounds of the model: clock, operations started

ASSUME KeysAssumption == NoKey \notin Keys /\ ForgetKeys \subseteq Keys /\ PeerKeys \subseteq Keys

ASSUME TimeAssumption ==
    /\ TTL \in Nat \ {0} /\ SweepGap \in Nat /\ Lag \in Nat /\ MaxTime \in Nat
    /\ MaxOps \in Nat

ASSUME BoundsAssumption ==
    /\ MaxCounterEntries \in Nat \ {0}
    /\ MaxFlushQueue \in Nat \ {0}
    /\ MaxFlushWorkers \in Nat \ {0}

\* Finitely many keys have been seen, and finitely many goroutines exist.
ASSUME FiniteAssumption == IsFiniteSet(Keys) /\ IsFiniteSet(Goroutines)

ASSUME SketchAssumption == Hash \in [Rows -> [Keys -> Cells]]

VARIABLES
    now,        \* the process clock, shared with the store
    m,          \* c.m
    dirty,      \* the keys of c.dirty
    delta,      \* dirtyEntry.delta, 0 for a key that is not dirty
    deadline,   \* dirtyEntry.deadline
    del,        \* the keys whose dirtyEntry has del set
    queue,      \* c.queue
    workers,    \* c.workers
    nextSweep,  \* c.nextRoomSweep
    sketch,     \* c.overflow
    pc,         \* where each drain goroutine is
    hand,       \* the key a goroutine holds in flushKey
    claim,      \* flushKey's delta and deadline, flushIncr's shared
    store,      \* the shared counters
    syncing,    \* ForgetSync calls between Forget and the store delete
    flush,      \* where the one shutdown Flush is
    ops,        \* operations started so far, bounds the model
    counted,    \* ghost: events counted in the current local window of a key
    acked,      \* ghost: those of them the store acknowledged
    opened,     \* ghost: clock readings that opened a window of a key
    shed,       \* ghost: the cell each key would have in a sketch of its own
    reset,      \* ghost: keys whose ForgetSync succeeded and that nothing touched since
    foreign,    \* ghost: keys whose store record may hold counts that are not this window's
    uncleaned   \* ghost: keys whose last store delete was a drainer's, and failed

vars == <<now, m, dirty, delta, deadline, del, queue, workers, nextSweep, sketch,
          pc, hand, claim, store, syncing, flush, ops, counted, acked, opened,
          shed, reset, foreign, uncleaned>>

cacheVars == <<m, nextSweep, sketch>>
dirtyVars == <<dirty, delta, deadline, del, queue>>
drainVars == <<workers, pc, hand, claim>>
ghostVars == <<counted, acked, opened, shed>>

-----------------------------------------------------------------------------

NoEntry == [n |-> 0, expires |-> 0, pending |-> 0]
NoCell  == [n |-> 0, expires |-> 0]
NoClaim == [delta |-> 0, deadline |-> 0, shared |-> 0]

CounterEntry == [n : Nat, expires : Nat, pending : Nat]
Cell  == [n : Nat, expires : Nat]
Claim == [delta : Nat, deadline : Nat, shared : Nat]

PC == {"off", "loop", "top", "delete", "release", "push", "merge", "failed"}

Max2(a, b) == IF a >= b THEN a ELSE b

Cached(k) == m[k].expires > 0
Live(k)   == now < m[k].expires
StoreLive(k) == store[k].n > 0 /\ now < store[k].expires

Owns(g, k) == pc[g] \notin {"off", "loop"} /\ hand[g] = k

(* Types of the variables.                                                 *)
TypeOK ==
    /\ now \in 0..MaxTime
    /\ m \in [Keys -> CounterEntry]
    /\ dirty \in SUBSET Keys
    /\ delta \in [Keys -> Nat]
    /\ deadline \in [Keys -> Nat]
    /\ del \in SUBSET Keys
    /\ queue \in Seq(Keys)
    /\ workers \in Nat
    /\ nextSweep \in Nat
    /\ sketch \in [Rows -> [Cells -> Cell]]
    /\ pc \in [Goroutines -> PC]
    /\ hand \in [Goroutines -> Keys \cup {NoKey}]
    /\ claim \in [Goroutines -> Claim]
    /\ store \in [Keys -> Cell]
    /\ syncing \in SUBSET Keys
    /\ flush \in {"no", "waiting", "counting", "ok", "left", "ctx"}
    /\ ops \in 0..MaxOps
    /\ counted \in [Keys -> Nat]
    /\ acked \in [Keys -> Nat]
    /\ opened \in [Keys -> SUBSET Nat]
    /\ shed \in [Keys -> Cell]
    /\ reset \in SUBSET Keys
    /\ foreign \in SUBSET Keys
    /\ uncleaned \in SUBSET Keys

Init ==
    /\ now = 0
    /\ m = [k \in Keys |-> NoEntry]
    /\ dirty = {} /\ del = {}
    /\ delta = [k \in Keys |-> 0]
    /\ deadline = [k \in Keys |-> 0]
    /\ queue = <<>>
    /\ workers = 0
    /\ nextSweep = 0
    /\ sketch = [r \in Rows |-> [c \in Cells |-> NoCell]]
    /\ pc = [g \in Goroutines |-> "off"]
    /\ hand = [g \in Goroutines |-> NoKey]
    /\ claim = [g \in Goroutines |-> NoClaim]
    /\ store = [k \in Keys |-> NoCell]
    /\ syncing = {}
    /\ flush = "no"
    /\ ops = 0
    /\ counted = [k \in Keys |-> 0]
    /\ acked = [k \in Keys |-> 0]
    /\ opened = [k \in Keys |-> {}]
    /\ shed = [k \in Keys |-> NoCell]
    /\ reset = {} /\ foreign = {} /\ uncleaned = {}

-----------------------------------------------------------------------------
(* Starting drain goroutines: c.workers++ under the lock, c.Go(c.drain) after it. *)

\* Start the goroutines of G; the others keep their pc from base.
Spawned(base, G) == [g \in Goroutines |-> IF g \in G THEN "loop" ELSE base[g]]

\* One new drainer when below the cap, none otherwise.
SpawnOne(base) ==
    IF workers < MaxFlushWorkers
    THEN \E g \in Goroutines :
            /\ pc[g] = "off"
            /\ workers' = workers + 1
            /\ pc' = Spawned(base, {g})
    ELSE /\ workers' = workers
         /\ pc' = base

-----------------------------------------------------------------------------
(* Marking work: markDirtyLocked, foldOpLocked, releaseLocked.             *)

\* Faulty variant: an old window's delta is relabelled with the fresh deadline.
FoldedIntoFreshWindow(k, dl) == delta[k] + 1

\* foldOpLocked, the delta of an existing dirty entry after one more increment
\* of the window that ends at dl: work of an older window is replaced.
FoldedDelta(k, dl) == IF deadline[k] # dl THEN 1 ELSE delta[k] + 1

\* A key that is not dirty gets an entry unless the queue is full.
HasQueueRoom == Len(queue) < MaxFlushQueue

\* markDirtyLocked(key, e.expires, false) after the bump that made k's entry e:
\* fold, enqueue with the whole parked delta, or leave it parked.  base is c.m
\* before the bump, already swept where the bump had to make room.
MarkIncr(base, k, e) ==
    \/ /\ k \in dirty
       /\ delta' = [delta EXCEPT ![k] = FoldedDelta(k, e.expires)]
       /\ deadline' = [deadline EXCEPT ![k] = e.expires]
       /\ m' = [base EXCEPT ![k] = e]
       /\ UNCHANGED <<dirty, del, queue, workers, pc>>
    \/ /\ k \notin dirty /\ ~HasQueueRoom
       /\ m' = [base EXCEPT ![k] = e]
       /\ UNCHANGED <<dirtyVars, workers, pc>>
    \/ /\ k \notin dirty /\ HasQueueRoom
       /\ dirty' = dirty \cup {k}
       /\ delta' = [delta EXCEPT ![k] = e.pending]
       /\ deadline' = [deadline EXCEPT ![k] = e.expires]
       /\ m' = [base EXCEPT ![k] = [e EXCEPT !.pending = 0]]
       /\ queue' = Append(queue, k)
       /\ SpawnOne(pc)
       /\ UNCHANGED del

\* Faulty variant: a Forget of a key in flight only clears the delta.
MarkDeleteUnowned(k) ==
    \/ /\ k \in dirty
       /\ delta' = [delta EXCEPT ![k] = 0]
       /\ UNCHANGED <<dirty, del, deadline, queue, workers, pc, foreign>>
    \/ /\ k \notin dirty /\ ~HasQueueRoom
       /\ foreign' = foreign \cup {k}
       /\ UNCHANGED <<dirtyVars, workers, pc>>
    \/ /\ k \notin dirty /\ HasQueueRoom
       /\ dirty' = dirty \cup {k}
       /\ del' = del \cup {k}
       /\ delta' = [delta EXCEPT ![k] = 0]
       /\ deadline' = [deadline EXCEPT ![k] = 0]
       /\ queue' = Append(queue, k)
       /\ SpawnOne(pc)
       /\ UNCHANGED foreign

\* markDirtyLocked(key, 0, true): a Forget supersedes accumulated increments.
MarkDelete(k) ==
    \/ /\ k \in dirty
       /\ del' = del \cup {k}
       /\ delta' = [delta EXCEPT ![k] = 0]
       /\ UNCHANGED <<dirty, deadline, queue, workers, pc, foreign>>
    \/ /\ k \notin dirty /\ ~HasQueueRoom
       /\ foreign' = foreign \cup {k}
       /\ UNCHANGED <<dirtyVars, workers, pc>>
    \/ /\ k \notin dirty /\ HasQueueRoom
       /\ dirty' = dirty \cup {k}
       /\ del' = del \cup {k}
       /\ delta' = [delta EXCEPT ![k] = 0]
       /\ deadline' = [deadline EXCEPT ![k] = 0]
       /\ queue' = Append(queue, k)
       /\ SpawnOne(pc)
       /\ UNCHANGED foreign

ReleaseLocked(g, k) ==
    LET base == [pc EXCEPT ![g] = "loop"] IN
    \/ /\ k \notin dirty
       /\ pc' = base
       /\ UNCHANGED <<dirtyVars, workers>>
    \/ /\ k \in dirty /\ delta[k] = 0 /\ k \notin del
       /\ dirty' = dirty \ {k}
       /\ deadline' = [deadline EXCEPT ![k] = 0]
       /\ pc' = base
       /\ UNCHANGED <<delta, del, queue, workers>>
    \/ /\ k \in dirty /\ (delta[k] > 0 \/ k \in del)
       /\ queue' = Append(queue, k)
       /\ SpawnOne(base)
       /\ UNCHANGED <<dirty, delta, deadline, del>>

-----------------------------------------------------------------------------
(* Room: makeCounterRoomLocked and the overflow sketch.                    *)

CachedKeys == {k \in Keys : Cached(k)}
HasRoom == Cardinality(CachedKeys) < MaxCounterEntries

\* What the paced sweep evicts: clean totals and lapsed entries nobody flushes.
Evictable == {k \in CachedKeys \ dirty : m[k].pending = 0 \/ now >= m[k].expires}
Swept == [k \in Keys |-> IF k \in Evictable THEN NoEntry ELSE m[k]]
SweepMakesRoom == Cardinality(CachedKeys \ Evictable) < MaxCounterEntries

\* An empty or lapsed sketch cell counts as zero for a bump at time t.
Lapsed(cell, t) == cell.n = 0 \/ t >= cell.expires

BumpCell(cell, t) ==
    IF Lapsed(cell, t) THEN [n |-> 1, expires |-> t + TTL]
    ELSE [n |-> cell.n + 1, expires |-> Max2(cell.expires, t + TTL)]

\* incrOverflowLocked: one cell per row; the request is answered the minimum.
BumpSketch(k, t) ==
    [r \in Rows |-> [sketch[r] EXCEPT ![Hash[r][k]] = BumpCell(@, t)]]

\* overflowCountLocked > 0: every row's cell is live.
MaybeShed(k, t) == \A r \in Rows : ~Lapsed(sketch[r][Hash[r][k]], t)

-----------------------------------------------------------------------------
(* Incr                                                                    *)

\* A request read the clock as t before it got c.mu.
ClockReading(t) == t \in 0..now /\ t + Lag >= now

\* One more event in the live window.
IncrLive(k, t) ==
    /\ Cached(k) /\ t < m[k].expires
    /\ MarkIncr(m, k, [m[k] EXCEPT !.n = @ + 1,
                                   !.pending = IF k \in dirty THEN @ ELSE @ + 1])
    /\ counted' = [counted EXCEPT ![k] = @ + 1]
    /\ UNCHANGED <<nextSweep, sketch, acked, opened, shed, foreign>>

\* The first event of a window.  Clock readings are nanoseconds: no two windows
\* of one key open on the same reading.
OpenWindow(base, k, t) ==
    /\ t \notin opened[k]
    /\ opened' = [opened EXCEPT ![k] = @ \cup {t}]
    /\ counted' = [counted EXCEPT ![k] = 1]
    /\ acked' = [acked EXCEPT ![k] = 0]
    /\ MarkIncr(base, k, [n |-> 1, expires |-> t + TTL,
                          pending |-> IF k \in dirty THEN 0 ELSE 1])
    /\ UNCHANGED <<sketch, shed>>

\* A lapsed entry's slot is reused and a new key takes a free slot.
IncrOpens(k, t) ==
    /\ IF Cached(k) THEN t >= m[k].expires ELSE HasRoom
    /\ OpenWindow(m, k, t)
    /\ UNCHANGED <<nextSweep, foreign>>

\* At capacity with the sweep due, and the sweep frees a slot for k.  An evicted
\* key keeps its store record, which a later window of it will merge.
IncrSweeps(k, t) ==
    /\ ~Cached(k) /\ ~HasRoom /\ now >= nextSweep /\ SweepMakesRoom
    /\ nextSweep' = now + SweepGap
    /\ OpenWindow(Swept, k, t)
    /\ foreign' = foreign \cup Evictable

\* At capacity with the sweep paced out or fruitless: count in the sketch.
IncrSheds(k, t) ==
    /\ ~Cached(k) /\ ~HasRoom
    /\ \/ /\ now < nextSweep
          /\ UNCHANGED <<m, nextSweep, foreign>>
       \/ /\ now >= nextSweep /\ ~SweepMakesRoom
          /\ nextSweep' = now + SweepGap
          /\ m' = Swept
          /\ foreign' = foreign \cup Evictable
    /\ sketch' = BumpSketch(k, t)
    /\ shed' = [shed EXCEPT ![k] = IF Lapsed(@, now)
                                   THEN [n |-> 1, expires |-> t + TTL]
                                   ELSE [n |-> @.n + 1, expires |-> Max2(@.expires, t + TTL)]]
    /\ UNCHANGED <<dirtyVars, workers, pc, counted, acked, opened>>

Incr(k, t) ==
    /\ flush = "no" /\ ops < MaxOps
    /\ ClockReading(t)
    /\ IncrLive(k, t) \/ IncrOpens(k, t) \/ IncrSweeps(k, t) \/ IncrSheds(k, t)
    /\ ops' = ops + 1
    /\ reset' = reset \ {k}
    /\ UNCHANGED <<now, hand, claim, store, syncing, flush, uncleaned>>

-----------------------------------------------------------------------------
(* Forget and ForgetSync                                                   *)

ForgetLocal(k) ==
    /\ flush = "no" /\ ops < MaxOps
    /\ m' = [m EXCEPT ![k] = NoEntry]
    /\ MarkDelete(k)
    /\ ops' = ops + 1
    /\ reset' = reset \ {k}
    /\ UNCHANGED <<now, nextSweep, sketch, hand, claim, store, flush, ghostVars, uncleaned>>

Forget(k) == ForgetLocal(k) /\ UNCHANGED syncing

\* ForgetSync first forgets locally ...
ForgetSyncStart(k) ==
    /\ k \notin syncing
    /\ ForgetLocal(k)
    /\ syncing' = syncing \cup {k}

\* ... then deletes in the store itself and reports that outcome.  A nil error
\* also says the sketch does not hold the key.
ForgetSyncStore(k) ==
    /\ k \in syncing
    /\ syncing' = syncing \ {k}
    /\ \/ /\ store' = [store EXCEPT ![k] = NoCell]
          /\ reset' = IF Cached(k) \/ MaybeShed(k, now) THEN reset ELSE reset \cup {k}
          /\ uncleaned' = uncleaned \ {k}
       \/ /\ StoreErrors # {}
          /\ UNCHANGED <<store, reset, uncleaned>>
    /\ UNCHANGED <<now, cacheVars, dirtyVars, drainVars, flush, ops, ghostVars, foreign>>

-----------------------------------------------------------------------------
(* drain and flushKey                                                      *)

DrainExit(g) ==
    /\ pc[g] = "loop" /\ queue = <<>>
    /\ workers' = workers - 1
    /\ pc' = [pc EXCEPT ![g] = "off"]
    /\ UNCHANGED <<now, cacheVars, dirtyVars, hand, claim, store, syncing, flush,
                   ops, ghostVars, reset, foreign, uncleaned>>

\* drain's loop head: take the first key of the queue.
DrainTake(g) ==
    /\ pc[g] = "loop" /\ queue # <<>>
    /\ hand' = [hand EXCEPT ![g] = Head(queue)]
    /\ queue' = Tail(queue)
    /\ pc' = [pc EXCEPT ![g] = "top"]
    /\ UNCHANGED <<now, cacheVars, dirty, delta, deadline, del, workers, claim,
                   store, syncing, flush, ops, ghostVars, reset, foreign, uncleaned>>

\* The window of the unpushed delta is over.
WindowOver(k) == deadline[k] # 0 /\ now >= deadline[k]

\* flushKey's loop head, a pending delete runs first.
FlushKeyDelete(g, k) ==
    /\ k \in dirty /\ k \in del
    /\ del' = del \ {k}
    /\ pc' = [pc EXCEPT ![g] = "delete"]
    /\ UNCHANGED <<dirty, delta, deadline, queue, workers, hand, claim>>

\* flushKey's loop head with nothing left to push: release the key.
FlushKeyDone(g, k) ==
    /\ k \notin del /\ (k \in dirty => delta[k] = 0)
    /\ ReleaseLocked(g, k)
    /\ hand' = [hand EXCEPT ![g] = NoKey]
    /\ UNCHANGED claim

\* flushKey's loop head: drop the delta of a window that is over ...
FlushKeyDrop(g, k) ==
    /\ k \in dirty /\ k \notin del /\ delta[k] > 0 /\ WindowOver(k)
    /\ delta' = [delta EXCEPT ![k] = 0]
    /\ UNCHANGED <<dirty, deadline, del, queue, drainVars>>

\* Faulty variant: the claim drops the dirty entry, and with it the ownership.
FlushKeyDisown(g, k) ==
    /\ k \in dirty /\ k \notin del /\ delta[k] > 0 /\ ~WindowOver(k)
    /\ dirty' = dirty \ {k}
    /\ delta' = [delta EXCEPT ![k] = 0]
    /\ claim' = [claim EXCEPT ![g] = [delta |-> delta[k], deadline |-> deadline[k], shared |-> 0]]
    /\ pc' = [pc EXCEPT ![g] = "push"]
    /\ UNCHANGED <<deadline, del, queue, workers, hand>>

\* ... or claim it together with the identity of its window.
FlushKeyClaim(g, k) ==
    /\ k \in dirty /\ k \notin del /\ delta[k] > 0 /\ ~WindowOver(k)
    /\ delta' = [delta EXCEPT ![k] = 0]
    /\ claim' = [claim EXCEPT ![g] = [delta |-> delta[k], deadline |-> deadline[k], shared |-> 0]]
    /\ pc' = [pc EXCEPT ![g] = "push"]
    /\ UNCHANGED <<dirty, deadline, del, queue, workers, hand>>

FlushKey(g) ==
    /\ pc[g] = "top"
    /\ \/ FlushKeyDelete(g, hand[g])
       \/ FlushKeyDone(g, hand[g])
       \/ FlushKeyDrop(g, hand[g])
       \/ FlushKeyClaim(g, hand[g])
    /\ UNCHANGED <<now, cacheVars, store, syncing, flush, ops, ghostVars,
                   reset, foreign, uncleaned>>

\* flushDelete: the store delete of a Forget.  A failure goes to release, which
\* drops the delete: the shared counter survives.
FlushDelete(g) ==
    /\ pc[g] = "delete"
    /\ \/ /\ store' = [store EXCEPT ![hand[g]] = NoCell]
          /\ pc' = [pc EXCEPT ![g] = "top"]
          /\ uncleaned' = uncleaned \ {hand[g]}
          /\ UNCHANGED foreign
       \/ /\ StoreErrors # {}
          /\ pc' = [pc EXCEPT ![g] = "release"]
          /\ foreign' = foreign \cup {hand[g]}
          /\ uncleaned' = uncleaned \cup {hand[g]}
          /\ UNCHANGED store
    /\ UNCHANGED <<now, cacheVars, dirtyVars, workers, hand, claim, syncing, flush,
                   ops, ghostVars, reset>>

Release(g) ==
    /\ pc[g] = "release"
    /\ ReleaseLocked(g, hand[g])
    /\ hand' = [hand EXCEPT ![g] = NoKey]
    /\ UNCHANGED <<now, cacheVars, claim, store, syncing, flush, ops, ghostVars,
                   reset, foreign, uncleaned>>

\* Store.IncrByDeadline before the deadline, atomic in every backend: create the
\* record to end at the deadline, or add to the live one and keep its expiry.
StoreAfter(k, d, dl) ==
    IF StoreLive(k) THEN [store EXCEPT ![k].n = @ + d]
    ELSE [store EXCEPT ![k] = [n |-> d, expires |-> dl]]

\* flushIncr's store round.  After the deadline the store writes nothing.
FlushIncr(g) ==
    LET k == hand[g]
        c == claim[g]
    IN
    /\ pc[g] = "push"
    /\ \/ /\ now >= c.deadline
          /\ pc' = [pc EXCEPT ![g] = "top"]
          /\ claim' = [claim EXCEPT ![g] = NoClaim]
          /\ UNCHANGED <<store, acked, foreign>>
       \/ /\ now < c.deadline
          /\ store' = StoreAfter(k, c.delta, c.deadline)
          /\ claim' = [claim EXCEPT ![g].shared = StoreAfter(k, c.delta, c.deadline)[k].n]
          /\ pc' = [pc EXCEPT ![g] = "merge"]
          /\ acked' = IF m[k].expires = c.deadline THEN [acked EXCEPT ![k] = @ + c.delta]
                      ELSE acked
          /\ UNCHANGED foreign
       \/ /\ "lost" \in StoreErrors
          /\ pc' = [pc EXCEPT ![g] = "failed"]
          /\ UNCHANGED <<claim, store, acked, foreign>>
       \/ /\ "applied" \in StoreErrors /\ now < c.deadline
          /\ store' = StoreAfter(k, c.delta, c.deadline)
          /\ pc' = [pc EXCEPT ![g] = "failed"]
          /\ foreign' = foreign \cup {k}
          /\ UNCHANGED <<claim, acked>>
    /\ UNCHANGED <<now, cacheVars, dirtyVars, workers, hand, syncing, flush, ops,
                   counted, opened, shed, reset, uncleaned>>

\* Whether a flushed total may be merged: only into the window that was flushed,
\* only upward.  The faulty variant drops the first condition.
MergesAnyWindow(k, c) == Live(k) /\ c.shared > m[k].n
Merges(k, c) == m[k].expires = c.deadline /\ Live(k) /\ c.shared > m[k].n

\* flushIncr's merge of the shared total.
FlushMerge(g) ==
    LET k == hand[g]
        c == claim[g]
    IN
    /\ pc[g] = "merge"
    /\ m' = IF Merges(k, c) THEN [m EXCEPT ![k].n = c.shared] ELSE m
    /\ claim' = [claim EXCEPT ![g] = NoClaim]
    /\ pc' = [pc EXCEPT ![g] = "top"]
    /\ UNCHANGED <<now, nextSweep, sketch, dirtyVars, workers, hand, store, syncing,
                   flush, ops, ghostVars, reset, foreign, uncleaned>>

\* preserveFailedIncr: the claimed batch and what arrived meanwhile go back to
\* the entry's pending slot; a Forget that arrived meanwhile is queued again.
Returned(k, c) ==
    (IF m[k].expires = c.deadline THEN c.delta ELSE 0)
    + (IF m[k].expires = deadline[k] THEN delta[k] ELSE 0)

PreserveFailedIncr(g) ==
    LET k == hand[g] IN
    /\ pc[g] = "failed"
    /\ \/ /\ k \notin dirty \/ k \in del
          /\ ReleaseLocked(g, k)
          /\ UNCHANGED m
       \/ /\ k \in dirty /\ k \notin del
          /\ m' = IF Cached(k) THEN [m EXCEPT ![k].pending = @ + Returned(k, claim[g])] ELSE m
          /\ dirty' = dirty \ {k}
          /\ delta' = [delta EXCEPT ![k] = 0]
          /\ deadline' = [deadline EXCEPT ![k] = 0]
          /\ pc' = [pc EXCEPT ![g] = "loop"]
          /\ UNCHANGED <<del, queue, workers>>
    /\ hand' = [hand EXCEPT ![g] = NoKey]
    /\ claim' = [claim EXCEPT ![g] = NoClaim]
    /\ UNCHANGED <<now, nextSweep, sketch, store, syncing, flush, ops, ghostVars,
                   reset, foreign, uncleaned>>

Drain(g) ==
    \/ DrainExit(g) \/ DrainTake(g) \/ FlushKey(g) \/ FlushDelete(g) \/ Release(g)
    \/ FlushIncr(g) \/ FlushMerge(g) \/ PreserveFailedIncr(g)

-----------------------------------------------------------------------------
(* Flush: the shutdown drain, after request traffic has stopped.           *)

\* Parked deltas of live windows become dirty entries, past the queue cap.
Promotable == {k \in Keys \ dirty : m[k].pending > 0 /\ Live(k)}

\* As many drainers as the cap and the queue allow.
FlushStart ==
    /\ flush = "no" /\ syncing = {}
    /\ flush' = "waiting"
    /\ dirty' = dirty \cup Promotable
    /\ delta' = [k \in Keys |-> IF k \in Promotable THEN m[k].pending ELSE delta[k]]
    /\ deadline' = [k \in Keys |-> IF k \in Promotable THEN m[k].expires ELSE deadline[k]]
    /\ m' = [k \in Keys |-> IF k \in Promotable THEN [m[k] EXCEPT !.pending = 0] ELSE m[k]]
    /\ \E order \in [1..Cardinality(Promotable) -> Promotable] :
          /\ \A i, j \in DOMAIN order : i # j => order[i] # order[j]
          /\ queue' = queue \o order
    /\ \E G \in SUBSET {g \in Goroutines : pc[g] = "off"} :
          LET wanted == IF Len(queue') < MaxFlushWorkers THEN Len(queue') ELSE MaxFlushWorkers
          IN  /\ Cardinality(G) = IF wanted > workers THEN wanted - workers ELSE 0
              /\ workers' = workers + Cardinality(G)
              /\ pc' = Spawned(pc, G)
    /\ UNCHANGED <<now, nextSweep, sketch, del, hand, claim, store, syncing, ops,
                   ghostVars, reset, foreign, uncleaned>>

\* The ticker finds the queue empty and no drainer.
FlushIdle ==
    /\ flush = "waiting" /\ queue = <<>> /\ workers = 0
    /\ flush' = "counting"
    /\ UNCHANGED <<now, cacheVars, dirtyVars, drainVars, store, syncing, ops, ghostVars,
                   reset, foreign, uncleaned>>

\* The caller's context ends first.
FlushCtx ==
    /\ flush = "waiting" /\ (queue # <<>> \/ workers > 0)
    /\ flush' = "ctx"
    /\ UNCHANGED <<now, cacheVars, dirtyVars, drainVars, store, syncing, ops, ghostVars,
                   reset, foreign, uncleaned>>

\* Live deltas still parked are reported rather than claiming success.
FlushReport ==
    /\ flush = "counting"
    /\ flush' = IF \E k \in Keys : m[k].pending > 0 /\ Live(k) THEN "left" ELSE "ok"
    /\ UNCHANGED <<now, cacheVars, dirtyVars, drainVars, store, syncing, ops, ghostVars,
                   reset, foreign, uncleaned>>

-----------------------------------------------------------------------------
(* The environment: the clock, and another replica pushing to the store.   *)

Tick ==
    /\ now < MaxTime
    /\ now' = now + 1
    /\ UNCHANGED <<cacheVars, dirtyVars, drainVars, store, syncing, flush, ops,
                   ghostVars, reset, foreign, uncleaned>>

PeerPush(k) ==
    /\ ops < MaxOps
    /\ ops' = ops + 1
    /\ store' = StoreAfter(k, 1, now + TTL)
    /\ foreign' = foreign \cup {k}
    /\ reset' = reset \ {k}
    /\ UNCHANGED <<now, cacheVars, dirtyVars, drainVars, syncing, flush, ghostVars, uncleaned>>

Next ==
    \/ \E k \in Keys, t \in 0..now : Incr(k, t)
    \/ \E k \in ForgetKeys : Forget(k) \/ ForgetSyncStart(k) \/ ForgetSyncStore(k)
    \/ \E k \in PeerKeys : PeerPush(k)
    \/ \E g \in Goroutines : Drain(g)
    \/ FlushStart \/ FlushIdle \/ FlushCtx \/ FlushReport
    \/ Tick

Spec == Init /\ [][Next]_vars

-----------------------------------------------------------------------------
(* Properties                                                              *)

(* Per-key singleflight: a dirty key is either queued once or held by one  *)
(* goroutine, never both and never neither, so it is neither flushed twice *)
(* at once nor stranded (the ownership invariant on dirtyEntry).  A queued *)
(* key always has a drainer to reach it; c.workers counts the goroutines   *)
(* that run and respects its cap.                                          *)
SingleOwner ==
    /\ workers = Cardinality({g \in Goroutines : pc[g] # "off"})
    /\ workers <= MaxFlushWorkers
    /\ queue # <<>> => workers > 0
    /\ \A g, h \in Goroutines, k \in Keys : Owns(g, k) /\ Owns(h, k) => g = h
    /\ \A g \in Goroutines, i \in 1..Len(queue) : ~Owns(g, queue[i])
    /\ \A i, j \in 1..Len(queue) : queue[i] = queue[j] => i = j
    /\ \A k \in Keys : k \in dirty <=> \/ \E g \in Goroutines : Owns(g, k)
                                       \/ \E i \in 1..Len(queue) : queue[i] = k

\* What a goroutine has claimed and not yet got acknowledged for the window of k.
InFlight(g, k) ==
    IF hand[g] = k /\ pc[g] \in {"push", "failed"} /\ claim[g].deadline = m[k].expires
    THEN claim[g].delta ELSE 0

Queued(k) == IF k \in dirty /\ deadline[k] = m[k].expires THEN delta[k] ELSE 0

(* Lossless: every event counted in a live window is acknowledged by the   *)
(* store, parked, queued or in flight, exactly once.  An interleaving of   *)
(* bumps, failed rounds, forgets and new windows neither loses an event    *)
(* nor lets one be pushed for two windows.  Flush reports success only when*)
(* the store has them all.                                                 *)
Lossless ==
    \A k \in Keys : Live(k) =>
        /\ flush = "ok" => counted[k] = acked[k]
        /\ \/ \E g \in Goroutines :
                 /\ Owns(g, k)
                 /\ counted[k] = acked[k] + m[k].pending + Queued(k) + InFlight(g, k)
           \/ /\ \A g \in Goroutines : ~Owns(g, k)
              /\ counted[k] = acked[k] + m[k].pending + Queued(k)

(* The count a request is answered never misses an event of its window, and*)
(* is exact unless the store record holds what others put there (another   *)
(* replica, a round that failed after it was applied, a delete that failed *)
(* or was never queued, a total that outlived its evicted entry).  For a   *)
(* key the full cache has no room for, each row's cell of the overload     *)
(* sketch holds at least what a private cell of that key would.            *)
NeverUndercounts ==
    /\ \A k \in Keys : Cached(k) =>
          /\ m[k].n >= counted[k]
          /\ k \notin foreign => m[k].n = counted[k]
    /\ \A k \in Keys, r \in Rows : ~Lapsed(shed[k], now) =>
          /\ sketch[r][Hash[r][k]].n >= shed[k].n
          /\ sketch[r][Hash[r][k]].expires >= shed[k].expires

(* A ForgetSync that reported success sticks: once the key is quiet, with  *)
(* nothing counted since, the local entry is not back, although a push may *)
(* have been in flight when it ran, and neither is the store record, unless*)
(* the drainer's own delete behind that push failed.  In that one case the *)
(* count the operator was told is reset lives on in the store until its    *)
(* window ends: flushDelete drops the failed delete, while the comment on  *)
(* ForgetSync says such a round is cleaned up.                             *)
ResetSticks ==
    \A k \in reset \ dirty : ~Cached(k) /\ (StoreLive(k) => k \in uncleaned)

=============================================================================

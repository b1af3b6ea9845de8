# Angie Guardian: a TLA+ verification project

Angie Guardian sits beside the Angie web server and answers one question per
request: allow, challenge, or deny. It is a Go program of about 27,000 lines whose
replicas share a store. What it promises is easy to say: a client that was
unblocked stays unblocked, a solved challenge buys one token, a reload never
drops a request. Each promise is kept by code that runs in several goroutines
and on several machines, over a store whose calls may fail. This
directory models that code.

- [The system](#the-system)
- [Modules](#modules)
- [Runs](#runs)
- [Where the code differs from its documents](#where-the-code-differs-from-its-documents)
- [Proofs](#proofs)
- [Known limits of the stated properties](#known-limits-of-the-stated-properties)
- [What is not modelled](#what-is-not-modelled)
- [Plan](#plan)

`PROJECT.json` is the machine-readable side: components, runs, a faulty variant
for every property, the source lines behind every definition, hazards and theorems.

To repeat a run: `tlc -workers 2 -config Scoreboard.cfg MCScoreboard`. To repeat a
proof: `tlapm ScoreboardProofs.tla`.

## The system

A request enters through `transport/http` (or a WASM filter), is evaluated by
`core.Engine` along the stages of `core/pipeline.go` and leaves with a decision.
Around that path run the goroutines that make the parts hard to test.

| Component | State | Operations | Talks to | Hard because | What makes it correct |
|---|---|---|---|---|---|
| **Counter cache** `core/store/countercache.go` | local counters, dirty entries, a bounded queue, drain workers, an overflow sketch | `Incr`, `Forget`, `ForgetSync`, `Flush`, drain, sweep | store (`IncrByDeadline`), every rate limit | bumps fold into entries a worker is pushing; failed pushes come back; windows roll over underneath | no increment lost or pushed twice; a local count never short; a reset sticks; `Flush` honest |
| **Scoreboard** `core/scoreboard.go`, `Engine.UnblockIP/BlockIP` | `ev:`, `block:`, `blkct:`, `unblk:`, `unblkgen:` keys of an IP | `RecordEvent`, `Block`, `HoldUnblock`, `ResetEventCounters`, `CommitUnblock` | store commits, enforce manager | requests in flight when the operator unblocks; steps of an unblock fail and are repeated | an unblock is a boundary for decisions and for evidence |
| **Block mirror and sinks** `core/enforce` | mirror shards, tombstones, event rings, sink queue, completeness | `Notify`, `NotifyOwned`, `Learn`, reconcile, `ReplaceAll` | scoreboard, pipeline, nftables | a reconcile applies a snapshot that is older than the notifications around it | a complete mirror misses no block; mirror and sink converge |
| **Attack posture** `core/attackmode` | detector state, pin, published level, votes | tick, `evaluate`, `Pin`, `Unpin`, `SetConfig`, `Close` | store votes, admin API | an operator acts while a tick is between its reads; replicas feed each other | a pin sticks; a vote is local detection only; the fleet calms |
| **Engine** `core/engine.go` | the snapshot pointer, reference counts, `lifeMu`, `lastCfg` | `NewEngine`, `Reload`, `Close`, `acquire`, `release` | every request, intel provider, attack detector | lock-free references against swaps | no use after close, no leak, a reload applies as a whole |
| **IP intelligence** `core/intel` | feed lists, hashes, cache file, refreshers | `install`, fetch, poll, `SeedURLFeedsFrom`, `Close` | network, files, engine | reloads and empty bodies; closing waits for a fetch | a live list is never replaced by nothing |
| **PoW challenges** `core/pow/challenge.go`, `stateless_challenge.go`, `tokencache.go` | challenge records, spent markers, replay cache, Argon2id slots | `Issue`, `Redeem` (both kinds) | store, keys, escalation | clocks differ, calls are lost, redemptions race | single spend; bounded fail-open; nobody refused in time |
| **Tokens and keys** `core/pow/jwt.go`, `key.go` | key file, archive, key set in memory, two refresh throttles, verified-token cache | rotate, refresh, mint, verify | key files, peers | a crash between archive and replace; refreshes that answer from memory; a cache that outlives a key | tokens survive rotations; a replaced key dies everywhere in bounded time |
| **Escalation** `core/pow/escalation.go` | two counters per client | bump, forget, reset | counter cache, challenge page, unblock | pages a browser cannot render are never solved | nobody is reported for pages nobody could solve |
| **Store contract, BuntDB** `core/store/store.go`, `buntdb.go` | keys with a deadline | get, set, CAS, counters, the three commits, scan | all | a key may expire inside a call; a crash takes back a tail of writes | each call takes effect in one instant |
| **Pebble** `core/store/pebble.go` | records with a deadline in front, shard mutexes, the WAL, a janitor | the same | all | the instant is built from mutexes, reads and a batch; the janitor deletes from an old iterator | it implements the contract; every call ends |
| **Redis** `core/store/redis.go`, `expiry.go` | strings, an index of blocks with a generation, vote sets | Lua scripts, paged scan, votes | replicas | scripts run twice or late; pages shift under a scan; TTLs are read on another clock | a complete scan is exact; a commit counts once; a vote is seen |
| **Health** `core/health` | probe results, generations | probe, report | admin API | a stale probe answers late | bounded probes, no stale result published |
| **Bot verification** `core/botverify` | single flight, positive and negative cache | verify | DNS | a waiter gives up, an answer comes late | one lookup per IP, no cached failure past its time |
| **Recent decisions** `core/recent.go` | a ring | add, list | pipeline, redemption, admin API | wrap-around | newest first, bounded, honest about what it dropped |
| **Pipeline** `core/pipeline.go`, `Engine.Evaluate`, `ShedDecision` | none of its own | twelve stages, an overload path | all | the overload path repeats the stages in a second place | it admits nobody the stages turn away |
| **Transport** `transport/http` | in-flight counter, rate limits, Argon2id slots | auth hop, challenge hop, redemption | engine, proof of work | three requests of a visit with a reload or a posture change between any two | the bound holds; what is recorded is served |
| **WAF rules, header exemptions** | compiled patterns | match | pipeline | text | not stated |
| **Anomaly model, metrics, configuration, tools** | model cache, counters | load, score, parse | | floating point, text | not stated |

`PROJECT.json` lists the hazards with their lines: where a value read before an
await, an unlock or a store call is used after it, where a call's answer can be
lost, where a bound is hit, and where something has to happen in the end.

## Modules

All modules share three conventions.

*Steps.* One action is one critical section, one atomic access or one store call.
What a goroutine carries from one to the next is a register variable of its own
(`pc`, `hand`, `sgen`, `try`, ...). A whole handler is the sequence of its
actions, in the code's order, early returns included.

*The store* is what `core/store/store.go` promises: each call is atomic. A call
may fail; `StoreErrors` says how: `"lost"` failed without effect, `"applied"` took
effect and lost the answer.

*Bounds* are constants whose names start with `Max` or `Last`; a comment says
"bounds the model". All other constants are parameters of the code.
Variables marked *ghost* record history for a property and guard nothing, with one
exception: `opened` in `CounterCache` keeps two windows of a key from opening at
the same reading of a clock that the code reads in nanoseconds.

| Module | Models | State and actions |
|---|---|---|
| `CounterCache` | `core/store/countercache.go` and the counter part of `sharded_memory.go` | `m`, `dirty`/`delta`/`deadline`/`del`, `queue`, `workers`, `sketch` are the fields of the same names. `Incr`, `Forget`, `ForgetSync` and `Flush` are the callers; the drain goroutines run `flushKey`, `flushIncr`, `flushDelete` step by step. A Go map is a total function whose zero value means absent. |
| `Scoreboard` | `core/scoreboard.go`, `Engine.UnblockIP`, `Engine.BlockIP`, the commits of `sharded_memory.go` | One IP. Each store key is a variable. Scorers run `RecordEvent`, then `Block`; unblockers run the four steps of `UnblockIP`. Keys lapse at any moment their TTL allows. |
| `BlockMirror` | `core/enforce/manager.go`, `mirror.go`, the sink contract of `nft_linux.go`, the lookup of `behaviourBlockStage` | Writers commit and then notify; the reconcile loop scans, replays, upserts, prunes, publishes, and replaces the sink; the sink worker takes from its queue. Only one reconcile runs, so every time stamp is kept as the side of the reconcile's start that it is on. |
| `AttackMode` | `core/attackmode/attackmode.go`, the admin handlers | Replicas with a ticker and one admin call each. Time stamps are ages, so behaviours may be infinite and liveness is about infinite ones. The measured signals are an input. |
| `Engine` | `core/engine.go`, `core/intel/feeds.go`, `provider.go` | Snapshots with reference counts; requests (`load`, `acquire`, `cas`, `eval`, `release`); callers (`Reload`, `Close`); one refresher per snapshot; the cache file and the local list as files that outlive a restart. |
| `Challenge` | `core/pow/challenge.go`, `stateless_challenge.go`, `tokencache.go`, the slots of `server.go` | Replicas with clocks, challenges, redemptions with their clock reading. Stateful challenges are records; stateless ones have markers. |
| `Keys` | `core/pow/key.go`, `jwt.go`, the refreshes of `challenge.go`, `tokencache.go` | One replica's key set (`mem`), throttles and cache over the shared files, with calls that verify, mint, refresh and rotate; of its peers only the calls that change the files or sign, as nothing else of them is visible. A critical section of the file lock is one action. Throttles are kept as the time they have left. |
| `Store` | `core/store/store.go`, and `buntdb.go` for the effects: there every operation is one exclusive transaction | The abstract specification of a backend. A call is `Call`, one instant (`Do`, or `See` and `Judge` for a read) and `Return`. `hist` are the states since the last durable one; `Crash` goes back to any of them. Only a key whose deadline falls inside a call may be judged either way by it. |
| `Pebble` | `core/store/pebble.go` | A call takes its shard mutexes one by one (`Lock`), reads key by key (`Read`), computes (`Prepare`; `CommitBlock` and `CommitUnblock` read the clock a second time for their second key, `Restamp`), commits a batch (`Commit`), and returns; reads without a lock open an iterator (`Open`, `Iterate`). The janitor scans and deletes (`SweepScan`, `SweepOne`). `Flush`, `Tick`, `Crash` and `Close` go on around them. |
| `Redis` | `core/store/redis.go`, the Redis part of `expiry.go` | One action per script run on the server (`Exec`). A call puts a command on the wire, may time out and put it there again (`Timeout`), and takes a reply (`TakeReply`). The scan is the code's loop, one round trip a step. `Poke` is a writer that is not Guardian. |
| `Pipeline` | `core/pipeline.go`, `Evaluate`, `ShedDecisionWithReason`, `EffectiveBits`, `TokenMinBits`, `MatchEnforcing`, `resolvePaths`, `ForPath`, `PoWAnywhere` | No state: each stage is a function of a request and of what it looks up. The scope of a path is resolved from the domain's overlays, most specific first; whether an address or a rule matches is a trait of the request. |
| `Request` | `handleAuth`, `handleChallenge`, `redeem`, `fetchdest.go`, `accept.go`, `escalation.go`, `recent.go`, `resetBlockCounters` | Composes `Pipeline` with the visit around it: `Arrive`, `Admit`, `Shed` or `Begin` and `Decide`; `Hop`, `Issue`; `RedeemSolved`, `RedeemFailed`; `ResetEscalation` by an operator. Every hop reads the live configuration and posture, which `Reload` and `Shift` change. What another module keeps (blocks, crawler identities) is a lookup with any answer that module allows. |
| `MC*` | values of the constants for TLC | |
| `CounterCacheProofs`, `ScoreboardProofs`, `AttackModeProofs`, `EngineProofs`, `ChallengeProofs`, `KeysProofs`, `RequestProofs`, `RedisProofs` | the theorems | |

How they fit together: `Scoreboard` ends where `BlockMirror` begins (the
notification after a commit); `CounterCache` is under the escalation counters
that `Request` counts with; `Request` runs `Pipeline` on the lookups that `BlockMirror`
(`CompleteMissesNothing`) and `AttackMode` allow, and its redemptions are the
verdicts of `Challenge`; `Scoreboard` uses the commits of `Store`; `AttackMode` receives the configuration that
`Engine`'s `Reload` hands over as its last step (`attackCfg`), and decides
whether challenges are issued stateless.

## Runs

| Run | Instance | Question |
|---|---|---|
| `counter_cache` | 2 keys, cache of 1, queue of 1, 1 worker, 2 goroutine identities, a peer, 4 operations, 3 ticks | Has every dirty key one owner and the queue enough workers (`SingleOwner`), is every increment accounted for exactly once, and does `Flush` say what it left behind (`Lossless`), is the local answer never short, also from the sketch (`NeverUndercounts`), does a reset stick (`ResetSticks`)? |
| `scoreboard` | 2 scorers, 2 unblockers, limit 2, all failures, holds that end at any time | Is an unblock a boundary for automatic blocks (`UnblockSticks`) and for the counters (`NoStaleEvidence`)? |
| `mirror` | 2 IPs, one of them written and asked about, the other of an earlier run and not for the kernel, a shard of 1, an index limit of 1, a sink queue of 1, blocks below and above `MinTTL`, a tick, a failure | Does a complete mirror miss nothing (`CompleteMissesNothing`), does a reconcile repair (`ReconcileRepairs`), does the sink follow (`SinkFollows`)? |
| `mirror_live` | 1 IP, 2 writers that overtake each other, a peer, expiry, a failure, read-through | Is a notification still owned when applied (`OwnedNotifyIsCurrent`), do mirror and sink converge once writes stop (`Converges`)? |
| `attack_pins` | 1 replica, 3 admin calls, 3 configurations, a crash, all failures | `PinSticks`, `MutedIsSilent`, `FallsSlowly`. |
| `attack_fleet` | 2 replicas, both under load, votes lost, a crash | Does the fleet come down (`FleetCalms`)? |
| `engine` | 1 request, 2 callers, 2 snapshots, 1 fetch, 1 edit, 1 restart | `NoUseAfterClose`, `ReloadIsWhole` (no snapshot leaks, engine and detector end on one configuration), `URLListSurvives`, `AllReturn`. |
| `challenge` | 2 replicas one tick apart, 2 redemptions, 2 challenges, a replay cache of 1, 1 Argon2id slot, all failures, restarts | `SingleSpend`, `FailOpenOnce`, `NoFalseRefusal`. |
| `keys` | 2 calls at once, of the replica or of peers, 2 keys, 1 token, 2 rotations, 1 failure or crash, 3 intervals | Do tokens survive failed and repeated rotations (`RotationKeepsTokens`)? Does a replaced key die in two intervals, and its cached verdicts with the cache's own limit (`RetiredKeyDies`)? Does a refresh forget (`RefreshForgets`)? |
| `pebble` | 2 goroutines with one call each out of 11, 5 keys over 3 mutexes, a tick, a restart, two seeds, with and without `Sync` | Does Pebble implement the contract (`Refines`: `Pebble`'s `Spec` implies `Store`'s under the mapping `Abstract`), and does every call end (`EveryCallEnds`)? |
| `redis` | 2 calls out of 9, a vote or its withdrawal, 1 retry, 1 scan in pages of 1, 2 instances, a foreign delete, 2 ms | `CompleteScanIsExact`, `IndexCoversBlocks`, `OffensesCountOnce`, `VotesAreSeen`, `WindowsExpire`, `ReadExpiryIsSafe`. |
| `request` | 2 visits of a client, 5 kinds of fetch, 9 kinds of request (80 for the overload path), 4 configurations, two of them with overlays for some of 3 paths, 2 postures, a reload, a posture change, a redemption or unblock | Does the overload path bypass nothing (`ShedNeverBypasses`)? Does the in-flight bound hold as soon as it is loaded (`EvaluationsBounded`)? Is what was recorded what is served (`OneVerdictPerVisit`)? Is nobody reported for pages that cannot be solved (`NoFarmWithoutAbandon`)? Does a solved token vouch (`SolvedIsVouched`)? Does the ring keep the newest (`RingKeepsNewest`)? |

Each module has a `TypeOK` that documents its state where the types are not plain
from `Init`. `Scoreboard`'s is an invariant of its run, since a theorem is about it.

### Why the bounds are enough

- *Counter cache.* Every conflict is between two parties: the owner of a key and
  one other operation, or two keys and one slot. Three ticks with a TTL of two are
  a window, its end and a second window; four operations are a claim, a bump
  into it, a reset and another bump. `Lag` lets a clock reading be a tick old.
  The two sketch rows collide in one and not in the other.
- *Scoreboard.* A stale decision needs one scorer in flight and one unblock; a
  repeated unblock and a second scorer cover what lands between. The theorems
  lift the bounds.
- *Mirror.* A second IP is what a full shard needs; it is enough that it has a block of
  an earlier run. In `mirror` the writes of an IP follow one another; in `mirror_live` the IP
  is *overtaken*: its writers run concurrently and nothing orders their notifications.
  One tick ends the shorter of two blocks, a learnt entry and an entry that a reconcile
  put back with the shorter end.
- *Attack posture.* Two levels above Normal, a window of two buckets and a dwell
  of two are the smallest values with a window that remembers, a dwell that can be
  refreshed midway, and two steps down. Signals stop after `MaxLoad` ticks.
- *Engine.* A use after close needs one request between load and
  compare-and-swap and one swap; the second caller is the `Close` that waits for
  the lock.
- *Challenge.* The marker's margin is `Skew - Drift - MaxStall = 1` tick, the least
  the assumption allows, so an off-by-one in the marker's lifetime is visible;
  time runs until every marker has lapsed. Both replicas can be ahead of or behind
  the issuer. The theorems lift the bounds.

- *Keys.* Both calls may be the replica's or one a peer's: a verification against a
  rotation, two verifications in one refresh round, a signer against a rotation. A
  rotation that fails after it archived the key and one that succeeds are the two
  that give a key two retirement times. Interval, stall and cache validity are one
  tick each, so the three intervals reach the last moment at which each property
  allows an old verdict. With one token the clearing of a full cache is modelled
  but makes no difference.

- *Pebble.* An operation conflicts with one other operation, with the janitor or
  with the clock. The generation, the counter and the second block share a mutex,
  so `lockMany` meets a collision; one seed holds keys that expire at the tick, the
  other a hold that refuses a commit. One tick is enough for a deadline to fall
  between any two steps of a call. Both processes may be in any pair of operations of
  `MCMenu`; every kind of operation is in it.
- *Redis.* One command that runs twice next to one other call; two blocks in pages
  of one are the least that shift under a cursor; two instances whose votes have a
  short and a long TTL share a set. Two units to a millisecond make rounding visible.
  `MaxTimeouts = 1`: with a second retry and an operator's `Set` of the same block
  `OffensesCountOnce` fails. The run's calls satisfy `CommitsAreFenced`, under which
  `RedisProofs` proves it for any number of retries: see there.
- *Request.* Every race here is between the two hops of one visit, or between two
  visits, and one change of configuration or posture. `FreeIssues = EscalationStep = 1`
  put the farm report on the second page. A window of one bit lets a posture, a rule
  and an escalation each reach the ceiling. One configuration has an exact and a prefix
  overlay on the same path, another proof of work in an overlay only, so that a visit may
  change scope between its hops and a redemption need a scope other than its domain's.
  `AllTraits` has every trait alone and
  every trait next to one that exempts or misparses, so each pair of stages the
  overload path could order differently is met.

Deadlock checking is off where the bounds stop everything at the end
(`counter_cache`, `scoreboard`, `engine`, `challenge`, `keys`, `pebble`, `redis`,
`request`).

### Fairness

Weak fairness of goroutines that run on their own is assumed, and strong fairness
only of a mutex.

- `BlockMirror`: the reconcile loop and the sink worker are `go` loops with a
  ticker; a writer or a request that has reached the store goes on to its
  notification in straight-line code. Nothing makes a store or sink call succeed
  except that `MaxFailures` bounds the failures: a system whose every call fails
  need not converge.
- `AttackMode`: a goroutine inside a tick or an admin call goes on, the ticker
  fires, and time passes. Nothing makes load end; the bound `MaxLoad` does, which
  is what "once the load is gone" means.
- `Engine`: requests, callers and refreshers go on. A fetch ends (its context has
  a timeout and is cancelled by `Close`), with a body or with an error; nothing makes
  it succeed.
- `Pebble`: a goroutine inside the store goes on, the WAL is synced in the end, the
  janitor's sweep goes on. `Lock` is strongly fair: Go's `sync.Mutex` hands itself to
  its longest waiter after a millisecond (starvation mode), so a waiter cannot be
  passed over for ever. `Refines` needs none of it.

## Where the code differs from its documents

Five places where the models show the code doing something else than its
documentation, a comment or a test says. No run is kept for them; the instance that
shows each is named.

1. `core/scoreboard.go:281`. `RecordEvent` counts an event in the generation it read;
   `Block` reads the generation again. A request that reaches the limit before an
   unblock and stalls past the two-second hold blocks the client after it was let go,
   where `docs/reference/store-keys.md:76-79` speaks of an event that "may finish late,
   but only in an obsolete generation". `ThresholdBlockIsFresh` fails in the
   instance of `scoreboard` with `MaxEvents = 3`. `HoldStopsStaleEvidence` proves that a
   request outliving the hold is the only way.
2. `core/enforce/mirror.go:174`. A reconcile writes the expiry it scanned over an entry
   that was extended meanwhile; the mirror lets the client in before the store does,
   while it calls itself complete (`manager.go:233-235`: "must not silently miss a
   committed block"). In the same way an entry that a request learnt ends after two
   intervals if no scan succeeded meanwhile. `CompleteMissesNothing` names the entries
   these two paths wrote (`provisional`) and excuses no others; without
   that disjunct it fails in the run `mirror`.
3. `core/attackmode/attackmode.go:565`. A peer's vote refreshes `lastAbove`, which the
   local decay reads as well: two replicas whose local level is the same keep each
   other there without any signal (`attackmode.go:790-792` wants to prevent exactly
   that). `FleetCalms` names it as its one exception, two running replicas at the same
   local level; without that disjunct it fails in the run `attack_fleet`.
4. `core/store/redis.go:473`. A counter in its last millisecond has a `PTTL` of 0, which
   `commitEventScript` takes for none: it writes the counter back without an expiry.
   The same happens to a BuntDB counter that expires between the two reads of
   `preservedOpts` (`buntdb.go:192`).
5. `core/engine.go:985`. The comment on the overload path says that a token never
   becomes a bypass. A client that is exempt from proof of work, holds a valid token and
   scores above `deny_at` is passed under load and denied otherwise, because an exempt
   client's token is not looked at before the anomaly stage. And a block of an address
   that does not parse is stored and enforced (`scoreboard.go:26-47`, `engine.go:565`,
   `pipeline.go:191-200`), but no mirror has it (`manager.go:156-159`, `387-390`), so where a
   miss of the mirror is final such a client is passed under load; `pipeline.go:192-193` calls
   these addresses impossible behind Angie. `ShedNeverBypasses` states the two as its
   exceptions (`Excused`).

## Proofs

TLC explores the instances above. The theorems hold for every value of the
constants that satisfies the modules' `ASSUME`s.

### `ScoreboardProofs`

| Theorem | States |
|---|---|
| `TypeCorrect` | `Spec => []TypeOK` |
| `UnblockIsABoundary` | `Spec => []UnblockSticks` |
| `UnblockForgetsEvidence` | `~LongWindows /\ Spec => []NoStaleEvidence` |
| `HoldStopsStaleEvidence` | `HoldCoversRequests /\ Spec => []ThresholdBlockIsFresh` |

`UnblockSticks` is not inductive: nothing in it says that a `Block` about to commit is
recent. `StickyInv` adds that no register holds a generation that was not handed out
yet (`HandedOut`) and that a block whose `admitted` still equals the store's
generation was admitted in this epoch (`AdmittedNow`). An unblock writes a
generation above every register, so after it the second part holds because its premise is
false: that is why the code writes a fresh token rather than deleting the old one.

`EvidenceInv` says the same of event counters: those of generations not yet
handed out are empty, and an increment on its way to the current ones is of this
epoch. It needs `~LongWindows`: `unblockGenRetention` is 24 hours, and when a
configured window is longer the generation key may lapse while counters of
generation 0 are alive.

`HoldInv` says that while no hold is in force every running request was admitted
in this epoch. `HoldCoversRequests` states that the hold outlives a request; the
code's two seconds are a guess at it.

### `ChallengeProofs`

| Theorem | States |
|---|---|
| `SpentOnce` | `Spec => []SingleSpend` |
| `ClaimedOnce` | `Spec => []FailOpenOnce` |
| `NobodyWronged` | `Spec => []NoFalseRefusal` |

The assumption that matters is `SkewAssumption`: the largest clock difference plus
the longest redemption is below `statelessSkew`. The inductive invariant `IInv` has
these parts: `Issuance` (a challenge carries some replica's clock), `Readings` (a
redemption's reading is its replica's clock, at most `MaxStall` ago, and its
challenge was fresh at it), `Records` (a marker that was accepted outlasts the last
moment at which any replica may still be redeeming: `issued + TTL - Offset + MaxStall`),
`Caches` (a claim that minted expires at `issued + TTL + Skew` on the local clock,
which no fresh reading reaches). The argument: a redemption at its swap
has a reading in which the challenge is fresh; the marker of an earlier swap has
`Skew` more than its own reading left, and neither the two clocks nor the time
since the two readings can use that up. Fresh challenges never get the one-minute
fallback (`MarkerLifetime`). The skew is therefore spent on three things at once,
the issuer's clock, the redeemer's clock and a slow redemption; the
comment at `stateless_challenge.go:394` speaks of the clocks.

`IInv` was an invariant of the `challenge` instance before it was proved.

### `CounterCacheProofs`

| Theorem | States |
|---|---|
| `TypeCorrect` | `Spec => []TypeOK` |
| `DirtyKeysHaveOneOwner` | `Spec => []SingleOwner` |
| `NoCountIsLost` | `Spec => []Lossless` |
| `AnswersCoverTheWindow` | `Spec => []NeverUndercounts` |
| `ResetsStick` | `Spec => []ResetSticks`, with the failed delete of `flushDelete` as its stated exception |

For any keys, goroutines, queue and cache bounds, clock lag and failures; the keys and
goroutines are finitely many (`FiniteAssumption`). The invariant has two layers. `OwnInv`
is about who may touch a dirty key: it is queued once or in one goroutine's hand, and
`workers` is the number of goroutines. Above it `KeyInv` follows each key's count through
its windows: the queued delta is always of the entry's window (`WindowOK`), a claimed batch
is of an older window only if a `Forget` is pending or the window is over (`ClaimOK`), and a
store record nobody else wrote to holds no more than was acknowledged unless a delete is on
its way (`StoreOK`, `ResetOK`). The three data properties need each other: a count is not
lost because a claim is of the window its answer is credited to, and that is so because a
reset waits for the claim in flight. `SketchInv` is separate: every row's cell is at least
the key's private count, whatever collides with it.

### `AttackModeProofs`

| Theorem | States |
|---|---|
| `TypeCorrect` | `Spec => []TypeOK` |
| `PinsStick` | `Spec => []PinSticks` |
| `MutedReplicasAreSilent` | `Spec => []MutedIsSilent` |
| `PostureFallsSlowly` | `Spec => FallsSlowly` |

For any replicas, configurations, pin lifetimes and dwell. `PinInv` says who holds `evalMu`
(`EvalLock`), that what an admin call is setting agrees with what the detector has
(`AdminShape`), and, the part the property does not say, that whoever is about to drop a pin
drops an expired or a replaced one (`ExpireInv`): `resolvePin` reads the pin and drops it in
two steps. `VoteInv` says that a live vote is known to `voteLive` and that a muted replica
has one only while the call that muted it has yet to clear it or the store refused. `CalmInv`
ties the detector's dwell clock to the observer's, which makes the action property
`FallsSlowly` a matter of `evaluate` alone.

### `EngineProofs`

| Theorem | States |
|---|---|
| `TypeCorrect` | `Spec => []TypeOK` |
| `EvaluatesOpenCaches` | `Spec => []NoUseAfterClose` |
| `ReloadsAreWhole` | `Spec => []ReloadIsWhole` |
| `ListsSurvive` | `Spec => URLListSurvives` |

For any number of requests, callers, snapshots, reloads and restarts. The heart is
`Counting`: a snapshot's reference count is the number of evaluations on it, and one more
while the engine, or a caller inside `lifeMu`, owns it. With `PhaseFollowsRefs` (the caches
are open as long as the count is positive) it follows that a compare-and-swap from a
positive count never revives a snapshot. `ConfigInv` says how far the accessor and the
detector may lag between the steps of a reload. `URLListSurvives` is an action property; it
needs `SeedInv`: a replacement that was seeded has the list of the snapshot it will
replace, unless a list was installed since (the ghost `late`).

### `KeysProofs`

| Theorem | States |
|---|---|
| `TypeCorrect` | `Spec => []TypeOK` |
| `TokensSurviveRotations` | `Spec => []RotationKeepsTokens` |
| `RetiredKeysDie` | `Spec => []RetiredKeyDies` |
| `RefreshesForget` | `Spec => []RefreshForgets` |

For any number of calls, keys, tokens, rotations and faults, any interval, lifetimes and
stall. The only bound that is part of the claim is `MaxStall`, which no call outlives. The
argument is one of time. `FileInv`: a key is replaced when the next one is born, and by then
it is archived. `Loaded` is what a key set read at any time is still good for: it has the
final retirement of every key before its current one that can still matter, so a set can
only be wrong about its current key and those after it. `ThrottleOK` and `UntilOK` bound how
long ago that current key may have been replaced by what is left of the two throttles (one
interval and a stall, and two intervals and a stall: a throttled refresh extends the fast
path by a whole interval), `SnapOK` by the start of a refresh under way, and `AgeOK` carries
the bound to a verification past them. Two lemmas then settle the verdicts: `Vouching` (the
set vouches for every genuine token whose key is two intervals old, as it cannot be older
than that key) and `Vouched` (it vouches for a late token only as its current key's).
`Backed` is what makes `RefreshForgets` inductive: a cached verdict rests on the current key
or on an archive, and only a swap of the set can take that from it.

### `RequestProofs`

| Theorem | States |
|---|---|
| `RingIsNewestFirst` | `Spec => []RingKeepsNewest` |
| `EvaluationsAreBounded` | `Spec => []EvaluationsBounded` |
| `FarmsAbandoned` | `Spec => []NoFarmWithoutAbandon` |
| `ShedIsSafe` | `Spec => []ShedNeverBypasses` |
| `VerdictsAgree` | `Spec => OneVerdictPerVisit` |
| `SolutionsAreVouched` | `Spec => SolvedIsVouched` |

For any visits, clients, requests, configurations, postures, ring size and bounds.
`ShedIsSafe` compares the two ways through the stages for every request: a first-verdict
lemma for lists of stages, then what each stage can answer. `SolvedIsVouched` rests on
`WindowIs`: an attack posture moves the difficulty window up and keeps it a window, so the
floor a token is checked against is never above what its challenge asked. The inductive
invariant ties the counter of requests in flight to the visits that are counted, a visit's
admission to the requests before it, the relayed verdict to the recorded one, and the
escalation counter to the pages the client was due. Assumptions besides types: the visits
are finitely many, a configuration's windows are ordered (validation guarantees it) and a
domain has one overlay for a key (they come from a map). That a path then has a scope of
its domain is proved: of the overlays that match it one is more specific than all others
(`MostSpecificHit`, `PathHasScope`).

### `RedisProofs`

| Theorem | States |
|---|---|
| `TypeCorrect` | `Spec => []TypeOK` |
| `IndexCorrect` | `Spec => []IndexCoversBlocks` |
| `ScanCorrect` | `Spec => []CompleteScanIsExact` |
| `VotesCorrect` | `Spec => []VotesAreSeen` |
| `WindowsCorrect` | `Spec => []WindowsExpire` |
| `ReadExpiry` | `Spec => []ReadExpiryIsSafe` |
| `OffensesCorrect` | `CommitsAreFenced => (Spec => []OffensesCountOnce)` |

For any calls, block keys, seed, foreign writes, instances, TTLs, page size, scan limits,
retries and clock bound that satisfy `RedisAssumption`: types, window counters are written
with an expiry, and the score of a permanent block is beyond every clock.

- *Types* include the block lengths of the ladder: for every offense count the TTL is
  positive, at most the cap and at least the smaller of base and cap (`LadderBound`). `Rungs` is a recursive function, so this is an induction; it
  is carried out by a least counterexample (`LeastOf`, from the well-foundedness of strict
  inclusion between finite sets), not with an induction theorem.
- *`IndexCoversBlocks`* is inductive with the types: a script writes block and entry in one
  step, the preparation of a scan drops an entry only when its score, which is the
  block's deadline, has passed, and a heal only when the block is gone.
- *`CompleteScanIsExact`* needs `ScanInv`: while the scan still claims to be complete and
  the generation is the one it started from (`Vouched`), every block whose entry the scan
  has been past (`Reached`) and that is not in the page at hand is in the result with its
  value, or gone. Other steps keep it because a generation that did not move stands for an
  index that did not move, over blocks that are as they were or gone (`Settled`). The
  scan's own steps are about ranks: `RankType` and `RankOnto` say that ranks number the
  index from 1 without gaps, so a full page ends where the next begins and a short or
  empty page is the last.
- *`VotesAreSeen`* needs `VoteInv`: what a vote set holds are the votes the server ran
  last, a running vote is in the set of its level, and the set expires no earlier than it;
  and `AskInv`: unless an instance's last call is in `doubt`, every command of it that may
  still run asks for the same, and so does what the server ran when the call was
  answered. `doubt` is decided when a call is made (a command of an earlier one is on its
  way) and when it fails, never by what happens to the vote.
- *`ReadExpiryIsSafe`* needs `ClockInv`: a call is over within `CallBudget`, and the TTL of a
  reply, counted from the moment the question was asked, ends no later than the key.
- *`OffensesCountOnce`* needs `RetryInv`: a commit expects a block older than its own call,
  and once it took effect each copy of it that can still run is fenced (`Fenced`): the
  hold of an unblock, or a block younger than the expected one, is in its way and lasts as
  long as the call may. A block's age is the call that wrote it, since every value
  carries its writer's owner token.

`CommitsAreFenced` says what that argument needs of the calls. The blocks of a commit and
the hold of an unblock last at least as long as a call with its retry: a call takes about
1.1 seconds at worst (`redis.go:45-62`), the hold is 2 seconds, and ladders start at
minutes. And nothing but commits and unblocks writes the block of a commit meanwhile.
The second half is a real restriction: an operator's `BlockIP` is a plain `Set`, and TLC
finds the behaviour in which a retried `Set` puts back the very value the commit had
compared with, so that the retry of the commit matches again and the offense counts
twice. `MCRedis` assumes `CommitsAreFenced`, so the run is an instance of the theorem.

Inductive invariants were checked by TLC on a small instance before they were proved.

### Only model-checked

- Liveness and fairness (`Converges`, `FleetCalms`, `AllReturn`, `EveryCallEnds`): out of the
  prover's reach.
- `Store` and `Pebble` with the refinement between them: the mapping picks the instant of a
  call out of a history, and the operations are tables over records that the provers would
  need unfolded case by case.
- `BlockMirror`: its five properties have no proof yet.
- What the ladder computes beyond its bounds, for every number of offenses.

## Known limits of the stated properties

What the models show the code does, and which the properties above exempt, each
at its line:

- `attackmode.go:592`: a pin set while an older one is running out may be dropped
  with it (`PinSticks` exempts the ghost `replaces`).
- `attackmode.go:516`: the pinned level stays in the detector when the pin ends and is
  voted for while it decays.
- `mirror.go:170`: an address removed between its tombstone check and its
  upsert is inserted again until the next reconcile (`ReconcileRepairs` exempts
  addresses touched meanwhile).
- `engine.go:614`: `BlockIP` and `UnblockIP` notify without an ownership check, so two
  operator calls for one IP may notify in the other order (`Overtaken`).
- `manager.go:265`: after the sink's queue overflowed, an older event in it may undo
  the next repair; the one after that holds.
- `nft_linux.go:279-359`: the kernel counts a timeout from the application of the event, so an
  element may outlast its block by the time the event was queued; `Reconcile` leaves the
  timeout of an element that is there, so one that missed an extension ends early and
  is added again by the reconcile after that (`lossy = "kept"` in `SinkFollows`); and as `skip`
  looks at what is left of a block, a reconcile takes the element of a block in its last
  `MinTTL` out of the kernel.
- `scoreboard.go:331`, `379`: a commit that was applied and whose answer was lost returns before
  it notifies. Only a store on the network can do this, and for the mirror it is a
  write it is not told of, as `PeerWrite` is.
- `countercache.go:411-431`: after a `ForgetSync` that reported success a round in flight
  creates the store's record again, and the delete behind it may fail, which
  `flushDelete` drops (`uncleaned` in `ResetSticks`); the comment at 420-422 says that such a
  round "is cleaned up behind us".
- `countercache.go:381`: a pushed total that the sweep evicts counts from one
  again until its next push returns.
- `engine.go:276`: a list the old provider installs between `Reload`'s copy and its
  swap is left behind (the ghost `late`).
- `provider.go:221`: after a restart the cached list is read by the refresher, so the
  first requests may see none.
- `stateless_challenge.go:437`: after a successful swap the local claim's answer is
  ignored; a second redemption whose own swap failed in between has minted as well.
- `stateless_challenge.go:337`: `challenge_ttl` is resolved at redemption; raised by a reload
  it can outlast markers that were sized by the old value.
- `tokencache.go:72`: a full replay cache is cleared as a whole; `FailOpenOnce` counts
  from the last clearing or restart.
- `feeds.go:113`: `install` refuses an empty body over its own feed's list, but a reload
  loads a local file into a new feed: emptied first, it replaces the live list by
  nothing (`URLListSurvives` is about URL feeds; the guide exempts a file's first load).
- `challenge.go:296`: a rotation reads its clock before it takes the file lock; a token
  issued after the reading and signed before the rotation has the lock is later than
  its key's retirement and is not accepted (`Genuine` in `Keys`).
- `jwt.go:51-53`: `iat`, `nbf` and `exp` are cut to whole seconds, so a token ends up to a
  second early, and one minted in the second in which its key was retired counts as
  older than the retirement. `nbf` is tested against the verifier's clock
  (`jwt.go:253`): a token from a replica that is ahead is refused until the verifier
  catches up. `Keys` has one clock for all replicas and exact claims, so neither is a
  case of `Vouches`; `RotationKeepsTokens` says nothing about such tokens.
- `stateless_challenge.go:303-325`: both key refreshes of a redemption are throttled, so a
  challenge a peer issued under a key it has just rotated to may be unknown here until
  the next refresh. `Challenge` takes the match of the MAC as given; the refreshes are
  those of `Keys`.
- `jwt.go:198`: a verification that read the keys before a refresh may put its verdict
  back after the cache was cleared, for up to 15 minutes (the ghost `recached`).
- `challenge.go:404`: the error of a refresh after a miss is cleared by a routine refresh
  within the interval; the staleness bound of `RetiredKeyDies` is two intervals.
- `key.go:274`: a crash while the archive is written leaves a file that makes every
  key load fail, start-up included, until it is removed or 30 days old.
- `redis.go:61`: the client sends a command whose answer was late again. A repeated
  `CommitBlock` answers `newer_block` although its first run took effect; a repeated
  `CommitEvent` or `IncrByDeadline` counts twice. `OffensesCountOnce` is proved where nobody
  overwrites or deletes the block between two runs of its commit (`CommitsAreFenced`): with
  the block deleted, or put back by an operator's retried `Set`, the ladder advances
  again.
- `redis.go:61`, `737-748`: a command for a vote that timed out and is still on its way may
  run after the call that follows it. A late `SetPostureVote` so revives a vote that the
  `DeletePostureVote` behind it withdrew, although that one was answered, for at most the
  vote's TTL: the "compensating DELETE" of `attackmode.go:772-774` is issued but not
  ordered (`doubt` in `VotesAreSeen`; the run reaches it). In `AttackMode` a vote that timed
  out has reached the store or never does, so `MutedIsSilent` is about the calls a replica
  makes, not about such a straggler.
- `redis.go:596`: the scan's preparation drops index entries whose score has passed, and
  so a block in its last millisecond; the properties say "with time left".
- `pebble.go`, `Get`: it takes no lock, so a key whose deadline passes between the read
  and the comparison is absent although it is being renewed. `Store`'s `See` and `Judge`
  allow it.
- `server.go:530`: escalation is counted before the challenge is issued, so a page that
  ends in a 503 counts as abandoned. A second post of a solved challenge whose first
  answer was lost is reported as tampering.
- `engine.go:759`: the hosts an unblock clears are those of the ring and of the
  configuration; `Request` has one host, which is always among them.
- `challenge.go:367`: the deadline test, the look at the running round and the
  compare-and-swap of `refreshKeysBeforeTokenAccept` are one action in `Keys`.

## What is not modelled

- *Signatures, proofs of work, DNS, netlink and HTTP*: their verdicts are inputs.
- *Text*: the syntax and validation of the configuration, WAF patterns, header rules, media types, log lines. Stateless
  functions of strings; what they answer is a trait or an input.
- *Floating point*: the anomaly model's scores, the thresholds of the attack
  detector's window.
- *Metrics and diagnostics*: nothing reads them back.
- *Block lengths in `Scoreboard`*: the backoff ladder is in `Store`, `Pebble` and `Redis`.
  An automatic block may replace an operator's longer one (`scoreboard.go:331`), since the
  commit compares the value and not the expiry; no property states who should win.
- *Health checks, bot verification, the caches of header keys and anomaly models*:
  single-flight maps and pollers around DNS, files and probes, whose races resemble
  those of `Engine`'s feeds and `Keys`' refreshes. Their answers are inputs of `Request`.
- *`instrumented.go`, tools, the WASM guest*: they forward calls, parse command lines or
  run `Pipeline`'s stateless part.
- *What recursive definitions compute* stays with TLC, except for the bounds of the Redis
  ladder.

## Plan

Modelled so far, in the order of the weight of the promise: the counter cache, the
scoreboard, the mirror, the posture, the engine, challenges, keys; then the store
backends against one contract; then the pipeline with the visit around it.

What is left:

1. **Proofs**: `ReconcileRepairs` and `OwnedNotifyIsCurrent` of the mirror.
2. **Bot verification and health**: the single flight with its two caches; bounded
   probes with generations.
3. **Composition**: `Scoreboard` with `BlockMirror` for one IP, so that an unblock is a
   boundary at the mirror too.

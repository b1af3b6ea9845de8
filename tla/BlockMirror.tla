----------------------------- MODULE BlockMirror -----------------------------
(***************************************************************************)
(* core/enforce (manager.go, mirror.go, the sink contract): the in-process *)
(* mirror of the active blocks and one external sink, fed by notifications *)
(* after each store write and repaired by a periodic reconcile.  Writers   *)
(* are Scoreboard.Block, Scoreboard.CommitUnblock and Engine.BlockIP after *)
(* their decision is made; requests are behaviourBlockStage's.             *)
(*                                                                         *)
(* Every critical section and every store call is one action.  Only one    *)
(* reconcile runs at a time, and every timestamp and generation it compares*)
(* is compared with the one it took when it started; so `recent', tombs,   *)
(* genMoved and eventMoved say which side of that moment a stamp is on, and*)
(* between two reconciles every stamp is on the earlier side of the next.  *)
(* A block value's owner token is the writer that wrote it.                *)
(***************************************************************************)
EXTENDS Integers, Sequences, FiniteSets

CONSTANTS
    IPs,
    Writers,        \* block and unblock calls of this process
    Peer,           \* the owner of a block another replica placed
    None,           \* no owner, no address
    ReadThroughMode,\* cfg.Mode = ModeReadThrough: other replicas share the store
    Active,         \* the IPs this process blocks and unblocks
    PeerIPs,        \* the IPs other replicas block and unblock
    Overtaken,      \* the IPs whose writers may run concurrently
    Lifetimes,      \* TTLs of blocks, in ticks
    LearnTTL,       \* two reconcile intervals, in ticks
    MaxPerShard,    \* capacity of the (one) mirror shard
    MaxEntries,     \* limit of the index scan
    MaxTombstones,
    SinkQueueCap,
    NeverBlock,     \* loopback, private or never_block addresses: not for the kernel
    MinTTL,         \* cfg.MinTTL: blocks shorter than this are not for the kernel either
    MaxTime, MaxWrites, MaxFailures     \* bounds of the model

ASSUME MirrorAssumption ==
    /\ Peer \notin Writers /\ None \notin Writers \cup {Peer} /\ None \notin IPs
    /\ Active \subseteq IPs /\ PeerIPs \subseteq IPs /\ Overtaken \subseteq Active
    /\ ReadThroughMode \in BOOLEAN /\ (PeerIPs # {} => ReadThroughMode)
    /\ Lifetimes \subseteq Nat \ {0} /\ LearnTTL \in Nat \ {0}
    /\ MaxPerShard \in Nat \ {0} /\ MaxEntries \in Nat \ {0}
    /\ MaxTombstones \in Nat \ {0} /\ SinkQueueCap \in Nat \ {0}
    /\ NeverBlock \subseteq IPs /\ MinTTL \in Nat
    /\ MaxTime \in Nat /\ MaxWrites \in Nat /\ MaxFailures \in Nat

VARIABLES
    now,
    owner, until,           \* the store's block of each IP: owner (or None) and expiry
    mirror, recent,         \* mirror entries: expiry (0 = absent), inserted since the scan began
    tombs,                  \* mirror.tombs: "none", "old" or "new" (since the scan began)
    complete, genMoved,     \* mirrorState: the flag, and whether the generation moved
    seeded,
    mu,                     \* notifyMu: the writer that holds it
    wpc, wip, wttl,         \* writers: step, IP, TTL
    learning,               \* requests that found a block in the store, before Learn
    rpc, scanAt, snap, scannedAll, todo, cur, fits,     \* reconcileOnce's locals
    queue,                  \* the sink's channel
    sink,                   \* the expiry of each IP's element in the sink, 0 = absent
    eventMoved,             \* sinkGeneration moved since the scan began
    writes, failures,       \* bound the model
    touched,                \* ghost: IPs written or learnt since the scan began
    provisional,            \* ghost: IPs whose mirror entry has an end that is not its block's
    lossy                   \* ghost: whether the sink missed the last change of an IP, because
                            \* a step failed ("yes") or the change was another's ("peer"), was
                            \* then repaired while older events of it were still queued
                            \* ("repaired"), or kept an element with another timeout ("kept")

storeVars  == <<owner, until>>
mirrorVars == <<mirror, recent, tombs, complete, genMoved>>
writerVars == <<mu, wpc, wip, wttl>>
scanVars   == <<rpc, scanAt, snap, scannedAll, todo, cur, fits, seeded>>
sinkVars   == <<queue, sink, eventMoved>>
boundVars  == <<writes, failures>>
vars == <<now, storeVars, mirrorVars, writerVars, learning, scanVars, sinkVars,
          boundVars, touched, provisional, lossy>>

-----------------------------------------------------------------------------

Event == [ip : IPs, remove : BOOLEAN, ttl : Nat]

StoreLive(ip)  == owner[ip] # None /\ now < until[ip]
MirrorLive(ip) == mirror[ip] # 0 /\ now < mirror[ip]
SinkLive(ip)   == sink[ip] # 0 /\ now < sink[ip]

\* ReadThrough: whether a mirror miss must still consult the store.
ReadThrough == ReadThroughMode \/ ~seeded \/ ~complete

\* A writer of ip is between its store write and its notification.
InFlight(ip) == \E w \in Writers : wpc[w] # "idle" /\ wip[w] = ip

(* Types of the variables.                                                 *)
TypeOK ==
    /\ now \in 0..MaxTime
    /\ owner \in [IPs -> Writers \cup {Peer, None}]
    /\ until \in [IPs -> Nat]
    /\ mirror \in [IPs -> Nat]
    /\ recent \in SUBSET IPs
    /\ tombs \in [IPs -> {"none", "old", "new"}]
    /\ complete \in BOOLEAN /\ genMoved \in BOOLEAN /\ seeded \in BOOLEAN
    /\ mu \in Writers \cup {None}
    /\ wpc \in [Writers -> {"idle", "owned", "apply", "add", "remove", "entomb"}]
    /\ wip \in [Writers -> IPs \cup {None}]
    /\ wttl \in [Writers -> Nat]
    /\ learning \in SUBSET IPs
    /\ rpc \in {"idle", "scan", "delete", "check", "set", "publish", "sink"}
    /\ scanAt \in Nat /\ snap \in [IPs -> Nat]
    /\ scannedAll \in BOOLEAN /\ fits \in BOOLEAN
    /\ todo \in SUBSET IPs /\ cur \in IPs \cup {None}
    /\ queue \in Seq(Event)
    /\ sink \in [IPs -> Nat]
    /\ eventMoved \in BOOLEAN
    /\ writes \in 0..MaxWrites /\ failures \in 0..MaxFailures
    /\ touched \in SUBSET IPs /\ provisional \in SUBSET IPs
    /\ lossy \in [IPs -> {"no", "yes", "peer", "repaired", "kept"}]

\* A process that starts on a store whose blocks an earlier run placed.
Init ==
    /\ now = 0
    /\ owner \in [IPs -> {Peer, None}]
    /\ \E ttl \in Lifetimes : until = [ip \in IPs |-> IF owner[ip] = None THEN 0 ELSE ttl]
    /\ mirror = [ip \in IPs |-> 0] /\ recent = {}
    /\ tombs = [ip \in IPs |-> "none"]
    /\ complete = FALSE /\ genMoved = FALSE /\ seeded = FALSE
    /\ mu = None
    /\ wpc = [w \in Writers |-> "idle"]
    /\ wip = [w \in Writers |-> None]
    /\ wttl = [w \in Writers |-> 0]
    /\ learning = {}
    /\ rpc = "idle" /\ scanAt = 0 /\ snap = [ip \in IPs |-> 0]
    /\ scannedAll = FALSE /\ todo = {} /\ cur = None /\ fits = FALSE
    /\ queue = <<>> /\ sink = [ip \in IPs |-> 0] /\ eventMoved = FALSE
    /\ writes = 0 /\ failures = 0
    /\ touched = {} /\ provisional = {} /\ lossy = [ip \in IPs |-> "yes"]

-----------------------------------------------------------------------------
(* Stamps: what happened since the running scan began.                     *)

Scanning == rpc # "idle"
Since(S, ip) == IF Scanning THEN S \cup {ip} ELSE S

\* The reconcile ends: whatever was stamped is older than the next scan.
ScanEnds ==
    /\ rpc' = "idle" /\ scanAt' = 0 /\ snap' = [ip \in IPs |-> 0]
    /\ scannedAll' = FALSE /\ fits' = FALSE
    /\ recent' = {} /\ touched' = {} /\ genMoved' = FALSE /\ eventMoved' = FALSE
    /\ tombs' = [ip \in IPs |-> IF tombs[ip] = "new" THEN "old" ELSE tombs[ip]]

-----------------------------------------------------------------------------
(* mirror.set and mirror.remove                                            *)

Entries == {ip \in IPs : mirror[ip] # 0}

\* What a full shard sheds before it takes an entry inserted at time t.
Expired(t) == {ip \in Entries : mirror[ip] <= t}
Room(ip) == ip \in Entries \/ Cardinality(Entries) < MaxPerShard
RoomAfterShedding(t) == Cardinality(Entries \ Expired(t)) < MaxPerShard
MirrorFits(ip, t) == Room(ip) \/ RoomAfterShedding(t)

\* mirror.set: upsert ip until exp, or leave it to the store path.
MirrorSet(ip, exp, t) ==
    LET shed == IF Room(ip) THEN {} ELSE Expired(t) IN
    [x \in IPs |-> IF x = ip /\ MirrorFits(ip, t) THEN exp
                   ELSE IF x \in shed THEN 0 ELSE mirror[x]]

\* A write-through entry: a drop marks the mirror incomplete under a new generation.
WriteThrough(ip, exp) ==
    /\ mirror' = MirrorSet(ip, exp, now)
    /\ IF MirrorFits(ip, now)
       THEN /\ recent' = Since(recent, ip)
            /\ UNCHANGED <<complete, genMoved>>
       ELSE /\ complete' = FALSE /\ genMoved' = Scanning
            /\ UNCHANGED recent

Tombs(class) == {ip \in IPs : tombs[ip] = class}

\* mirror.remove's tombstone; at the cap the oldest one makes room.
Entomb(ip) ==
    LET class == IF Scanning THEN "new" ELSE "old" IN
    IF Cardinality(Tombs("old") \cup Tombs("new")) < MaxTombstones
    THEN tombs' = [tombs EXCEPT ![ip] = class]
    ELSE \E oldest \in (IF Tombs("old") # {} THEN Tombs("old") ELSE Tombs("new")) :
            tombs' = [tombs EXCEPT ![oldest] = "none", ![ip] = class]

-----------------------------------------------------------------------------
(* notifyLocked's sink half: a new generation, then the bounded queue.     *)

Enqueue(ip, remove, ttl) ==
    /\ eventMoved' = Scanning
    /\ \/ /\ Len(queue) < SinkQueueCap
          /\ queue' = Append(queue, [ip |-> ip, remove |-> remove, ttl |-> ttl])
          /\ lossy' = [lossy EXCEPT ![ip] = "no"]
       \/ /\ Len(queue) >= SinkQueueCap
          /\ lossy' = [lossy EXCEPT ![ip] = "yes"]
          /\ UNCHANGED queue

-----------------------------------------------------------------------------
(* Writers                                                                 *)

\* A write of ip, in the middle of another one only where writers overtake each other.
MayWrite(ip) == writes < MaxWrites /\ (ip \in Overtaken \/ ~InFlight(ip))
MayStart(w, ip) == wpc[w] = "idle" /\ MayWrite(ip)

Begin(w, ip, step, ttl) ==
    /\ wpc' = [wpc EXCEPT ![w] = step]
    /\ wip' = [wip EXCEPT ![w] = ip]
    /\ wttl' = [wttl EXCEPT ![w] = ttl]
    /\ writes' = writes + 1
    /\ touched' = Since(touched, ip)
    /\ UNCHANGED <<now, mirrorVars, mu, learning, scanVars, sinkVars, failures, provisional,
                   lossy>>

End(w) ==
    /\ wpc' = [wpc EXCEPT ![w] = "idle"]
    /\ wip' = [wip EXCEPT ![w] = None]
    /\ wttl' = [wttl EXCEPT ![w] = 0]

\* Scoreboard.Block's commit, or Engine.BlockIP's Set: the store first.
WriteBlock(w, ip, ttl) ==
    /\ MayStart(w, ip)
    /\ owner' = [owner EXCEPT ![ip] = w]
    /\ until' = [until EXCEPT ![ip] = now + ttl]
    /\ \/ Begin(w, ip, "owned", ttl)
       \/ Begin(w, ip, "add", ttl)

\* Scoreboard.CommitUnblock.
WriteUnblock(w, ip) ==
    /\ MayStart(w, ip)
    /\ owner' = [owner EXCEPT ![ip] = None]
    /\ until' = [until EXCEPT ![ip] = 0]
    /\ Begin(w, ip, "remove", 0)

\* Faulty variant: the ownership is read before notifyMu is taken.
NotifyOwnedReadUnlocked(w) ==
    /\ wpc[w] = "owned"
    /\ IF owner[wip[w]] = w
       THEN wpc' = [wpc EXCEPT ![w] = "apply"] /\ UNCHANGED <<wip, wttl>>
       ELSE End(w)
    /\ UNCHANGED <<now, storeVars, mirrorVars, mu, learning, scanVars, sinkVars, boundVars,
                   touched, provisional, lossy>>

\* NotifyOwned under notifyMu: the ownership read.  A block that is no longer the
\* writer's is dropped; a failed read makes the mirror incomplete.
NotifyOwnedRead(w) ==
    LET ip == wip[w] IN
    /\ wpc[w] = "owned" /\ mu = None
    /\ \/ /\ owner[ip] = w /\ StoreLive(ip)
          /\ mu' = w
          /\ wpc' = [wpc EXCEPT ![w] = "apply"]
          /\ UNCHANGED <<wip, wttl, complete, genMoved, lossy, failures>>
       \/ /\ ~(owner[ip] = w /\ StoreLive(ip))
          /\ End(w)
          /\ UNCHANGED <<mu, complete, genMoved, lossy, failures>>
       \/ /\ failures < MaxFailures
          /\ failures' = failures + 1
          /\ complete' = FALSE /\ genMoved' = Scanning
          /\ lossy' = [lossy EXCEPT ![ip] = "yes"]
          /\ End(w)
          /\ UNCHANGED mu
    /\ UNCHANGED <<now, storeVars, mirror, recent, tombs, learning, scanVars, sinkVars,
                   writes, touched, provisional>>

\* notifyLocked's expiry: the TTL counts from the notification.
NotifyExpiry(ttl) == now + ttl

\* notifyLocked of an addition; Notify takes notifyMu for it, NotifyOwned has it.
NotifyAdd(w) ==
    LET ip == wip[w] IN
    /\ wpc[w] \in {"add", "apply"} /\ mu \in {None, w}
    /\ WriteThrough(ip, NotifyExpiry(wttl[w]))
    /\ Enqueue(ip, FALSE, wttl[w])
    /\ mu' = None
    /\ End(w)
    /\ touched' = Since(touched, ip)
    /\ provisional' = provisional \ {ip}
    /\ UNCHANGED <<now, storeVars, tombs, learning, scanVars, sink, boundVars>>

\* notifyLocked of a removal: mirror.remove deletes the entry ...
NotifyRemove(w) ==
    /\ wpc[w] = "remove" /\ mu = None
    /\ mu' = w
    /\ wpc' = [wpc EXCEPT ![w] = "entomb"]
    /\ mirror' = [mirror EXCEPT ![wip[w]] = 0]
    /\ recent' = recent \ {wip[w]}
    /\ touched' = Since(touched, wip[w])
    /\ provisional' = provisional \ {wip[w]}
    /\ UNCHANGED <<now, storeVars, tombs, complete, genMoved, wip, wttl, learning,
                   scanVars, sinkVars, boundVars, lossy>>

\* ... and leaves a tombstone under another lock.
NotifyEntomb(w) ==
    /\ wpc[w] = "entomb"
    /\ Entomb(wip[w])
    /\ Enqueue(wip[w], TRUE, 0)
    /\ mu' = None
    /\ End(w)
    /\ touched' = Since(touched, wip[w])
    /\ UNCHANGED <<now, storeVars, mirror, recent, complete, genMoved, learning, scanVars,
                   sink, boundVars, provisional>>

-----------------------------------------------------------------------------
(* Requests: behaviourBlockStage's store read on a miss, then Learn.       *)

RequestMisses(ip) ==
    /\ ip \notin learning
    /\ ~MirrorLive(ip) /\ ReadThrough /\ StoreLive(ip)
    /\ learning' = learning \cup {ip}
    /\ touched' = Since(touched, ip)
    /\ UNCHANGED <<now, storeVars, mirrorVars, writerVars, scanVars, sinkVars, boundVars,
                   provisional, lossy>>

\* The retention is two reconcile intervals, whatever the block's is.
Learn(ip) ==
    /\ ip \in learning
    /\ learning' = learning \ {ip}
    /\ WriteThrough(ip, now + LearnTTL)
    /\ touched' = Since(touched, ip)
    /\ provisional' = provisional \cup {ip}
    /\ UNCHANGED <<now, storeVars, tombs, writerVars, scanVars, sinkVars, boundVars, lossy>>

-----------------------------------------------------------------------------
(* reconcileOnce                                                           *)

\* The scan's start time and the generations it will be compared with.
ReconcileStart ==
    /\ rpc = "idle"
    /\ rpc' = "scan" /\ scanAt' = now
    /\ touched' = {ip \in IPs : InFlight(ip)} \cup learning
    /\ UNCHANGED <<now, storeVars, mirrorVars, writerVars, learning, snap, scannedAll, todo, cur,
                   fits, seeded, sinkVars, boundVars, provisional, lossy>>

LiveBlocks == {ip \in IPs : StoreLive(ip)}

\* ScanActiveBlocks up to its limit; an error keeps the last mirror state.
ReconcileScan ==
    /\ rpc = "scan"
    /\ \/ \E S \in SUBSET LiveBlocks :
             /\ Cardinality(S) = IF Cardinality(LiveBlocks) <= MaxEntries
                                 THEN Cardinality(LiveBlocks) ELSE MaxEntries
             /\ scannedAll' = (S = LiveBlocks)
             /\ snap' = [ip \in IPs |-> IF ip \in S THEN until[ip] ELSE 0]
             /\ rpc' = "delete"
             /\ UNCHANGED <<scanAt, fits, recent, tombs, genMoved, eventMoved, touched, failures>>
       \/ /\ failures < MaxFailures
          /\ failures' = failures + 1
          /\ ScanEnds
    /\ UNCHANGED <<now, storeVars, mirror, complete, writerVars, learning, todo, cur, seeded,
                   queue, sink, writes, provisional, lossy>>

\* Faulty variant: the comparison with the scan's start is the wrong way round.
NotScannedButRecent == {ip \in Entries : snap[ip] = 0 /\ ip \in recent}

\* Entries the scan did not see go, unless they were written since it began.
NotScanned == {ip \in Entries : snap[ip] = 0 /\ ip \notin recent}

ReconcileDelete ==
    /\ rpc = "delete"
    /\ rpc' = "check"
    /\ todo' = {ip \in IPs : snap[ip] # 0}
    /\ fits' = scannedAll
    /\ LET gone == IF scannedAll THEN NotScanned ELSE {}
       IN  /\ mirror' = [ip \in IPs |-> IF ip \in gone THEN 0 ELSE mirror[ip]]
           /\ provisional' = provisional \ gone
    /\ UNCHANGED <<now, storeVars, recent, tombs, complete, genMoved, writerVars, learning,
                   scanAt, snap, scannedAll, cur, seeded, sinkVars, boundVars, touched, lossy>>

\* The upsert loop: removedSince, which also drops a tombstone too old to matter ...
ReconcileCheck ==
    /\ rpc = "check" /\ todo # {}
    /\ \E ip \in todo :
          /\ todo' = todo \ {ip}
          /\ tombs' = IF tombs[ip] = "old" THEN [tombs EXCEPT ![ip] = "none"] ELSE tombs
          /\ \/ tombs[ip] = "new" /\ UNCHANGED <<rpc, cur>>
             \/ tombs[ip] # "new" /\ rpc' = "set" /\ cur' = ip
    /\ UNCHANGED <<now, storeVars, mirror, recent, complete, genMoved, writerVars, learning,
                   scanAt, snap, scannedAll, fits, seeded, sinkVars, boundVars, touched, provisional, lossy>>

\* ... then, under the shard lock, set with the scanned expiry.
ReconcileSet ==
    /\ rpc = "set"
    /\ rpc' = "check" /\ cur' = None
    /\ mirror' = MirrorSet(cur, snap[cur], scanAt)
    /\ recent' = IF MirrorFits(cur, scanAt) THEN recent \cup {cur} ELSE recent
    /\ provisional' = IF ~MirrorFits(cur, scanAt) THEN provisional
                      ELSE IF snap[cur] = until[cur] THEN provisional \ {cur}
                      ELSE provisional \cup {cur}
    /\ fits' = (fits /\ MirrorFits(cur, scanAt))
    /\ UNCHANGED <<now, storeVars, tombs, complete, genMoved, writerVars, learning, scanAt,
                   snap, scannedAll, todo, seeded, sinkVars, boundVars, touched, lossy>>

\* pruneTombstones ends the loop.
ReconcilePrune ==
    /\ rpc = "check" /\ todo = {}
    /\ rpc' = "publish"
    /\ tombs' = [ip \in IPs |-> IF tombs[ip] = "old" THEN "none" ELSE tombs[ip]]
    /\ UNCHANGED <<now, storeVars, mirror, recent, complete, genMoved, writerVars, learning,
                   scanAt, snap, scannedAll, todo, cur, fits, seeded, sinkVars, boundVars, touched,
                   provisional, lossy>>

\* Faulty variant: publish whatever happened since the scan began.
PublishedRegardless == fits

\* publishMirrorReconcile: only if the generation the scan began under stands.
Published == IF genMoved THEN complete ELSE fits

ReconcilePublish ==
    /\ rpc = "publish"
    /\ complete' = Published
    /\ seeded' = TRUE
    /\ \/ /\ scannedAll
          /\ rpc' = "sink"
          /\ UNCHANGED <<scanAt, snap, scannedAll, fits, recent, tombs, genMoved, eventMoved,
                         touched>>
       \/ /\ ~scannedAll
          /\ ScanEnds
    /\ UNCHANGED <<now, storeVars, mirror, writerVars, learning, todo, cur, queue, sink, boundVars,
                   provisional, lossy>>

\* Faulty variant: the replace-all does not ask whether the snapshot is stale.
SnapshotAlwaysCurrent == TRUE

\* No event was published since the scan began.
SnapshotCurrent == ~eventMoved

\* nftSink.skip: what must never reach the kernel.  Every block here has an end.
Skip(ip, ttl) == ip \in NeverBlock \/ ttl < MinTTL

\* Sink.Reconcile removes what the snapshot does not want there and adds what is
\* missing; an element that is there keeps its timeout.
Desired == {ip \in IPs : snap[ip] > now /\ ~Skip(ip, snap[ip] - now)}
Removed == [ip \in IPs |-> IF ip \in Desired THEN sink[ip] ELSE 0]
Replaced == [ip \in IPs |-> IF ip \in Desired /\ ~SinkLive(ip) THEN snap[ip] ELSE Removed[ip]]

Queued(ip) == \E i \in 1..Len(queue) : queue[i].ip = ip

\* Under the runner's mutex: replace-all, unless an event is newer than the scan.
\* A sink call that fails stops before, between or after its two batches.
ReconcileSink ==
    /\ rpc = "sink"
    /\ ScanEnds
    /\ \/ /\ SnapshotCurrent
          /\ sink' = Replaced
          /\ lossy' = [ip \in IPs |-> IF ip \in touched \/ lossy[ip] = "no" THEN lossy[ip]
                                     ELSE IF Queued(ip) THEN "repaired"
                                     ELSE IF Replaced[ip] \in {0, snap[ip]} THEN "no" ELSE "kept"]
          /\ UNCHANGED failures
       \/ /\ ~SnapshotCurrent
          /\ UNCHANGED <<sink, lossy, failures>>
       \/ /\ SnapshotCurrent /\ failures < MaxFailures
          /\ failures' = failures + 1
          /\ sink' \in {sink, Removed, Replaced}
          /\ UNCHANGED lossy
    /\ UNCHANGED <<now, storeVars, mirror, complete, writerVars, learning, todo, cur, seeded,
                   queue, writes, provisional>>

Reconcile ==
    \/ ReconcileStart \/ ReconcileScan \/ ReconcileDelete \/ ReconcileCheck
    \/ ReconcileSet \/ ReconcilePrune \/ ReconcilePublish \/ ReconcileSink

-----------------------------------------------------------------------------
(* runSink: one event at a time, under the runner's mutex.                 *)

\* Sink.Apply: a removal is never filtered, and the timeout counts from now.
Applied(e) == [sink EXCEPT ![e.ip] = IF e.remove THEN 0
                                     ELSE IF Skip(e.ip, e.ttl) THEN @ ELSE now + e.ttl]

SinkApply ==
    LET e == Head(queue) IN
    /\ queue # <<>>
    /\ queue' = Tail(queue)
    /\ \/ /\ sink' = Applied(e)
          /\ UNCHANGED <<lossy, failures>>
       \/ /\ failures < MaxFailures
          /\ failures' = failures + 1
          /\ lossy' = [lossy EXCEPT ![e.ip] = IF @ = "peer" THEN @ ELSE "yes"]
          /\ UNCHANGED sink
    /\ UNCHANGED <<now, storeVars, mirrorVars, writerVars, learning, scanVars, eventMoved,
                   writes, touched, provisional>>

-----------------------------------------------------------------------------
(* Time and other replicas.                                                *)

\* The kernel drops an element whose timeout is over.
Tick ==
    /\ now < MaxTime
    /\ now' = now + 1
    /\ sink' = [ip \in IPs |-> IF sink[ip] <= now' THEN 0 ELSE sink[ip]]
    /\ UNCHANGED <<storeVars, mirrorVars, writerVars, learning, scanVars, queue, eventMoved,
                   boundVars, touched, provisional, lossy>>

\* Another replica blocks or unblocks, or a write of this process is applied and its answer
\* lost, so that the writer returns the error before it notifies: this process is not told.
PeerWrite(ip) ==
    /\ MayWrite(ip)
    /\ writes' = writes + 1
    /\ \/ /\ owner' = [owner EXCEPT ![ip] = Peer]
          /\ \E ttl \in Lifetimes : until' = [until EXCEPT ![ip] = now + ttl]
       \/ /\ owner' = [owner EXCEPT ![ip] = None]
          /\ until' = [until EXCEPT ![ip] = 0]
    /\ touched' = Since(touched, ip)
    /\ lossy' = [lossy EXCEPT ![ip] = "peer"]
    /\ UNCHANGED <<now, mirrorVars, writerVars, learning, scanVars, sinkVars, failures,
                   provisional>>

Write(w) ==
    \/ \E ip \in Active : WriteUnblock(w, ip) \/ \E ttl \in Lifetimes : WriteBlock(w, ip, ttl)
    \/ NotifyOwnedRead(w) \/ NotifyAdd(w) \/ NotifyRemove(w) \/ NotifyEntomb(w)

Next ==
    \/ \E w \in Writers : Write(w)
    \/ \E ip \in Active \cup PeerIPs : RequestMisses(ip) \/ Learn(ip)
    \/ \E ip \in PeerIPs : PeerWrite(ip)
    \/ Reconcile
    \/ SinkApply
    \/ Tick

Spec == Init /\ [][Next]_vars

\* Writers finish the call they are in, the reconcile loop and the sink worker are
\* goroutines of their own, and a request that read the store goes on to Learn.
Fairness ==
    /\ WF_vars(Reconcile)
    /\ WF_vars(SinkApply)
    /\ \A w \in Writers : WF_vars(NotifyOwnedRead(w) \/ NotifyAdd(w) \/ NotifyRemove(w)
                                  \/ NotifyEntomb(w))
    /\ \A ip \in IPs : WF_vars(Learn(ip))
FairSpec == Spec /\ Fairness

-----------------------------------------------------------------------------
(* Properties                                                              *)

Settled(ip) == ~InFlight(ip) /\ ip \notin learning

(* A complete authoritative mirror misses no block: once the writers of an *)
(* IP have notified, a request that does not consult the store is denied   *)
(* because the mirror knows every block the store holds, while the clock   *)
(* moves, through capacity drops, failed ownership reads and reconciles in *)
(* between.  Two things are outside: where two writers of one IP overtake  *)
(* each other nothing orders their notifications, and an entry may end     *)
(* before its block when it was learnt, or when the reconcile put back the *)
(* end it had scanned over a block written since (mirror.set asks nothing).*)
CompleteMissesNothing ==
    \A ip \in IPs \ Overtaken :
        ~ReadThrough /\ Settled(ip) /\ StoreLive(ip) => MirrorLive(ip) \/ ip \in provisional

(* A reconcile that read the whole index leaves the mirror and the store   *)
(* agreeing on every IP that nobody touched while it ran, unless the mirror*)
(* is full.                                                                *)
ReconcileRepairs ==
    rpc = "publish" /\ scannedAll =>
        \A ip \in IPs \ touched :
            /\ MirrorLive(ip) => StoreLive(ip)
            /\ fits /\ StoreLive(ip) => MirrorLive(ip)

(* The ownership check of NotifyOwned: an automatic block reaches the      *)
(* mirror only while it is the store's block, or while the writer that     *)
(* replaced or removed it has yet to notify and will come after, or when   *)
(* that was another replica, of whose writes this process is not told.     *)
OwnedNotifyIsCurrent ==
    [][\A w \in Writers :
          wpc[w] = "apply" /\ wpc'[w] = "idle" =>
             \/ owner[wip[w]] = w
             \/ \E x \in Writers \ {w} : wpc[x] # "idle" /\ wip[x] = wip[w]
             \/ lossy[wip[w]] = "peer"]_vars

(* The sink follows the store: when an IP has no event queued or in flight,*)
(* and none was lost since the sink last caught up, the sink blocks it     *)
(* wherever the store does and skip() lets it, and not where the block was *)
(* removed; no stale snapshot lands over a newer event.  What must never   *)
(* reach the kernel never does.  An element may outlast its block by the   *)
(* time its event was queued, since the kernel counts from the application.*)
SinkFollows ==
    \A ip \in IPs :
        /\ ip \notin Overtaken /\ ~InFlight(ip) /\ ~Queued(ip) /\ lossy[ip] = "no" =>
              /\ StoreLive(ip) /\ ~Skip(ip, until[ip] - now) => SinkLive(ip)
              /\ owner[ip] = None => ~SinkLive(ip)
        /\ ip \in NeverBlock => ~SinkLive(ip)

(* Once writes stop, the mirror converges on the store, and so does the    *)
(* sink for every block that skip() lets through.                          *)
Converges ==
    <>[](\A ip \in IPs : /\ MirrorLive(ip) <=> StoreLive(ip)
                         /\ SinkLive(ip) => StoreLive(ip)
                         /\ StoreLive(ip) /\ ~Skip(ip, until[ip] - now) => SinkLive(ip))
=============================================================================

------------------------- MODULE CounterCacheProofs -------------------------
(***************************************************************************)
(* Proofs about the counter cache, for any keys, goroutines, bounds, clock *)
(* lag and failures of the store.                                          *)
(*                                                                         *)
(* OwnInv says who may touch a dirty key: it is queued once or in one      *)
(* goroutine's hand. KeyInv says, key by key, which window the pieces of   *)
(* its count belong to: the queued delta is always the entry's window's; a *)
(* claimed batch is of an older window only when a Forget is pending or    *)
(* that window is over; and a store record that no one else wrote to holds *)
(* no more than was acknowledged, unless a delete is on its way.           *)
(***************************************************************************)
EXTENDS CounterCache, TLAPS, FiniteSetTheorems, SequenceTheorems

-----------------------------------------------------------------------------
(* Ownership of dirty keys                                                 *)

OwnTypes ==
    /\ dirty \in SUBSET Keys /\ del \in SUBSET Keys
    /\ queue \in Seq(Keys) /\ workers \in Nat
    /\ pc \in [Goroutines -> PC] /\ hand \in [Goroutines -> Keys \cup {NoKey}]
    /\ flush \in {"no", "waiting", "counting", "ok", "left", "ctx"}

\* Between two keys a goroutine holds none.
HandInv == \A g \in Goroutines : hand[g] = NoKey <=> pc[g] \in {"off", "loop"}

IsQueued(k) == \E i \in 1 .. Len(queue) : queue[i] = k
IsHeld(k)   == \E g \in Goroutines : hand[g] = k

\* A dirty key is queued once or in one hand.
Owners ==
    /\ \A g, h \in Goroutines : hand[g] = hand[h] /\ hand[g] \in Keys => g = h
    /\ \A k \in Keys : ~(IsQueued(k) /\ IsHeld(k))
    /\ \A i, j \in 1 .. Len(queue) : queue[i] = queue[j] => i = j
    /\ \A k \in Keys : k \in dirty <=> IsHeld(k) \/ IsQueued(k)

\* c.workers is the number of goroutines, and somebody is there to drain the queue.
Running == {g \in Goroutines : pc[g] # "off"}
Crew == /\ workers = Cardinality(Running) /\ workers <= MaxFlushWorkers
        /\ queue # <<>> => workers > 0

Quiet == flush \in {"counting", "ok", "left"} => queue = <<>> /\ workers = 0

OwnInv == OwnTypes /\ HandInv /\ Owners /\ Crew /\ del \subseteq dirty /\ Quiet

\* Ownership as the property states it.
LEMMA OwnIs ==
    ASSUME OwnInv
    PROVE  SingleOwner /\ \A g \in Goroutines, k \in Keys : Owns(g, k) <=> hand[g] = k
<1>1. \A g \in Goroutines, k \in Keys : Owns(g, k) <=> hand[g] = k
    BY KeysAssumption DEF OwnInv, HandInv, Owns
<1>2. \A i \in 1 .. Len(queue) : queue[i] \in Keys
    BY DEF OwnInv, OwnTypes
<1> QED
    BY <1>1, <1>2 DEF OwnInv, SingleOwner, Owners, Crew, Running, IsQueued, IsHeld

\* A new dirty key is queued.
LEMMA Enqueued ==
    ASSUME OwnTypes, Owners, NEW k \in Keys \ dirty,
           dirty' = dirty \cup {k}, queue' = Append(queue, k), hand' = hand
    PROVE  Owners' /\ queue' \in Seq(Keys) /\ queue' # <<>>
<1>1. /\ queue' \in Seq(Keys) /\ queue' # <<>> /\ Len(queue') = Len(queue) + 1
      /\ \A i \in 1 .. Len(queue) : queue'[i] = queue[i]
      /\ queue'[Len(queue) + 1] = k /\ Len(queue) \in Nat
    BY AppendProperties, LenProperties DEF OwnTypes
<1>2. ~IsHeld(k) /\ ~IsQueued(k)
    BY DEF Owners
<1>3. \A j \in Keys : (IsQueued(j))' <=> IsQueued(j) \/ j = k
    BY <1>1 DEF IsQueued
<1>4. \A j \in Keys : (IsHeld(j))' <=> IsHeld(j)
    BY DEF IsHeld
<1>5. \A i, j \in 1 .. Len(queue') : queue'[i] = queue'[j] => i = j
    BY <1>1, <1>2 DEF Owners, IsQueued
<1> QED
    BY <1>1, <1>2, <1>3, <1>4, <1>5 DEF Owners

\* A held key is queued again.
LEMMA Requeued ==
    ASSUME OwnTypes, Owners, NEW g \in Goroutines, NEW k \in Keys, hand[g] = k,
           dirty' = dirty, queue' = Append(queue, k), hand' = [hand EXCEPT ![g] = NoKey]
    PROVE  Owners' /\ queue' \in Seq(Keys) /\ queue' # <<>>
<1>1. /\ queue' \in Seq(Keys) /\ queue' # <<>> /\ Len(queue') = Len(queue) + 1
      /\ \A i \in 1 .. Len(queue) : queue'[i] = queue[i]
      /\ queue'[Len(queue) + 1] = k /\ Len(queue) \in Nat
    BY AppendProperties, LenProperties DEF OwnTypes
<1>2. IsHeld(k) /\ ~IsQueued(k)
    BY DEF Owners, IsHeld
<1>3. \A j \in Keys : (IsQueued(j))' <=> IsQueued(j) \/ j = k
    BY <1>1 DEF IsQueued
<1>4. /\ \A j \in Keys : (IsHeld(j))' <=> IsHeld(j) /\ j # k
      /\ \A f, h \in Goroutines : hand'[f] = hand'[h] /\ hand'[f] \in Keys => f = h
    BY KeysAssumption DEF IsHeld, Owners, OwnTypes
<1>5. \A i, j \in 1 .. Len(queue') : queue'[i] = queue'[j] => i = j
    BY <1>1, <1>2 DEF Owners, IsQueued
<1> QED
    BY <1>1, <1>2, <1>3, <1>4, <1>5 DEF Owners

\* A held key is clean.
LEMMA Dropped ==
    ASSUME OwnTypes, Owners, NEW g \in Goroutines, NEW k \in Keys, hand[g] = k,
           dirty' = dirty \ {k}, queue' = queue, hand' = [hand EXCEPT ![g] = NoKey]
    PROVE  Owners'
<1>2. IsHeld(k) /\ ~IsQueued(k)
    BY DEF Owners, IsHeld
<1>3. \A j \in Keys : (IsQueued(j))' <=> IsQueued(j)
    BY DEF IsQueued
<1>4. /\ \A j \in Keys : (IsHeld(j))' <=> IsHeld(j) /\ j # k
      /\ \A f, h \in Goroutines : hand'[f] = hand'[h] /\ hand'[f] \in Keys => f = h
    BY KeysAssumption DEF IsHeld, Owners, OwnTypes
<1> QED
    BY <1>2, <1>3, <1>4 DEF Owners

\* A goroutine takes the first key of the queue.
LEMMA Taken ==
    ASSUME OwnTypes, Owners, NEW g \in Goroutines, hand[g] = NoKey, queue # <<>>,
           dirty' = dirty, queue' = Tail(queue), hand' = [hand EXCEPT ![g] = Head(queue)]
    PROVE  Owners' /\ queue' \in Seq(Keys) /\ Head(queue) \in Keys /\ ~IsHeld(Head(queue))
<1>1. /\ queue' \in Seq(Keys) /\ Len(queue') = Len(queue) - 1 /\ Len(queue) \in Nat
      /\ \A i \in 1 .. Len(queue') : queue'[i] = queue[i + 1]
      /\ Head(queue) = queue[1] /\ Head(queue) \in Keys /\ Len(queue) > 0
    BY HeadTailProperties, LenProperties, EmptySeq DEF OwnTypes
<1>2. PICK k \in Keys : k = Head(queue)
    BY <1>1
<1>3. IsQueued(k) /\ ~IsHeld(k)
    BY <1>1, <1>2 DEF Owners, IsQueued
<1>4. \A j \in Keys : (IsQueued(j))' <=> IsQueued(j) /\ j # k
    <2>1. ASSUME NEW j \in Keys, IsQueued(j), j # k
          PROVE  (IsQueued(j))'
        <3>1. PICK i \in 1 .. Len(queue) : queue[i] = j
            BY <2>1 DEF IsQueued
        <3>2. i - 1 \in 1 .. Len(queue') /\ queue'[i - 1] = j
            BY <1>1, <1>2, <2>1, <3>1
        <3> QED
            BY <3>2 DEF IsQueued
    <2>2. ASSUME NEW j \in Keys, (IsQueued(j))'
          PROVE  IsQueued(j) /\ j # k
        <3>1. PICK i \in 1 .. Len(queue') : queue'[i] = j
            BY <2>2 DEF IsQueued
        <3>2. i + 1 \in 1 .. Len(queue) /\ queue[i + 1] = j /\ i + 1 # 1
            BY <1>1, <3>1
        <3>3. queue[i + 1] # queue[1]
            BY <1>1, <3>2 DEF Owners
        <3> QED
            BY <1>1, <1>2, <3>2, <3>3 DEF IsQueued
    <2> QED
        BY <2>1, <2>2
<1>5. /\ \A j \in Keys : (IsHeld(j))' <=> IsHeld(j) \/ j = k
      /\ \A f, h \in Goroutines : hand'[f] = hand'[h] /\ hand'[f] \in Keys => f = h
    BY <1>2, <1>3, KeysAssumption DEF IsHeld, Owners, OwnTypes
<1>6. \A i, j \in 1 .. Len(queue') : queue'[i] = queue'[j] => i = j
    <2>1. SUFFICES ASSUME NEW i \in 1 .. Len(queue'), NEW j \in 1 .. Len(queue'),
                          queue'[i] = queue'[j]
                   PROVE  i = j
        OBVIOUS
    <2>2. i + 1 \in 1 .. Len(queue) /\ j + 1 \in 1 .. Len(queue) /\ queue[i + 1] = queue[j + 1]
        BY <1>1, <2>1
    <2>3. i + 1 = j + 1
        BY <2>2 DEF Owners
    <2> QED
        BY <2>3
<1> QED
    BY <1>1, <1>2, <1>3, <1>4, <1>5, <1>6 DEF Owners

\* The shutdown flush queues every parked key once.
LEMMA Promoted ==
    ASSUME OwnTypes, Owners, NEW P \in SUBSET (Keys \ dirty),
           NEW order \in [1 .. Cardinality(P) -> P],
           \A i, j \in DOMAIN order : i # j => order[i] # order[j],
           dirty' = dirty \cup P, queue' = queue \o order, hand' = hand
    PROVE  Owners' /\ queue' \in Seq(Keys)
<1>1. IsFiniteSet(P) /\ Cardinality(P) \in Nat
    BY FiniteAssumption, FS_Subset, FS_CardinalityType
<1> DEFINE n == Cardinality(P)
<1>2. order \in Surjection(1 .. n, P)
    <2>1. IsFiniteSet(1 .. n) /\ Cardinality(1 .. n) = n
        BY <1>1, FS_Interval
    <2>2. order \in Injection(1 .. n, P)
        BY DEF Injection, IsInjective
    <2> HIDE DEF n
    <2> QED
        BY <1>1, <2>1, <2>2, FS_Injection DEF n
<1>3. \A p \in P : \E i \in 1 .. n : order[i] = p
    BY <1>2 DEF Surjection
<1> HIDE DEF n
<1>4. order \in Seq(Keys) /\ Len(order) = n
    <2>1. order \in [1 .. n -> Keys] /\ n \in Nat
        BY <1>1 DEF n
    <2> QED
        BY <2>1
<1>5. /\ queue' \in Seq(Keys) /\ Len(queue') = Len(queue) + n /\ Len(queue) \in Nat
      /\ \A i \in 1 .. Len(queue) + n :
            queue'[i] = IF i <= Len(queue) THEN queue[i] ELSE order[i - Len(queue)]
    <2>1. PICK s \in Seq(Keys), z \in Seq(Keys) : s = queue /\ z = order
        BY <1>4 DEF OwnTypes
    <2>2. /\ s \o z \in Seq(Keys) /\ Len(s \o z) = Len(s) + Len(z)
          /\ \A i \in 1 .. Len(s) + Len(z) :
                (s \o z)[i] = IF i <= Len(s) THEN s[i] ELSE z[i - Len(s)]
        BY ONLY ConcatProperties
    <2>3. Len(s) \in Nat
        BY ONLY LenProperties
    <2>4. queue' = s \o z /\ Len(z) = n
        BY <1>4, <2>1
    <2> QED
        BY <2>1, <2>2, <2>3, <2>4
<1>6. n \in Nat /\ order \in [1 .. n -> P] /\ \A i, j \in 1 .. n : i # j => order[i] # order[j]
    BY <1>1 DEF n
<1>7. \A k \in P : ~IsQueued(k) /\ ~IsHeld(k)
    BY DEF Owners
<1>8. \A k \in Keys : (IsHeld(k))' <=> IsHeld(k)
    BY DEF IsHeld
<1>9. \A k \in Keys : (IsQueued(k))' <=> IsQueued(k) \/ k \in P
    <2>1. ASSUME NEW k \in Keys, (IsQueued(k))'
          PROVE  IsQueued(k) \/ k \in P
        <3>1. PICK i \in 1 .. Len(queue') : queue'[i] = k
            BY <2>1 DEF IsQueued
        <3>2. CASE i <= Len(queue)
            BY <1>5, <3>1, <3>2 DEF IsQueued
        <3>3. CASE ~(i <= Len(queue))
            <4>1. i - Len(queue) \in 1 .. n
                BY <1>5, <1>6, <3>3
            <4> QED
                BY <1>5, <1>6, <3>1, <3>3, <4>1
        <3> QED
            BY <3>2, <3>3
    <2>2. ASSUME NEW k \in Keys, IsQueued(k)
          PROVE  (IsQueued(k))'
        <3>1. PICK i \in 1 .. Len(queue) : queue[i] = k
            BY <2>2 DEF IsQueued
        <3>2. i \in 1 .. Len(queue') /\ queue'[i] = k
            BY <1>5, <1>6, <3>1
        <3> QED
            BY <3>2 DEF IsQueued
    <2>3. ASSUME NEW k \in P
          PROVE  (IsQueued(k))'
        <3>1. PICK i \in 1 .. n : order[i] = k
            BY <1>3
        <3>2. i + Len(queue) \in 1 .. Len(queue') /\ queue'[i + Len(queue)] = k
            BY <1>5, <1>6, <3>1
        <3> QED
            BY <3>2 DEF IsQueued
    <2> QED
        BY <2>1, <2>2, <2>3
<1>10. \A i, j \in 1 .. Len(queue') : queue'[i] = queue'[j] => i = j
    <2>0. SUFFICES ASSUME NEW i \in 1 .. Len(queue'), NEW j \in 1 .. Len(queue'),
                          i < j, queue'[i] = queue'[j]
                   PROVE  FALSE
        BY <1>5, <1>6
    <2>1. CASE j <= Len(queue)
        <3>1. i \in 1 .. Len(queue) /\ j \in 1 .. Len(queue) /\ queue[i] = queue[j]
            BY <1>5, <1>6, <2>0, <2>1
        <3> QED
            BY <2>0, <3>1 DEF Owners
    <2>2. CASE i <= Len(queue) /\ ~(j <= Len(queue))
        <3>1. j - Len(queue) \in 1 .. n /\ queue'[j] = order[j - Len(queue)] /\ queue'[i] = queue[i]
            BY <1>5, <1>6, <2>0, <2>2
        <3>2. queue'[j] \in P
            BY <1>6, <3>1
        <3>3. i \in 1 .. Len(queue)
            BY <1>5, <2>2
        <3>4. IsQueued(queue'[j])
            BY <2>0, <3>1, <3>3 DEF IsQueued
        <3> QED
            BY <1>7, <3>2, <3>4
    <2>3. CASE ~(i <= Len(queue))
        <3>1. /\ i - Len(queue) \in 1 .. n /\ j - Len(queue) \in 1 .. n
              /\ order[i - Len(queue)] = order[j - Len(queue)]
              /\ i - Len(queue) # j - Len(queue)
            BY <1>5, <1>6, <2>0, <2>3
        <3> QED
            BY <1>6, <3>1
    <2> QED
        BY <2>1, <2>2, <2>3
<1> QED
    BY <1>5, <1>7, <1>8, <1>9, <1>10 DEF Owners

\* Goroutines come and go one at a time.
LEMMA RunningIs ==
    /\ IsFiniteSet(Running) /\ Cardinality(Running) \in Nat
    /\ \A g \in Goroutines \ Running : Cardinality(Running \cup {g}) = Cardinality(Running) + 1
    /\ \A g \in Running : Cardinality(Running \ {g}) = Cardinality(Running) - 1
<1>1. IsFiniteSet(Running)
    BY FiniteAssumption, FS_Subset DEF Running
<1> HIDE DEF Running
<1> QED
    BY <1>1, FS_CardinalityType, FS_AddElement, FS_RemoveElement

\* One drainer more where the cap allows it.
LEMMA Spawn ==
    ASSUME OwnTypes, HandInv, Crew, NEW base \in [Goroutines -> PC], SpawnOne(base),
           \A g \in Goroutines : base[g] = "off" <=> pc[g] = "off"
    PROVE  /\ workers' \in Nat /\ workers' > 0 /\ pc' \in [Goroutines -> PC]
           /\ workers' = Cardinality(Running') /\ workers' <= MaxFlushWorkers
           /\ \A g \in Goroutines : pc'[g] = base[g] \/ (pc[g] = "off" /\ pc'[g] = "loop")
<1>0. MaxFlushWorkers \in Nat /\ MaxFlushWorkers > 0 /\ workers \in Nat
      /\ workers = Cardinality(Running) /\ workers <= MaxFlushWorkers
    BY BoundsAssumption DEF OwnTypes, Crew
<1>1. CASE workers < MaxFlushWorkers
    <2>1. PICK g \in Goroutines : pc[g] = "off" /\ workers' = workers + 1 /\ pc' = Spawned(base, {g})
        BY <1>1 DEF SpawnOne
    <2>2. /\ pc' \in [Goroutines -> PC] /\ pc'[g] = "loop"
          /\ \A h \in Goroutines \ {g} : pc'[h] = base[h]
        BY <2>1 DEF Spawned, PC
    <2>3. Running' = Running \cup {g} /\ g \notin Running
        BY <2>1, <2>2 DEF Running
    <2> QED
        BY <1>0, <1>1, <2>1, <2>2, <2>3, RunningIs
<1>2. CASE ~(workers < MaxFlushWorkers)
    <2>1. workers' = workers /\ pc' = base
        BY <1>2 DEF SpawnOne
    <2>2. Running' = Running
        BY <2>1 DEF Running
    <2> QED
        BY <1>0, <1>2, <2>1, <2>2
<1> QED
    BY <1>1, <1>2

\* While a goroutine runs, the shutdown flush has not found the cache idle.
LEMMA Busy ==
    ASSUME OwnInv, NEW g \in Goroutines, pc[g] # "off"
    PROVE  workers > 0 /\ flush \notin {"counting", "ok", "left"}
<1>1. g \in Running
    BY DEF Running
<1>2. Cardinality(Running) # 0
    BY <1>1, RunningIs, FS_EmptySet
<1> QED
    BY <1>2 DEF OwnInv, OwnTypes, Crew, Quiet

\* markDirtyLocked: the key keeps its place, stays clean or is queued.
LEMMA MarkOwn ==
    ASSUME OwnInv, NEW k \in Keys, UNCHANGED <<hand, flush>>, flush = "no",
           \/ UNCHANGED <<dirty, del, queue, workers, pc>>
           \/ /\ k \in dirty /\ del' \in {del, del \cup {k}}
              /\ UNCHANGED <<dirty, queue, workers, pc>>
           \/ /\ k \notin dirty /\ del' \in {del, del \cup {k}} /\ dirty' = dirty \cup {k}
              /\ queue' = Append(queue, k) /\ SpawnOne(pc)
    PROVE  OwnInv' /\ \A g \in Goroutines : hand[g] # NoKey => pc'[g] = pc[g]
<1>1. CASE UNCHANGED <<dirty, queue, workers, pc>> /\ del' \subseteq dirty /\ del' \subseteq Keys
    <2>1. Owners' /\ HandInv' /\ Crew' /\ OwnTypes' /\ (del \subseteq dirty)' /\ Quiet'
        BY <1>1 DEF OwnInv, Owners, IsQueued, IsHeld, HandInv, Crew, Running, OwnTypes, Quiet
    <2> QED
        BY <1>1, <2>1 DEF OwnInv
<1>2. CASE /\ k \notin dirty /\ del' \in {del, del \cup {k}} /\ dirty' = dirty \cup {k}
           /\ queue' = Append(queue, k) /\ SpawnOne(pc)
    <2>1. Owners' /\ queue' \in Seq(Keys) /\ queue' # <<>>
        BY <1>2, Enqueued DEF OwnInv
    <2>2. PICK base \in [Goroutines -> PC] : base = pc
        BY DEF OwnInv, OwnTypes
    <2>3. /\ workers' \in Nat /\ workers' > 0 /\ pc' \in [Goroutines -> PC]
          /\ workers' = Cardinality(Running') /\ workers' <= MaxFlushWorkers
          /\ \A g \in Goroutines : pc'[g] = pc[g] \/ (pc[g] = "off" /\ pc'[g] = "loop")
        BY <1>2, <2>2, Spawn DEF OwnInv
    <2>4. OwnTypes' /\ (del \subseteq dirty)' /\ Crew' /\ Quiet'
        BY <1>2, <2>1, <2>3 DEF OwnInv, OwnTypes, Crew, Quiet
    <2>5. \A g \in Goroutines : hand[g] # NoKey => pc'[g] = pc[g]
        BY <2>3 DEF OwnInv, HandInv
    <2>6. HandInv'
        BY <2>3 DEF OwnInv, HandInv
    <2> QED
        BY <2>1, <2>4, <2>5, <2>6 DEF OwnInv
<1> QED
    BY <1>1, <1>2 DEF OwnInv, OwnTypes

\* A goroutine lets a key go that has nothing left to push.
LEMMA DropOwn ==
    ASSUME OwnInv, NEW g \in Goroutines, NEW k \in Keys, hand[g] = k, k \notin del,
           dirty' = dirty \ {k}, hand' = [hand EXCEPT ![g] = NoKey],
           pc' = [pc EXCEPT ![g] = "loop"], UNCHANGED <<del, queue, workers, flush>>
    PROVE  OwnInv'
<1>0. pc[g] \notin {"off", "loop"}
    BY KeysAssumption DEF OwnInv, HandInv
<1>1. workers > 0 /\ flush \notin {"counting", "ok", "left"}
    BY <1>0, Busy
<1>2. pc' \in [Goroutines -> PC] /\ pc'[g] = "loop" /\ \A h \in Goroutines \ {g} : pc'[h] = pc[h]
    BY DEF OwnInv, OwnTypes, PC
<1>3. Owners'
    BY Dropped DEF OwnInv
<1>4. Running' = Running
    BY <1>0, <1>2 DEF Running
<1>5. OwnTypes' /\ (del \subseteq dirty)' /\ Crew' /\ Quiet'
    BY <1>1, <1>2, <1>4 DEF OwnInv, OwnTypes, Crew, Quiet
<1>6. HandInv'
    BY <1>2 DEF OwnInv, HandInv, OwnTypes
<1> QED
    BY <1>3, <1>5, <1>6 DEF OwnInv

\* releaseLocked: the key is clean, or queued again for what arrived meanwhile.
LEMMA ReleaseOwn ==
    ASSUME OwnInv, NEW g \in Goroutines, NEW k \in Keys, hand[g] = k,
           ReleaseLocked(g, k), hand' = [hand EXCEPT ![g] = NoKey], UNCHANGED flush
    PROVE  /\ OwnInv' /\ k \in dirty /\ UNCHANGED <<delta, del>>
           /\ \/ delta[k] = 0 /\ k \notin del /\ deadline' = [deadline EXCEPT ![k] = 0]
                 /\ dirty' = dirty \ {k}
              \/ deadline' = deadline /\ dirty' = dirty
           /\ \A h \in Goroutines : hand[h] # NoKey /\ h # g => pc'[h] = pc[h]
           /\ pc'[g] = "loop"
<1>0. k \in dirty /\ pc[g] \notin {"off", "loop"} /\ k # NoKey
    BY KeysAssumption DEF OwnInv, Owners, IsHeld, HandInv
<1>1. workers > 0 /\ flush \notin {"counting", "ok", "left"}
    BY <1>0, Busy
<1>2. PICK base \in [Goroutines -> PC] : base = [pc EXCEPT ![g] = "loop"]
    BY DEF OwnInv, OwnTypes, PC
<1>2a. base[g] = "loop" /\ \A h \in Goroutines \ {g} : base[h] = pc[h]
    BY <1>2 DEF OwnInv, OwnTypes
<1>3. \A h \in Goroutines : base[h] = "off" <=> pc[h] = "off"
    BY <1>0, <1>2a
<1>4. CASE /\ delta[k] = 0 /\ k \notin del /\ dirty' = dirty \ {k}
           /\ deadline' = [deadline EXCEPT ![k] = 0] /\ pc' = base
           /\ UNCHANGED <<delta, del, queue, workers>>
    <2>1. OwnInv'
        BY <1>2, <1>4, DropOwn
    <2> QED
        BY <1>0, <1>2a, <1>4, <2>1
<1>5. CASE queue' = Append(queue, k) /\ SpawnOne(base) /\ UNCHANGED <<dirty, delta, deadline, del>>
    <2>1. Owners' /\ queue' \in Seq(Keys) /\ queue' # <<>>
        BY <1>5, Requeued DEF OwnInv
    <2>3. /\ workers' \in Nat /\ workers' > 0 /\ pc' \in [Goroutines -> PC]
          /\ workers' = Cardinality(Running') /\ workers' <= MaxFlushWorkers
          /\ \A h \in Goroutines : pc'[h] = base[h] \/ (pc[h] = "off" /\ pc'[h] = "loop")
        BY <1>3, <1>5, Spawn DEF OwnInv
    <2>4. OwnTypes' /\ (del \subseteq dirty)' /\ Crew' /\ Quiet'
        BY <1>1, <1>5, <2>1, <2>3 DEF OwnInv, OwnTypes, Crew, Quiet
    <2>5. /\ \A h \in Goroutines : hand[h] # NoKey /\ h # g => pc'[h] = pc[h]
          /\ pc'[g] = "loop"
        BY <1>0, <1>2a, <2>3 DEF OwnInv, HandInv
    <2>6. HandInv'
        BY <1>2a, <2>3, <2>5 DEF OwnInv, HandInv, OwnTypes
    <2> QED
        BY <1>0, <1>5, <2>1, <2>4, <2>5, <2>6 DEF OwnInv
<1> QED
    BY <1>0, <1>2, <1>4, <1>5 DEF ReleaseLocked

\* A goroutine that holds a key goes on with it.
LEMMA TurnOwn ==
    ASSUME OwnInv, NEW g \in Goroutines, NEW p \in PC \ {"off", "loop"}, hand[g] # NoKey,
           pc' = [pc EXCEPT ![g] = p], UNCHANGED <<dirty, queue, workers, hand, flush>>,
           del' \subseteq del
    PROVE  OwnInv'
<1>1. pc[g] \notin {"off", "loop"}
    BY DEF OwnInv, HandInv
<1>2. HandInv' /\ OwnTypes'
    BY <1>1 DEF OwnInv, HandInv, OwnTypes
<1>3. Running' = Running
    BY <1>1 DEF Running, OwnInv, OwnTypes
<1>4. Owners' /\ Crew' /\ Quiet' /\ (del \subseteq dirty)'
    BY <1>3 DEF OwnInv, Owners, IsQueued, IsHeld, Crew, Quiet
<1> QED
    BY <1>2, <1>4 DEF OwnInv

\* Steps that touch none of it.
LEMMA StillOwn ==
    ASSUME OwnInv, UNCHANGED <<dirty, del, queue, workers, pc, hand>>,
           flush' = flush \/ flush' \in {"waiting", "ctx"} \/ (queue = <<>> /\ workers = 0),
           flush' \in {"no", "waiting", "counting", "ok", "left", "ctx"}
    PROVE  OwnInv'
<1>1. HandInv' /\ OwnTypes' /\ Running' = Running
    BY DEF OwnInv, HandInv, OwnTypes, Running
<1>2. Owners' /\ Crew' /\ Quiet' /\ (del \subseteq dirty)'
    BY <1>1 DEF OwnInv, Owners, IsQueued, IsHeld, Crew, Quiet
<1> QED
    BY <1>1, <1>2 DEF OwnInv

-----------------------------------------------------------------------------
(* What is known of each key                                               *)

DataTypes ==
    /\ now \in Nat /\ m \in [Keys -> CounterEntry]
    /\ delta \in [Keys -> Nat] /\ deadline \in [Keys -> Nat]
    /\ claim \in [Goroutines -> Claim] /\ store \in [Keys -> Cell]
    /\ counted \in [Keys -> Nat] /\ acked \in [Keys -> Nat]
    /\ opened \in [Keys -> SUBSET Nat]
    /\ reset \in SUBSET Keys /\ foreign \in SUBSET Keys /\ uncleaned \in SUBSET Keys

Claiming == {"push", "merge", "failed"}

\* The deadlines of the windows of k so far, and a delete of its record on the way.
Windows(k)  == {t + TTL : t \in opened[k]}
Deleting(k) == k \in del \/ \E g \in Goroutines : hand[g] = k /\ pc[g] = "delete"

\* The queued delta is the entry's window's.
WindowOK(k) ==
    /\ m[k].expires \in {0} \cup Windows(k)
    /\ deadline[k] \in {0} \cup Windows(k)
    /\ delta[k] > 0 => k \in dirty /\ deadline[k] = m[k].expires /\ m[k].expires > 0

\* A claimed batch is of another window only while a Forget waits or when it is over.
ClaimOK(k) ==
    \A g \in Goroutines : hand[g] = k /\ pc[g] \in Claiming =>
        /\ claim[g].deadline \in Windows(k)
        /\ claim[g].deadline # m[k].expires => k \in del \/ now >= claim[g].deadline
        /\ k \in del => claim[g].deadline # m[k].expires

\* Every event of a live window is in one place.
LossOK(k) ==
    Live(k) =>
        /\ \A g \in Goroutines : hand[g] = k =>
              counted[k] = acked[k] + m[k].pending + delta[k] + InFlight(g, k)
        /\ ~IsHeld(k) => counted[k] = acked[k] + m[k].pending + delta[k]
        /\ flush = "ok" => m[k].pending = 0

CountOK(k) ==
    Cached(k) => m[k].n >= counted[k] /\ (k \notin foreign => m[k].n = counted[k])

\* A record nobody else wrote to holds what this window was acknowledged, or less.
StoreOK(k) ==
    k \notin foreign =>
        /\ StoreLive(k) /\ ~Deleting(k) =>
              store[k].expires = m[k].expires /\ store[k].n <= acked[k]
        /\ \A g \in Goroutines :
              hand[g] = k /\ pc[g] = "merge" /\ claim[g].deadline = m[k].expires =>
                  claim[g].shared <= acked[k]

\* After a reset a record comes back only to be deleted, or because that delete failed.
ResetOK(k) == k \in reset => ~Cached(k) /\ (StoreLive(k) => Deleting(k) \/ k \in uncleaned)

KeyInv(k) == WindowOK(k) /\ ClaimOK(k) /\ LossOK(k) /\ CountOK(k) /\ StoreOK(k) /\ ResetOK(k)

Core == OwnInv /\ DataTypes /\ \A k \in Keys : KeyInv(k)

\* A step that leaves a key and its holder alone.
HeldSame(j) ==
    \A g \in Goroutines : /\ hand'[g] = j <=> hand[g] = j
                          /\ hand[g] = j => pc'[g] = pc[g] /\ claim'[g] = claim[g]
DataSame(j) ==
    /\ m'[j] = m[j] /\ delta'[j] = delta[j] /\ deadline'[j] = deadline[j]
    /\ store'[j] = store[j] /\ counted'[j] = counted[j] /\ acked'[j] = acked[j]
    /\ opened'[j] = opened[j]
    /\ (j \in dirty' <=> j \in dirty) /\ (j \in del' <=> j \in del)
    /\ (j \in foreign => j \in foreign') /\ (j \in reset' => j \in reset)
    /\ (j \in uncleaned => j \in uncleaned')

\* Then everything that is known of the key still holds.
LEMMA Frame ==
    ASSUME NEW j \in Keys, KeyInv(j), now' = now, flush' = flush \/ flush' # "ok",
           HeldSame(j), DataSame(j)
    PROVE  KeyInv(j)'
<1>1. WindowOK(j)'
    BY DEF KeyInv, WindowOK, Windows, DataSame
<1>2. ClaimOK(j)'
    BY DEF KeyInv, ClaimOK, Windows, DataSame, HeldSame
<1>3. (IsHeld(j))' <=> IsHeld(j)
    BY DEF HeldSame, IsHeld
<1>4. \A g \in Goroutines : hand[g] = j => InFlight(g, j)' = InFlight(g, j)
    BY DEF HeldSame, DataSame, InFlight
<1>5. LossOK(j)'
    BY <1>3, <1>4 DEF KeyInv, LossOK, Live, HeldSame, DataSame
<1>6. CountOK(j)'
    BY DEF KeyInv, CountOK, Cached, DataSame
<1>7. (Deleting(j))' <=> Deleting(j)
    BY DEF HeldSame, DataSame, Deleting
<1>8. (StoreLive(j))' <=> StoreLive(j)
    BY DEF DataSame, StoreLive
<1>9. StoreOK(j)'
    BY <1>7, <1>8 DEF KeyInv, StoreOK, DataSame, HeldSame
<1>10. ResetOK(j)'
    BY <1>7, <1>8 DEF KeyInv, ResetOK, Cached, DataSame
<1> QED
    BY <1>1, <1>2, <1>5, <1>6, <1>9, <1>10 DEF KeyInv

\* What the types say of a key and of its holder.
LEMMA KeyTypes ==
    ASSUME DataTypes, NEW k \in Keys
    PROVE  /\ m[k].n \in Nat /\ m[k].expires \in Nat /\ m[k].pending \in Nat
           /\ delta[k] \in Nat /\ deadline[k] \in Nat /\ counted[k] \in Nat /\ acked[k] \in Nat
           /\ store[k].n \in Nat /\ store[k].expires \in Nat /\ now \in Nat
           /\ \A t \in opened[k] : t \in Nat
           /\ \A d \in Windows(k) : d \in Nat /\ d > 0
           /\ \A g \in Goroutines : /\ claim[g].delta \in Nat /\ claim[g].deadline \in Nat
                                    /\ claim[g].shared \in Nat
<1>1. TTL \in Nat /\ TTL > 0
    BY TimeAssumption
<1>2. \A t \in opened[k] : t \in Nat
    BY DEF DataTypes
<1>3. \A d \in Windows(k) : d \in Nat /\ d > 0
    BY <1>1, <1>2 DEF Windows
<1>4. \A g \in Goroutines : /\ claim[g].delta \in Nat /\ claim[g].deadline \in Nat
                            /\ claim[g].shared \in Nat
    BY DEF DataTypes, Claim
<1> QED
    BY <1>2, <1>3, <1>4 DEF DataTypes, CounterEntry, Cell

\* A clean key is in no hand and has nothing queued.
LEMMA CleanIs ==
    ASSUME OwnInv, DataTypes, NEW k \in Keys, KeyInv(k), k \notin dirty
    PROVE  ~IsHeld(k) /\ delta[k] = 0 /\ k \notin del /\ ~Deleting(k)
<1>1. ~IsHeld(k) /\ k \notin del
    BY DEF OwnInv, Owners
<1>2. delta[k] = 0
    BY KeyTypes DEF KeyInv, WindowOK
<1> QED
    BY <1>1, <1>2 DEF Deleting, IsHeld

\* What markDirtyLocked does with the window of the bump: fold, park or enqueue.
Marked(k, pending, ends) ==
    \/ /\ k \in dirty /\ k \in dirty' /\ m'[k].pending = pending
       /\ delta'[k] = FoldedDelta(k, ends) /\ deadline'[k] = ends
    \/ /\ k \notin dirty /\ k \notin dirty' /\ m'[k].pending = pending
       /\ delta'[k] = delta[k] /\ deadline'[k] = deadline[k]
    \/ /\ k \notin dirty /\ k \in dirty' /\ m'[k].pending = 0
       /\ delta'[k] = pending /\ deadline'[k] = ends

\* One more event in the live window.
LEMMA BumpLive ==
    ASSUME OwnInv, DataTypes, NEW k \in Keys, KeyInv(k), Cached(k), HeldSame(k),
           UNCHANGED <<now, flush, acked, opened, store, del>>, flush # "ok",
           k \in foreign => k \in foreign',
           k \notin reset', counted'[k] = counted[k] + 1,
           m'[k].n = m[k].n + 1, m'[k].expires = m[k].expires,
           Marked(k, IF k \in dirty THEN m[k].pending ELSE m[k].pending + 1, m[k].expires)
    PROVE  KeyInv(k)'
<1>1. /\ m[k].n \in Nat /\ m[k].expires \in Nat /\ m[k].pending \in Nat
      /\ delta[k] \in Nat /\ deadline[k] \in Nat /\ counted[k] \in Nat /\ acked[k] \in Nat
    BY KeyTypes
<1>2. m[k].expires > 0 /\ m[k].expires \in Windows(k)
    BY <1>1 DEF Cached, KeyInv, WindowOK
<1>3. FoldedDelta(k, m[k].expires) = delta[k] + 1
    BY <1>1 DEF FoldedDelta, KeyInv, WindowOK
<1>4. Windows(k)' = Windows(k)
    BY DEF Windows
<1>5. WindowOK(k)'
    BY <1>1, <1>2, <1>3, <1>4, CleanIs DEF KeyInv, WindowOK, Marked
<1>6. ClaimOK(k)'
    BY <1>4 DEF KeyInv, ClaimOK, HeldSame
<1>7. (IsHeld(k))' <=> IsHeld(k)
    BY DEF HeldSame, IsHeld
<1>8. \A g \in Goroutines : hand[g] = k => InFlight(g, k)' = InFlight(g, k) /\ InFlight(g, k) \in Nat
    BY KeyTypes DEF HeldSame, InFlight
<1>9. LossOK(k)'
    <2>1. m'[k].pending + delta'[k] = m[k].pending + delta[k] + 1
          /\ m'[k].pending \in Nat /\ delta'[k] \in Nat
        BY <1>1, <1>3, CleanIs DEF Marked
    <2>2. (Live(k))' <=> Live(k)
        BY DEF Live
    <2>4. ASSUME Live(k), NEW g \in Goroutines, hand[g] = k
          PROVE  counted'[k] = acked[k] + m'[k].pending + delta'[k] + InFlight(g, k)
        <3>1. counted[k] = acked[k] + m[k].pending + delta[k] + InFlight(g, k)
            BY <2>4 DEF KeyInv, LossOK
        <3> QED
            BY <1>1, <1>8, <2>1, <2>4, <3>1
    <2>5. ASSUME Live(k), ~IsHeld(k)
          PROVE  counted'[k] = acked[k] + m'[k].pending + delta'[k]
        <3>1. counted[k] = acked[k] + m[k].pending + delta[k]
            BY <2>5 DEF KeyInv, LossOK
        <3> QED
            BY <1>1, <2>1, <3>1
    <2> QED
        BY <1>7, <1>8, <2>2, <2>4, <2>5 DEF LossOK, HeldSame
<1>10. CountOK(k)'
    BY <1>1 DEF KeyInv, CountOK, Cached
<1>11. StoreOK(k)'
    BY DEF KeyInv, StoreOK, StoreLive, Deleting, HeldSame
<1>12. ResetOK(k)'
    BY DEF ResetOK
<1> QED
    BY <1>5, <1>6, <1>9, <1>10, <1>11, <1>12 DEF KeyInv

\* The first event of a window, when the entry is gone or its window is over.
LEMMA BumpOpens ==
    ASSUME OwnInv, DataTypes, NEW k \in Keys, KeyInv(k), NEW t \in Nat, t <= now,
           m[k].expires = 0 \/ t >= m[k].expires, t \notin opened[k], HeldSame(k),
           UNCHANGED <<now, flush, store, del>>, flush # "ok", k \in foreign => k \in foreign',
           k \notin reset', counted'[k] = 1, acked'[k] = 0, opened'[k] = opened[k] \cup {t},
           m'[k].n = 1, m'[k].expires = t + TTL,
           Marked(k, IF k \in dirty THEN 0 ELSE 1, t + TTL)
    PROVE  KeyInv(k)'
<1>0. TTL \in Nat /\ TTL > 0 /\ now \in Nat
    BY TimeAssumption DEF DataTypes
<1>1. /\ m[k].expires \in Nat /\ delta[k] \in Nat /\ deadline[k] \in Nat
      /\ store[k].expires \in Nat /\ \A d \in Windows(k) : d \in Nat /\ d > 0
    BY KeyTypes
<1>2. t + TTL \notin Windows(k) /\ t + TTL > 0 /\ \A u \in opened[k] : u \in Nat
    BY <1>0, KeyTypes DEF Windows
<1>3. FoldedDelta(k, t + TTL) = 1
    BY <1>2 DEF FoldedDelta, KeyInv, WindowOK
<1>4. Windows(k)' = Windows(k) \cup {t + TTL}
    BY DEF Windows
<1>5. WindowOK(k)'
    BY <1>1, <1>2, <1>3, <1>4, CleanIs DEF KeyInv, WindowOK, Marked
<1>6. ASSUME NEW g \in Goroutines, hand[g] = k, pc[g] \in Claiming
      PROVE  /\ claim[g].deadline \in Windows(k) /\ claim[g].deadline # t + TTL
             /\ k \in del \/ now >= claim[g].deadline
    <2>1. /\ claim[g].deadline \in Windows(k)
          /\ claim[g].deadline # m[k].expires => k \in del \/ now >= claim[g].deadline
        BY <1>6 DEF KeyInv, ClaimOK
    <2>2. claim[g].deadline = m[k].expires => now >= claim[g].deadline
        BY <1>0, <1>1, <2>1
    <2> QED
        BY <1>2, <2>1, <2>2
<1>7. ClaimOK(k)'
    BY <1>4, <1>6 DEF ClaimOK, HeldSame
<1>8. LossOK(k)'
    <2>1. m'[k].pending + delta'[k] = 1 /\ m'[k].pending \in Nat /\ delta'[k] \in Nat
        BY <1>3, CleanIs DEF Marked
    <2>2. \A g \in Goroutines : hand'[g] = k => InFlight(g, k)' = 0
        BY <1>6 DEF InFlight, HeldSame, Claiming
    <2> QED
        BY <2>1, <2>2 DEF LossOK
<1>9. CountOK(k)'
    BY DEF CountOK
<1>10. k \notin foreign => ~StoreLive(k) \/ Deleting(k)
    <2>1. SUFFICES ASSUME k \notin foreign, StoreLive(k), ~Deleting(k)
                   PROVE  FALSE
        OBVIOUS
    <2>2. store[k].expires = m[k].expires
        BY <2>1 DEF KeyInv, StoreOK
    <2>3. now < store[k].expires
        BY <2>1 DEF StoreLive
    <2> QED
        BY <1>0, <1>1, <2>2, <2>3
<1>11. StoreOK(k)'
    <2>1. (Deleting(k))' <=> Deleting(k)
        BY DEF Deleting, HeldSame
    <2>2. (StoreLive(k))' <=> StoreLive(k)
        BY DEF StoreLive
    <2>3. \A g \in Goroutines : ~(hand'[g] = k /\ pc'[g] = "merge" /\ claim'[g].deadline = t + TTL)
        BY <1>6 DEF HeldSame, Claiming
    <2> QED
        BY <1>10, <2>1, <2>2, <2>3 DEF StoreOK
<1>12. ResetOK(k)'
    BY DEF ResetOK
<1> QED
    BY <1>5, <1>7, <1>8, <1>9, <1>11, <1>12 DEF KeyInv

\* A key the sweep evicts: nothing of it is on its way, and its record outlives it.
LEMMA EvictedKey ==
    ASSUME OwnInv, DataTypes, NEW j \in Keys, KeyInv(j), j \in Evictable, m'[j] = NoEntry,
           j \in foreign', UNCHANGED <<now, hand>>, j \notin dirty', j \notin del',
           j \in reset' => j \in reset, UNCHANGED uncleaned, delta'[j] = delta[j], deadline'[j] = deadline[j],
           opened'[j] = opened[j], store'[j] = store[j]
    PROVE  KeyInv(j)'
<1>1. /\ j \notin dirty /\ m'[j].expires = 0 /\ now \in Nat /\ Cached(j)
    BY DEF Evictable, CachedKeys, NoEntry, DataTypes
<1>2. ~IsHeld(j) /\ delta[j] = 0
    BY <1>1, CleanIs
<1>3. WindowOK(j)'
    BY <1>1, <1>2 DEF KeyInv, WindowOK, Windows
<1>4. ClaimOK(j)'
    BY <1>2 DEF ClaimOK, IsHeld
<1>5. LossOK(j)' /\ CountOK(j)' /\ StoreOK(j)'
    BY <1>1 DEF LossOK, CountOK, StoreOK, Live, Cached
<1>6. ResetOK(j)'
    BY <1>1 DEF KeyInv, ResetOK
<1> QED
    BY <1>3, <1>4, <1>5, <1>6 DEF KeyInv

\* MarkIncr, key by key.
LEMMA MarkIs ==
    ASSUME OwnInv, DataTypes, NEW k \in Keys, NEW base \in [Keys -> CounterEntry],
           NEW e \in CounterEntry, MarkIncr(base, k, e), UNCHANGED <<hand, claim, flush>>, flush = "no"
    PROVE  /\ OwnInv' /\ \A j \in Keys : HeldSame(j)
           /\ m' \in [Keys -> CounterEntry] /\ delta' \in [Keys -> Nat]
           /\ deadline' \in [Keys -> Nat]
           /\ m'[k].n = e.n /\ m'[k].expires = e.expires /\ Marked(k, e.pending, e.expires)
           /\ del' = del
           /\ \A j \in Keys \ {k} : /\ m'[j] = base[j] /\ delta'[j] = delta[j]
                                    /\ deadline'[j] = deadline[j] /\ (j \in dirty' <=> j \in dirty)
<1>1. OwnInv' /\ \A g \in Goroutines : hand[g] # NoKey => pc'[g] = pc[g]
    <2>1. \/ UNCHANGED <<dirty, del, queue, workers, pc>>
          \/ /\ k \in dirty /\ del' \in {del, del \cup {k}}
             /\ UNCHANGED <<dirty, queue, workers, pc>>
          \/ /\ k \notin dirty /\ del' \in {del, del \cup {k}} /\ dirty' = dirty \cup {k}
             /\ queue' = Append(queue, k) /\ SpawnOne(pc)
        BY DEF MarkIncr, dirtyVars
    <2> QED
        BY <2>1, MarkOwn
<1>2. \A j \in Keys : HeldSame(j)
    BY <1>1, KeysAssumption DEF HeldSame
<1>3. /\ delta \in [Keys -> Nat] /\ deadline \in [Keys -> Nat] /\ dirty \in SUBSET Keys
      /\ e.n \in Nat /\ e.expires \in Nat /\ e.pending \in Nat
      /\ [e EXCEPT !.pending = 0] \in CounterEntry /\ [e EXCEPT !.pending = 0].n = e.n
      /\ [e EXCEPT !.pending = 0].expires = e.expires /\ [e EXCEPT !.pending = 0].pending = 0
    BY DEF DataTypes, OwnInv, OwnTypes, CounterEntry
<1>4. FoldedDelta(k, e.expires) \in Nat
    BY <1>3 DEF FoldedDelta
<1> HIDE DEF FoldedDelta
<1>5. PICK z \in CounterEntry : z = [e EXCEPT !.pending = 0]
    BY <1>3
<1>6. CASE /\ k \in dirty
           /\ delta' = [delta EXCEPT ![k] = FoldedDelta(k, e.expires)]
           /\ deadline' = [deadline EXCEPT ![k] = e.expires]
           /\ m' = [base EXCEPT ![k] = e]
           /\ UNCHANGED <<dirty, del>>
    BY <1>1, <1>2, <1>3, <1>4, <1>6 DEF Marked
<1>7. CASE /\ k \notin dirty
           /\ m' = [base EXCEPT ![k] = e]
           /\ UNCHANGED <<dirty, delta, deadline, del>>
    BY <1>1, <1>2, <1>3, <1>7 DEF Marked
<1>8. CASE /\ k \notin dirty
           /\ dirty' = dirty \cup {k}
           /\ delta' = [delta EXCEPT ![k] = e.pending]
           /\ deadline' = [deadline EXCEPT ![k] = e.expires]
           /\ m' = [base EXCEPT ![k] = z]
           /\ UNCHANGED del
    BY <1>1, <1>2, <1>3, <1>5, <1>8 DEF Marked
<1> QED
    BY <1>5, <1>6, <1>7, <1>8 DEF MarkIncr, dirtyVars

\* A step that keeps the data of every key but those it names.
LEMMA Others ==
    ASSUME Core, OwnInv', DataTypes', NEW S \in SUBSET Keys, now' = now, flush' = flush \/ flush' # "ok",
           \A j \in S : KeyInv(j)', \A j \in Keys \ S : HeldSame(j) /\ DataSame(j)
    PROVE  Core'
<1>1. \A j \in Keys \ S : KeyInv(j)'
    BY Frame DEF Core
<1> QED
    BY <1>1 DEF Core

\* The same for one key.
LEMMA OthersOf ==
    ASSUME Core, OwnInv', DataTypes', NEW k \in Keys, now' = now, flush' = flush \/ flush' # "ok",
           KeyInv(k)', \A j \in Keys \ {k} : HeldSame(j) /\ DataSame(j)
    PROVE  Core'
<1>1. \A j \in Keys \ {k} : KeyInv(j)'
    BY Frame DEF Core
<1> QED
    BY <1>1 DEF Core

\* The bump of an entry that is there, or that opens where there is room.
LEMMA IncrInRoom ==
    ASSUME Core, NEW k \in Keys, NEW t \in 0 .. now, Incr(k, t), IncrLive(k, t) \/ IncrOpens(k, t)
    PROVE  Core'
<1>0. /\ flush = "no" /\ reset' = reset \ {k}
      /\ UNCHANGED <<now, hand, claim, store, syncing, flush, uncleaned>>
      /\ UNCHANGED foreign
    BY DEF Incr, IncrLive, IncrOpens
<1>1. /\ OwnInv /\ DataTypes /\ KeyInv(k) /\ m \in [Keys -> CounterEntry] /\ now \in Nat /\ t \in Nat
      /\ t <= now /\ TTL \in Nat
    BY TimeAssumption DEF Core, DataTypes
<1>2. CASE IncrLive(k, t)
    <2> DEFINE e == [m[k] EXCEPT !.n = @ + 1, !.pending = IF k \in dirty THEN @ ELSE @ + 1]
    <2>1. /\ e \in CounterEntry /\ e.n = m[k].n + 1 /\ e.expires = m[k].expires
          /\ e.pending = IF k \in dirty THEN m[k].pending ELSE m[k].pending + 1
        <3>1. m[k] \in CounterEntry
            BY <1>1
        <3>2. m[k].n + 1 \in Nat /\ (IF k \in dirty THEN m[k].pending ELSE m[k].pending + 1) \in Nat
            BY <3>1 DEF CounterEntry
        <3> QED
            BY <3>1, <3>2 DEF CounterEntry
    <2>2. /\ Cached(k) /\ MarkIncr(m, k, e) /\ counted' = [counted EXCEPT ![k] = @ + 1]
          /\ UNCHANGED <<acked, opened>>
        BY <1>2 DEF IncrLive
    <2> HIDE DEF e
    <2>3. /\ OwnInv' /\ \A j \in Keys : HeldSame(j)
          /\ m' \in [Keys -> CounterEntry] /\ delta' \in [Keys -> Nat]
          /\ deadline' \in [Keys -> Nat]
          /\ m'[k].n = e.n /\ m'[k].expires = e.expires /\ Marked(k, e.pending, e.expires)
          /\ del' = del
          /\ \A j \in Keys \ {k} : /\ m'[j] = m[j] /\ delta'[j] = delta[j]
                                   /\ deadline'[j] = deadline[j] /\ (j \in dirty' <=> j \in dirty)
        BY <1>0, <1>1, <2>1, <2>2, MarkIs
    <2>3a. counted \in [Keys -> Nat]
        BY <1>1 DEF DataTypes
    <2>3b. counted' \in [Keys -> Nat] /\ counted'[k] = counted[k] + 1
        BY <2>2, <2>3a
    <2>4. DataTypes' /\ counted'[k] = counted[k] + 1
        BY <1>0, <1>1, <2>2, <2>3, <2>3b DEF DataTypes
    <2>5. KeyInv(k)'
        BY <1>0, <1>1, <2>1, <2>2, <2>3, <2>4, BumpLive
    <2>6. \A j \in Keys \ {k} : DataSame(j)
        BY <1>0, <1>1, <2>2, <2>3 DEF DataSame, DataTypes
    <2> QED
        BY <1>0, <2>3, <2>4, <2>5, <2>6, OthersOf
<1>3. CASE IncrOpens(k, t)
    <2> DEFINE e == [n |-> 1, expires |-> t + TTL, pending |-> IF k \in dirty THEN 0 ELSE 1]
    <2>1. /\ e \in CounterEntry /\ e.n = 1 /\ e.expires = t + TTL
          /\ e.pending = IF k \in dirty THEN 0 ELSE 1
        BY <1>1 DEF CounterEntry
    <2>2. /\ MarkIncr(m, k, e) /\ counted' = [counted EXCEPT ![k] = 1]
          /\ acked' = [acked EXCEPT ![k] = 0] /\ opened' = [opened EXCEPT ![k] = @ \cup {t}]
          /\ t \notin opened[k] /\ (IF Cached(k) THEN t >= m[k].expires ELSE HasRoom)
        BY <1>3 DEF IncrOpens, OpenWindow
    <2> HIDE DEF e
    <2>3. /\ OwnInv' /\ \A j \in Keys : HeldSame(j)
          /\ m' \in [Keys -> CounterEntry] /\ delta' \in [Keys -> Nat]
          /\ deadline' \in [Keys -> Nat]
          /\ m'[k].n = e.n /\ m'[k].expires = e.expires /\ Marked(k, e.pending, e.expires)
          /\ del' = del
          /\ \A j \in Keys \ {k} : /\ m'[j] = m[j] /\ delta'[j] = delta[j]
                                   /\ deadline'[j] = deadline[j] /\ (j \in dirty' <=> j \in dirty)
        BY <1>0, <1>1, <2>1, <2>2, MarkIs
    <2>3a. counted \in [Keys -> Nat] /\ acked \in [Keys -> Nat] /\ opened \in [Keys -> SUBSET Nat]
        BY <1>1 DEF DataTypes
    <2>3b. /\ counted' \in [Keys -> Nat] /\ counted'[k] = 1
           /\ acked' \in [Keys -> Nat] /\ acked'[k] = 0
           /\ opened' \in [Keys -> SUBSET Nat] /\ opened'[k] = opened[k] \cup {t}
        BY <1>1, <2>2, <2>3a
    <2>3c. m[k].expires = 0 \/ t >= m[k].expires
        BY <1>1, <2>2, KeyTypes DEF Cached
    <2>4. /\ DataTypes' /\ counted'[k] = 1 /\ acked'[k] = 0 /\ opened'[k] = opened[k] \cup {t}
          /\ m[k].expires = 0 \/ t >= m[k].expires
        BY <1>0, <1>1, <2>3, <2>3b, <2>3c DEF DataTypes
    <2>5. KeyInv(k)'
        BY <1>0, <1>1, <2>1, <2>2, <2>3, <2>4, BumpOpens
    <2>6. \A j \in Keys \ {k} : DataSame(j)
        BY <1>0, <1>1, <2>2, <2>3 DEF DataSame, DataTypes
    <2> QED
        BY <1>0, <2>3, <2>4, <2>5, <2>6, OthersOf
<1> QED
    BY <1>2, <1>3

\* What the sweep leaves.
LEMMA SweptIs ==
    ASSUME DataTypes
    PROVE  /\ Swept \in [Keys -> CounterEntry] /\ Evictable \in SUBSET Keys
           /\ \A j \in Evictable : Swept[j] = NoEntry /\ j \notin dirty /\ Cached(j)
           /\ \A j \in Keys \ Evictable : Swept[j] = m[j]
<1>1. NoEntry \in CounterEntry
    BY DEF NoEntry, CounterEntry
<1>2. Evictable \in SUBSET Keys /\ \A j \in Evictable : j \notin dirty /\ Cached(j)
    BY DEF Evictable, CachedKeys
<1> HIDE DEF Evictable
<1> QED
    BY <1>1, <1>2 DEF Swept, DataTypes

\* A bump that first had to make room.
LEMMA IncrAfterSweep ==
    ASSUME Core, NEW k \in Keys, NEW t \in 0 .. now, Incr(k, t), IncrSweeps(k, t)
    PROVE  Core'
<1>0. /\ flush = "no" /\ reset' = reset \ {k}
      /\ UNCHANGED <<now, hand, claim, store, syncing, flush, uncleaned>>
      /\ foreign' = foreign \cup Evictable /\ ~Cached(k)
    BY DEF Incr, IncrSweeps
<1>1. /\ OwnInv /\ DataTypes /\ KeyInv(k) /\ m \in [Keys -> CounterEntry] /\ now \in Nat /\ t \in Nat
      /\ t <= now /\ TTL \in Nat
    BY TimeAssumption DEF Core, DataTypes
<1> DEFINE e == [n |-> 1, expires |-> t + TTL, pending |-> IF k \in dirty THEN 0 ELSE 1]
<1>2. /\ e \in CounterEntry /\ e.n = 1 /\ e.expires = t + TTL
      /\ e.pending = IF k \in dirty THEN 0 ELSE 1
    BY <1>1 DEF CounterEntry
<1>3. /\ MarkIncr(Swept, k, e) /\ counted' = [counted EXCEPT ![k] = 1]
      /\ acked' = [acked EXCEPT ![k] = 0] /\ opened' = [opened EXCEPT ![k] = @ \cup {t}]
      /\ t \notin opened[k]
    BY DEF IncrSweeps, OpenWindow
<1> HIDE DEF e
<1>4. PICK base \in [Keys -> CounterEntry] : base = Swept
    BY <1>1, SweptIs
<1>5. /\ OwnInv' /\ \A j \in Keys : HeldSame(j)
      /\ m' \in [Keys -> CounterEntry] /\ delta' \in [Keys -> Nat]
      /\ deadline' \in [Keys -> Nat]
      /\ m'[k].n = e.n /\ m'[k].expires = e.expires /\ Marked(k, e.pending, e.expires)
      /\ del' = del
      /\ \A j \in Keys \ {k} : /\ m'[j] = base[j] /\ delta'[j] = delta[j]
                               /\ deadline'[j] = deadline[j] /\ (j \in dirty' <=> j \in dirty)
    BY <1>0, <1>1, <1>2, <1>3, <1>4, MarkIs
<1>6. counted \in [Keys -> Nat] /\ acked \in [Keys -> Nat] /\ opened \in [Keys -> SUBSET Nat]
    BY <1>1 DEF DataTypes
<1>7. /\ counted' \in [Keys -> Nat] /\ counted'[k] = 1
      /\ acked' \in [Keys -> Nat] /\ acked'[k] = 0
      /\ opened' \in [Keys -> SUBSET Nat] /\ opened'[k] = opened[k] \cup {t}
      /\ \A j \in Keys \ {k} : /\ counted'[j] = counted[j] /\ acked'[j] = acked[j]
                               /\ opened'[j] = opened[j]
    BY <1>1, <1>3, <1>6
<1>8. foreign' \in SUBSET Keys /\ m[k].expires = 0
    BY <1>0, <1>1, SweptIs, KeyTypes DEF DataTypes, Cached
<1>9. DataTypes'
    BY <1>0, <1>1, <1>5, <1>7, <1>8 DEF DataTypes
<1>10. KeyInv(k)'
    BY <1>0, <1>1, <1>2, <1>3, <1>5, <1>7, <1>8, BumpOpens
<1>11. ASSUME NEW j \in Keys \ {k}, j \in Evictable
       PROVE  KeyInv(j)'
    <2>1. j \notin dirty /\ m'[j] = NoEntry
        BY <1>1, <1>4, <1>5, <1>11, SweptIs
    <2>2. j \notin del
        BY <1>1, <2>1 DEF OwnInv
    <2>3. KeyInv(j)
        BY DEF Core
    <2> QED
        BY <1>0, <1>1, <1>5, <1>7, <1>11, <2>1, <2>2, <2>3, EvictedKey
<1>12. ASSUME NEW j \in Keys \ {k}, j \notin Evictable
       PROVE  KeyInv(j)'
    <2>1. m'[j] = m[j]
        BY <1>1, <1>4, <1>5, <1>12, SweptIs
    <2>2. DataSame(j)
        BY <1>0, <1>5, <1>7, <2>1 DEF DataSame
    <2> QED
        BY <1>0, <1>5, <2>2, Frame DEF Core
<1> QED
    BY <1>5, <1>9, <1>10, <1>11, <1>12 DEF Core

\* An event counted in the sketch.
LEMMA IncrToSketch ==
    ASSUME Core, NEW k \in Keys, NEW t \in 0 .. now, Incr(k, t), IncrSheds(k, t)
    PROVE  Core'
<1>0. /\ flush = "no" /\ reset' = reset \ {k}
      /\ UNCHANGED <<now, hand, claim, store, flush, uncleaned>>
      /\ UNCHANGED <<dirty, delta, deadline, del, queue, workers, pc, counted, acked, opened>>
      /\ \/ UNCHANGED <<m, foreign>>
         \/ m' = Swept /\ foreign' = foreign \cup Evictable
    BY DEF Incr, IncrSheds, dirtyVars
<1>1. OwnInv /\ DataTypes
    BY DEF Core
<1>2. OwnInv'
    BY <1>0, <1>1, StillOwn
<1>3. \A j \in Keys : HeldSame(j)
    BY <1>0 DEF HeldSame
<1>4. DataTypes'
    <2>1. m' \in [Keys -> CounterEntry] /\ foreign' \in SUBSET Keys
        BY <1>0, <1>1, SweptIs DEF DataTypes
    <2> QED
        BY <1>0, <1>1, <2>1 DEF DataTypes
<1>5. ASSUME NEW j \in Keys
      PROVE  KeyInv(j)'
    <2>1. CASE m' = Swept /\ foreign' = foreign \cup Evictable /\ j \in Evictable
        <3>1. j \notin dirty /\ m'[j] = NoEntry
            BY <1>1, <2>1, SweptIs
        <3>2. j \notin del /\ KeyInv(j)
            BY <1>1, <3>1 DEF OwnInv, Core
        <3> QED
            BY <1>0, <1>1, <2>1, <3>1, <3>2, EvictedKey
    <2>2. CASE m'[j] = m[j]
        <3>1. DataSame(j)
            BY <1>0, <2>2 DEF DataSame
        <3> QED
            BY <1>0, <1>3, <3>1, Frame DEF Core
    <2> QED
        BY <1>0, <1>1, <2>1, <2>2, SweptIs
<1> QED
    BY <1>2, <1>4, <1>5 DEF Core

\* A Forget: the entry is gone, and its record follows unless there was no room for that.
LEMMA ForgetCore ==
    ASSUME Core, NEW k \in Keys, ForgetLocal(k)
    PROVE  Core'
<1>0. /\ flush = "no" /\ reset' = reset \ {k} /\ m' = [m EXCEPT ![k] = NoEntry] /\ MarkDelete(k)
      /\ UNCHANGED <<now, hand, claim, store, flush, counted, acked, opened, uncleaned>>
    BY DEF ForgetLocal, ghostVars
<1>1. OwnInv /\ DataTypes /\ KeyInv(k) /\ m \in [Keys -> CounterEntry] /\ dirty \in SUBSET Keys
    BY DEF Core, DataTypes, OwnInv, OwnTypes
<1>2. OwnInv' /\ \A g \in Goroutines : hand[g] # NoKey => pc'[g] = pc[g]
    <2>1. \/ UNCHANGED <<dirty, del, queue, workers, pc>>
          \/ /\ k \in dirty /\ del' \in {del, del \cup {k}}
             /\ UNCHANGED <<dirty, queue, workers, pc>>
          \/ /\ k \notin dirty /\ del' \in {del, del \cup {k}} /\ dirty' = dirty \cup {k}
             /\ queue' = Append(queue, k) /\ SpawnOne(pc)
        BY <1>0 DEF MarkDelete, dirtyVars
    <2> QED
        BY <1>0, <1>1, <2>1, MarkOwn
<1>3. \A j \in Keys : HeldSame(j)
    BY <1>0, <1>2, KeysAssumption DEF HeldSame
<1>4. m' \in [Keys -> CounterEntry] /\ m'[k].expires = 0 /\ \A j \in Keys \ {k} : m'[j] = m[j]
    BY <1>0, <1>1 DEF NoEntry, CounterEntry
<1>5. /\ delta' \in [Keys -> Nat] /\ deadline' \in [Keys -> Nat] /\ foreign' \in SUBSET Keys
      /\ delta'[k] = 0 /\ deadline'[k] \in {0, deadline[k]}
      /\ \A j \in Keys \ {k} : /\ delta'[j] = delta[j] /\ deadline'[j] = deadline[j]
                               /\ (j \in dirty' <=> j \in dirty) /\ (j \in del' <=> j \in del)
                               /\ (j \in foreign <=> j \in foreign')
      /\ k \in del' \/ k \in foreign'
      /\ k \in dirty => k \in del'
    <2>1. /\ delta \in [Keys -> Nat] /\ deadline \in [Keys -> Nat] /\ foreign \in SUBSET Keys
          /\ k \notin dirty => delta[k] = 0
        BY <1>1, CleanIs DEF DataTypes
    <2> QED
        BY <1>0, <2>1 DEF MarkDelete, dirtyVars
<1>6. DataTypes'
    BY <1>0, <1>1, <1>4, <1>5 DEF DataTypes
<1>7. KeyInv(k)'
    <2>1. WindowOK(k)'
        BY <1>0, <1>1, <1>4, <1>5 DEF KeyInv, WindowOK, Windows
    <2>2. \A g \in Goroutines : hand[g] = k => k \in dirty
        BY <1>1 DEF OwnInv, Owners, IsHeld
    <2>3. ClaimOK(k)'
        <3>1. \A g \in Goroutines : hand[g] = k /\ pc[g] \in Claiming =>
                 claim[g].deadline \in Windows(k) /\ claim[g].deadline # 0
            BY <1>1, KeyTypes DEF KeyInv, ClaimOK
        <3>2. Windows(k)' = Windows(k)
            BY <1>0 DEF Windows
        <3> QED
            BY <1>3, <1>4, <1>5, <2>2, <3>1, <3>2 DEF ClaimOK, HeldSame
    <2>4. LossOK(k)' /\ CountOK(k)' /\ ResetOK(k)'
        BY <1>0, <1>1, <1>4 DEF LossOK, CountOK, ResetOK, Live, Cached, DataTypes
    <2>5. \A g \in Goroutines : hand'[g] = k /\ pc'[g] = "merge" => claim'[g].deadline # m'[k].expires
        BY <1>5, <2>2, <2>3, <1>3 DEF ClaimOK, HeldSame, Claiming
    <2>6. StoreOK(k)'
        BY <1>5, <2>5 DEF StoreOK, Deleting
    <2> QED
        BY <2>1, <2>3, <2>4, <2>6 DEF KeyInv
<1>8. \A j \in Keys \ {k} : DataSame(j)
    BY <1>0, <1>4, <1>5 DEF DataSame
<1> QED
    BY <1>0, <1>2, <1>3, <1>6, <1>7, <1>8, OthersOf

\* The store's record after a push.
LEMMA StoreAfterIs ==
    ASSUME DataTypes, NEW k \in Keys, NEW d \in Nat, NEW dl \in Nat
    PROVE  /\ StoreAfter(k, d, dl) \in [Keys -> Cell]
           /\ \A j \in Keys \ {k} : StoreAfter(k, d, dl)[j] = store[j]
           /\ StoreLive(k) => /\ StoreAfter(k, d, dl)[k].n = store[k].n + d
                              /\ StoreAfter(k, d, dl)[k].expires = store[k].expires
           /\ ~StoreLive(k) => /\ StoreAfter(k, d, dl)[k].n = d
                               /\ StoreAfter(k, d, dl)[k].expires = dl
<1>1. store \in [Keys -> Cell] /\ store[k] \in Cell /\ store[k].n + d \in Nat
    BY DEF DataTypes, Cell
<1>2. CASE StoreLive(k)
    <2>1. StoreAfter(k, d, dl) = [store EXCEPT ![k].n = @ + d]
        BY <1>2 DEF StoreAfter
    <2> QED
        BY <1>1, <1>2, <2>1 DEF Cell
<1>3. CASE ~StoreLive(k)
    <2>1. StoreAfter(k, d, dl) = [store EXCEPT ![k] = [n |-> d, expires |-> dl]]
        BY <1>3 DEF StoreAfter
    <2> QED
        BY <1>1, <1>3, <2>1 DEF Cell
<1> QED
    BY <1>2, <1>3

\* ForgetSync's own delete.
LEMMA ForgetSyncCore ==
    ASSUME Core, NEW k \in Keys, ForgetSyncStore(k)
    PROVE  Core'
<1>0. /\ UNCHANGED <<now, m, dirty, delta, deadline, del, queue, workers, pc, hand, claim, flush,
                     counted, acked, opened, foreign>>
      /\ \/ /\ store' = [store EXCEPT ![k] = NoCell]
            /\ reset' = IF Cached(k) \/ MaybeShed(k, now) THEN reset ELSE reset \cup {k}
            /\ uncleaned' = uncleaned \ {k}
         \/ UNCHANGED <<store, reset, uncleaned>>
    BY DEF ForgetSyncStore, cacheVars, dirtyVars, drainVars, ghostVars
<1>1. OwnInv /\ DataTypes /\ KeyInv(k) /\ store \in [Keys -> Cell]
    BY DEF Core, DataTypes
<1>2. OwnInv'
    BY <1>0, <1>1, StillOwn DEF OwnInv, OwnTypes
<1>3. \A j \in Keys : HeldSame(j)
    BY <1>0 DEF HeldSame
<1>4. /\ store' \in [Keys -> Cell] /\ reset' \in SUBSET Keys /\ uncleaned' \in SUBSET Keys
      /\ \A j \in Keys \ {k} : /\ store'[j] = store[j] /\ (j \in reset' => j \in reset)
                               /\ (j \in uncleaned => j \in uncleaned')
      /\ (store'[k] = store[k] /\ uncleaned' = uncleaned) \/ store'[k].n = 0
      /\ k \in reset' => k \in reset \/ ~Cached(k)
      /\ k \in reset' /\ store'[k] = store[k] => k \in reset \/ store'[k].n = 0
    <2>1. NoCell \in Cell /\ NoCell.n = 0
        BY DEF NoCell, Cell
    <2> QED
        BY <1>0, <1>1, <2>1 DEF DataTypes
<1>5. DataTypes'
    BY <1>0, <1>1, <1>4 DEF DataTypes
<1>6. KeyInv(k)'
    <2>1. WindowOK(k)' /\ ClaimOK(k)' /\ CountOK(k)'
        BY <1>0, <1>1 DEF KeyInv, WindowOK, ClaimOK, CountOK, Windows, Cached
    <2>2. LossOK(k)'
        BY <1>0, <1>1 DEF KeyInv, LossOK, Live, IsHeld, InFlight
    <2>3. (StoreLive(k))' => StoreLive(k) /\ store'[k] = store[k] /\ uncleaned' = uncleaned
        BY <1>0, <1>1, <1>4 DEF StoreLive, DataTypes, Cell
    <2>4. (Deleting(k))' <=> Deleting(k)
        BY <1>0 DEF Deleting
    <2>5. StoreOK(k)'
        BY <1>0, <1>1, <2>3, <2>4 DEF KeyInv, StoreOK
    <2>6. ResetOK(k)'
        <3>1. SUFFICES ASSUME k \in reset'
                       PROVE  ~Cached(k)' /\ ((StoreLive(k))' => (Deleting(k))' \/ k \in uncleaned')
            BY DEF ResetOK
        <3>2. ~Cached(k)'
            BY <1>0, <1>1, <1>4, <3>1 DEF KeyInv, ResetOK, Cached
        <3>3. (StoreLive(k))' => k \in reset
            BY <1>4, <2>3, <3>1 DEF StoreLive
        <3> QED
            BY <1>1, <2>3, <2>4, <3>2, <3>3 DEF KeyInv, ResetOK
    <2> QED
        BY <2>1, <2>2, <2>5, <2>6 DEF KeyInv
<1>7. \A j \in Keys \ {k} : DataSame(j)
    BY <1>0, <1>4 DEF DataSame
<1> QED
    BY <1>0, <1>2, <1>3, <1>5, <1>6, <1>7, OthersOf

\* Another replica pushes.
LEMMA PeerCore ==
    ASSUME Core, NEW k \in Keys, PeerPush(k)
    PROVE  Core'
<1>0. /\ UNCHANGED <<now, m, dirty, delta, deadline, del, queue, workers, pc, hand, claim, flush,
                     counted, acked, opened, uncleaned>>
      /\ store' = StoreAfter(k, 1, now + TTL) /\ foreign' = foreign \cup {k} /\ reset' = reset \ {k}
    BY DEF PeerPush, cacheVars, dirtyVars, drainVars, ghostVars
<1>1. OwnInv /\ DataTypes /\ KeyInv(k) /\ now + TTL \in Nat
    BY TimeAssumption DEF Core, DataTypes
<1>2. OwnInv'
    BY <1>0, <1>1, StillOwn DEF OwnInv, OwnTypes
<1>3. \A j \in Keys : HeldSame(j)
    BY <1>0 DEF HeldSame
<1>4. store' \in [Keys -> Cell] /\ \A j \in Keys \ {k} : store'[j] = store[j]
    <2>1. PICK dl \in Nat : dl = now + TTL
        BY <1>1
    <2> QED
        BY <1>0, <1>1, <2>1, StoreAfterIs
<1>5. DataTypes'
    BY <1>0, <1>1, <1>4 DEF DataTypes
<1>6. KeyInv(k)'
    <2>1. WindowOK(k)' /\ ClaimOK(k)' /\ CountOK(k)'
        BY <1>0, <1>1 DEF KeyInv, WindowOK, ClaimOK, CountOK, Windows, Cached
    <2>2. LossOK(k)'
        BY <1>0, <1>1 DEF KeyInv, LossOK, Live, IsHeld, InFlight
    <2>3. StoreOK(k)' /\ ResetOK(k)'
        BY <1>0 DEF StoreOK, ResetOK
    <2> QED
        BY <2>1, <2>2, <2>3 DEF KeyInv
<1>7. \A j \in Keys \ {k} : DataSame(j)
    BY <1>0, <1>4 DEF DataSame
<1> QED
    BY <1>0, <1>2, <1>3, <1>5, <1>6, <1>7, OthersOf

\* Time passes: windows and records only end.
LEMMA TickCore ==
    ASSUME Core, Tick
    PROVE  Core'
<1>0. /\ UNCHANGED <<m, dirty, delta, deadline, del, queue, workers, pc, hand, claim, store, flush,
                     counted, acked, opened, reset, foreign, uncleaned>>
      /\ now' = now + 1
    BY DEF Tick, cacheVars, dirtyVars, drainVars, ghostVars
<1>1. OwnInv /\ DataTypes /\ now \in Nat
    BY DEF Core, DataTypes
<1>2. OwnInv' /\ DataTypes'
    BY <1>0, <1>1, StillOwn DEF OwnInv, OwnTypes, DataTypes
<1>3. ASSUME NEW k \in Keys
      PROVE  KeyInv(k)'
    <2>0. KeyInv(k) /\ m[k].expires \in Nat /\ store[k].expires \in Nat
          /\ \A g \in Goroutines : claim[g].deadline \in Nat
        BY <1>1, KeyTypes DEF Core
    <2>1. WindowOK(k)' /\ CountOK(k)'
        BY <1>0, <2>0 DEF KeyInv, WindowOK, CountOK, Windows, Cached
    <2>2. ClaimOK(k)'
        <3>1. \A g \in Goroutines : now >= claim[g].deadline => now' >= claim[g].deadline
            BY <1>0, <1>1, <2>0
        <3>2. Windows(k)' = Windows(k)
            BY <1>0 DEF Windows
        <3> QED
            BY <1>0, <2>0, <3>1, <3>2 DEF KeyInv, ClaimOK
    <2>3. LossOK(k)'
        <3>1. (Live(k))' => Live(k)
            BY <1>0, <1>1, <2>0 DEF Live
        <3>2. \A g \in Goroutines : InFlight(g, k)' = InFlight(g, k)
            BY <1>0 DEF InFlight
        <3>3. (IsHeld(k))' <=> IsHeld(k)
            BY <1>0 DEF IsHeld
        <3> QED
            BY <1>0, <2>0, <3>1, <3>2, <3>3 DEF KeyInv, LossOK
    <2>4. (StoreLive(k))' => StoreLive(k)
        BY <1>0, <1>1, <2>0 DEF StoreLive
    <2>5. (Deleting(k))' <=> Deleting(k)
        BY <1>0 DEF Deleting
    <2>6. StoreOK(k)'
        BY <1>0, <2>0, <2>4, <2>5 DEF KeyInv, StoreOK
    <2>7. ResetOK(k)'
        BY <1>0, <2>0, <2>4, <2>5 DEF KeyInv, ResetOK, Cached
    <2> QED
        BY <2>1, <2>2, <2>3, <2>6, <2>7 DEF KeyInv
<1> QED
    BY <1>2, <1>3 DEF Core

-----------------------------------------------------------------------------
(* The drain goroutines                                                    *)

\* A goroutine at work holds a dirty key, and it alone.
LEMMA HolderIs ==
    ASSUME OwnInv, NEW g \in Goroutines, pc[g] \notin {"off", "loop"}
    PROVE  /\ hand[g] \in Keys /\ hand[g] # NoKey /\ hand[g] \in dirty /\ IsHeld(hand[g])
           /\ \A h \in Goroutines : hand[h] = hand[g] => h = g
           /\ flush # "ok"
<1>1. hand[g] \in Keys /\ hand[g] # NoKey
    BY DEF OwnInv, OwnTypes, HandInv
<1>2. flush # "ok"
    BY Busy
<1> QED
    BY <1>1, <1>2 DEF OwnInv, Owners, IsHeld

\* Its step leaves the holders of other keys alone.
LEMMA NotMine ==
    ASSUME OwnInv, NEW g \in Goroutines, NEW k \in Keys, hand[g] = k,
           hand' \in {hand, [hand EXCEPT ![g] = NoKey]},
           \A h \in Goroutines : hand[h] # NoKey /\ h # g => pc'[h] = pc[h] /\ claim'[h] = claim[h]
    PROVE  \A j \in Keys \ {k} : HeldSame(j)
    BY KeysAssumption DEF HeldSame, OwnInv, OwnTypes

\* It takes a key off the queue, or finds none and ends.
LEMMA LoopCore ==
    ASSUME Core, NEW g \in Goroutines, DrainExit(g) \/ DrainTake(g)
    PROVE  Core'
<1>0. /\ UNCHANGED <<now, m, dirty, delta, deadline, del, claim, store, flush, counted, acked, opened,
                     reset, foreign, uncleaned>>
      /\ pc[g] = "loop"
    BY DEF DrainExit, DrainTake, cacheVars, dirtyVars, ghostVars
<1>1. OwnInv /\ DataTypes /\ DataTypes' /\ hand[g] = NoKey
    BY <1>0 DEF Core, DataTypes, OwnInv, HandInv
<1>2. workers > 0 /\ flush \notin {"counting", "ok", "left"} /\ g \in Running
    BY <1>0, <1>1, Busy DEF Running
<1>3. \A j \in Keys : DataSame(j)
    BY <1>0 DEF DataSame
<1>4. CASE DrainExit(g)
    <2>1. queue = <<>> /\ workers' = workers - 1 /\ pc' = [pc EXCEPT ![g] = "off"] /\ hand' = hand
          /\ queue' = queue
        BY <1>4 DEF DrainExit, dirtyVars
    <2>2. HandInv' /\ OwnTypes'
        BY <1>0, <1>1, <1>2, <2>1 DEF OwnInv, HandInv, OwnTypes, PC
    <2>3. Running' = Running \ {g}
        BY <1>1, <2>1 DEF Running, OwnInv, OwnTypes
    <2>4. Crew'
        <3>1. workers = Cardinality(Running) /\ workers <= MaxFlushWorkers /\ workers \in Nat
              /\ MaxFlushWorkers \in Nat
            BY <1>1, BoundsAssumption DEF OwnInv, Crew, OwnTypes
        <3>2. workers' = Cardinality(Running')
            BY <1>2, <2>1, <2>3, <3>1, RunningIs
        <3> QED
            BY <2>1, <3>1, <3>2 DEF Crew
    <2>5. Owners' /\ (del \subseteq dirty)' /\ Quiet'
        BY <1>0, <1>1, <1>2, <2>1 DEF OwnInv, Owners, IsQueued, IsHeld, Quiet
    <2>6. OwnInv'
        BY <2>2, <2>4, <2>5 DEF OwnInv
    <2>7. \A j \in Keys : HeldSame(j)
        BY <1>0, <1>1, <2>1, KeysAssumption DEF HeldSame, OwnInv, OwnTypes
    <2>8. \A j \in Keys : KeyInv(j)'
        BY <1>0, <1>3, <2>7, Frame DEF Core
    <2> QED
        BY <1>1, <2>6, <2>8 DEF Core
<1>5. CASE DrainTake(g)
    <2>1. queue # <<>> /\ hand' = [hand EXCEPT ![g] = Head(queue)] /\ queue' = Tail(queue)
          /\ pc' = [pc EXCEPT ![g] = "top"] /\ workers' = workers
        BY <1>5 DEF DrainTake
    <2>2. Owners' /\ queue' \in Seq(Keys) /\ Head(queue) \in Keys /\ ~IsHeld(Head(queue))
        BY <1>0, <1>1, <2>1, Taken DEF OwnInv
    <2>3. PICK k \in Keys : k = Head(queue)
        BY <2>2
    <2>4. HandInv' /\ OwnTypes'
        BY <1>0, <1>1, <2>1, <2>2, <2>3, KeysAssumption DEF OwnInv, HandInv, OwnTypes, PC
    <2>5. Running' = Running
        BY <1>0, <1>1, <2>1 DEF Running, OwnInv, OwnTypes
    <2>6. Crew' /\ Quiet' /\ (del \subseteq dirty)'
        BY <1>0, <1>1, <1>2, <2>1, <2>5 DEF OwnInv, Crew, Quiet
    <2>7. OwnInv'
        BY <2>2, <2>4, <2>6 DEF OwnInv
    <2>8. /\ \A h \in Goroutines : hand[h] # k /\ (hand'[h] = k <=> h = g)
          /\ pc'[g] = "top" /\ hand'[g] = k
        BY <1>1, <2>1, <2>2, <2>3 DEF IsHeld, OwnInv, OwnTypes
    <2>9. \A j \in Keys \ {k} : HeldSame(j)
        BY <1>0, <1>1, <2>1, <2>3, KeysAssumption DEF HeldSame, OwnInv, OwnTypes
    <2>10. KeyInv(k)'
        <3>0. KeyInv(k) /\ acked[k] \in Nat /\ delta[k] \in Nat /\ m[k].pending \in Nat
            BY <1>1, KeyTypes DEF Core
        <3>1. WindowOK(k)' /\ CountOK(k)'
            BY <1>0, <3>0 DEF KeyInv, WindowOK, CountOK, Windows, Cached
        <3>2. ClaimOK(k)'
            BY <2>8 DEF ClaimOK, Claiming
        <3>3. ~IsHeld(k) /\ (IsHeld(k))' /\ InFlight(g, k)' = 0
            BY <2>8 DEF IsHeld, InFlight
        <3>4. LossOK(k)'
            BY <1>0, <2>8, <3>0, <3>3 DEF KeyInv, LossOK, Live
        <3>5. (Deleting(k))' <=> Deleting(k)
            BY <1>0, <2>8 DEF Deleting
        <3>6. StoreOK(k)' /\ ResetOK(k)'
            BY <1>0, <2>8, <3>0, <3>5 DEF KeyInv, StoreOK, ResetOK, StoreLive, Cached
        <3> QED
            BY <3>1, <3>2, <3>4, <3>6 DEF KeyInv
    <2> QED
        BY <1>0, <1>1, <1>3, <2>7, <2>9, <2>10, OthersOf
<1> QED
    BY <1>4, <1>5

\* It lets the key go, with nothing of it in flight.
LEMMA ReleaseCore ==
    ASSUME Core, NEW g \in Goroutines, NEW k \in Keys, hand[g] = k, ReleaseLocked(g, k),
           hand' = [hand EXCEPT ![g] = NoKey], claim' \in {claim, [claim EXCEPT ![g] = NoClaim]},
           UNCHANGED <<now, m, store, flush, counted, acked, opened, reset, foreign, uncleaned>>,
           InFlight(g, k) = 0, pc[g] # "delete"
    PROVE  Core'
<1>0. OwnInv /\ DataTypes /\ KeyInv(k) /\ delta \in [Keys -> Nat] /\ deadline \in [Keys -> Nat]
      /\ claim \in [Goroutines -> Claim]
    BY DEF Core, DataTypes
<1>1. /\ OwnInv' /\ k \in dirty /\ UNCHANGED <<delta, del>>
      /\ \/ delta[k] = 0 /\ k \notin del /\ deadline' = [deadline EXCEPT ![k] = 0]
            /\ dirty' = dirty \ {k}
         \/ deadline' = deadline /\ dirty' = dirty
      /\ \A h \in Goroutines : hand[h] # NoKey /\ h # g => pc'[h] = pc[h]
    BY <1>0, ReleaseOwn
<1>2. /\ deadline' \in [Keys -> Nat] /\ deadline'[k] \in {0, deadline[k]}
      /\ delta[k] > 0 => k \in dirty' /\ deadline'[k] = deadline[k]
      /\ \A j \in Keys \ {k} : deadline'[j] = deadline[j] /\ (j \in dirty' <=> j \in dirty)
    BY <1>0, <1>1
<1>3. /\ claim' \in [Goroutines -> Claim]
      /\ \A h \in Goroutines \ {g} : claim'[h] = claim[h]
    BY <1>0 DEF NoClaim, Claim
<1>4. DataTypes'
    BY <1>0, <1>1, <1>2, <1>3 DEF DataTypes
<1>5. IsHeld(k) /\ \A h \in Goroutines : (hand[h] = k => h = g) /\ hand'[h] # k
    BY <1>0, KeysAssumption DEF IsHeld, OwnInv, Owners, OwnTypes
<1>6. KeyInv(k)'
    <2>0. /\ acked[k] \in Nat /\ delta[k] \in Nat /\ m[k].pending \in Nat
        BY <1>0, KeyTypes
    <2>1. WindowOK(k)'
        BY <1>0, <1>1, <1>2 DEF KeyInv, WindowOK, Windows
    <2>2. ClaimOK(k)'
        BY <1>5 DEF ClaimOK
    <2>3. LossOK(k)'
        BY <1>0, <1>1, <1>5, <2>0 DEF KeyInv, LossOK, Live
    <2>4. CountOK(k)'
        BY <1>0 DEF KeyInv, CountOK, Cached
    <2>5. (Deleting(k))' <=> Deleting(k)
        BY <1>1, <1>5 DEF Deleting
    <2>6. StoreOK(k)' /\ ResetOK(k)'
        BY <1>0, <1>5, <2>5 DEF KeyInv, StoreOK, ResetOK, StoreLive, Cached
    <2> QED
        BY <2>1, <2>2, <2>3, <2>4, <2>6 DEF KeyInv
<1>7. \A j \in Keys \ {k} : HeldSame(j) /\ DataSame(j)
    <2>1. \A j \in Keys \ {k} : HeldSame(j)
        BY <1>0, <1>1, <1>3, NotMine
    <2> QED
        BY <1>1, <1>2, <2>1 DEF DataSame
<1> QED
    BY <1>1, <1>4, <1>6, <1>7, OthersOf

\* A pending delete is taken first.
LEMMA DeleteCore ==
    ASSUME Core, NEW g \in Goroutines, FlushKey(g), FlushKeyDelete(g, hand[g])
    PROVE  Core'
<1>0. /\ UNCHANGED <<now, m, dirty, delta, deadline, queue, workers, hand, claim, store, flush,
                     counted, acked, opened, reset, foreign, uncleaned>>
      /\ pc[g] = "top" /\ del' = del \ {hand[g]} /\ pc' = [pc EXCEPT ![g] = "delete"]
    BY DEF FlushKey, FlushKeyDelete, cacheVars, ghostVars
<1>1. OwnInv /\ DataTypes /\ DataTypes'
    BY <1>0 DEF Core, DataTypes
<1>2. PICK k \in Keys : /\ hand[g] = k /\ hand[g] # NoKey /\ IsHeld(k)
                        /\ \A h \in Goroutines : hand[h] = k => h = g
    BY <1>0, <1>1, HolderIs
<1>3. OwnInv' /\ pc'[g] = "delete" /\ \A h \in Goroutines \ {g} : pc'[h] = pc[h]
    <2>1. PICK p \in PC \ {"off", "loop"} : p = "delete"
        BY DEF PC
    <2> QED
        BY <1>0, <1>1, <1>2, <2>1, TurnOwn DEF OwnInv, OwnTypes
<1>4. KeyInv(k) /\ (Deleting(k))'
    BY <1>0, <1>2, <1>3 DEF Core, Deleting
<1>5. KeyInv(k)'
    <2>1. WindowOK(k)' /\ CountOK(k)'
        BY <1>0, <1>4 DEF KeyInv, WindowOK, CountOK, Windows, Cached
    <2>2. ClaimOK(k)'
        BY <1>0, <1>2, <1>3 DEF ClaimOK, Claiming
    <2>3. InFlight(g, k)' = InFlight(g, k)
        BY <1>0, <1>3 DEF InFlight
    <2>4. LossOK(k)'
        BY <1>0, <1>2, <1>4, <2>3 DEF KeyInv, LossOK, Live, IsHeld
    <2>5. StoreOK(k)' /\ ResetOK(k)'
        BY <1>0, <1>2, <1>3, <1>4 DEF KeyInv, StoreOK, ResetOK, Cached
    <2> QED
        BY <2>1, <2>2, <2>4, <2>5 DEF KeyInv
<1>6. \A j \in Keys \ {k} : HeldSame(j) /\ DataSame(j)
    <2>1. \A j \in Keys \ {k} : HeldSame(j)
        BY <1>0, <1>1, <1>2, <1>3, NotMine
    <2> QED
        BY <1>0, <1>2, <2>1 DEF DataSame
<1> QED
    BY <1>0, <1>1, <1>3, <1>5, <1>6, OthersOf

\* The delta of a window that is over is dropped.
LEMMA DropCore ==
    ASSUME Core, NEW g \in Goroutines, FlushKey(g), FlushKeyDrop(g, hand[g])
    PROVE  Core'
<1>0. /\ UNCHANGED <<now, m, dirty, deadline, del, queue, workers, pc, hand, claim, store, flush,
                     counted, acked, opened, reset, foreign, uncleaned>>
      /\ pc[g] = "top" /\ delta' = [delta EXCEPT ![hand[g]] = 0]
      /\ delta[hand[g]] > 0 /\ WindowOver(hand[g])
    BY DEF FlushKey, FlushKeyDrop, cacheVars, ghostVars, drainVars
<1>1. OwnInv /\ DataTypes /\ delta \in [Keys -> Nat]
    BY DEF Core, DataTypes
<1>2. PICK k \in Keys : hand[g] = k
    BY <1>0, <1>1, HolderIs
<1>3. delta' \in [Keys -> Nat] /\ delta'[k] = 0 /\ \A j \in Keys \ {k} : delta'[j] = delta[j]
    BY <1>0, <1>1, <1>2
<1>4. OwnInv' /\ DataTypes'
    BY <1>0, <1>1, <1>3, StillOwn DEF OwnInv, OwnTypes, DataTypes
<1>5. KeyInv(k) /\ ~Live(k)
    BY <1>0, <1>1, <1>2, KeyTypes DEF Core, KeyInv, WindowOK, WindowOver, Live
<1>6. KeyInv(k)'
    <2>1. WindowOK(k)' /\ ClaimOK(k)' /\ CountOK(k)'
        BY <1>0, <1>3, <1>5 DEF KeyInv, WindowOK, ClaimOK, CountOK, Windows, Cached
    <2>2. LossOK(k)'
        BY <1>0, <1>5 DEF LossOK, Live
    <2>3. StoreOK(k)' /\ ResetOK(k)'
        BY <1>0, <1>5 DEF KeyInv, StoreOK, ResetOK, Deleting, StoreLive, Cached
    <2> QED
        BY <2>1, <2>2, <2>3 DEF KeyInv
<1>7. \A j \in Keys \ {k} : HeldSame(j) /\ DataSame(j)
    BY <1>0, <1>3 DEF HeldSame, DataSame
<1> QED
    BY <1>0, <1>4, <1>6, <1>7, OthersOf

\* The delta is claimed for the round.
LEMMA ClaimCore ==
    ASSUME Core, NEW g \in Goroutines, FlushKey(g), FlushKeyClaim(g, hand[g])
    PROVE  Core'
<1>0. /\ UNCHANGED <<now, m, dirty, deadline, del, queue, workers, hand, store, flush,
                     counted, acked, opened, reset, foreign, uncleaned>>
      /\ pc[g] = "top" /\ delta' = [delta EXCEPT ![hand[g]] = 0] /\ pc' = [pc EXCEPT ![g] = "push"]
      /\ claim' = [claim EXCEPT ![g] = [delta |-> delta[hand[g]], deadline |-> deadline[hand[g]],
                                        shared |-> 0]]
      /\ delta[hand[g]] > 0 /\ hand[g] \notin del
    BY DEF FlushKey, FlushKeyClaim, cacheVars, ghostVars
<1>1. OwnInv /\ DataTypes /\ delta \in [Keys -> Nat] /\ claim \in [Goroutines -> Claim]
    BY DEF Core, DataTypes
<1>2. PICK k \in Keys : /\ hand[g] = k /\ hand[g] # NoKey /\ IsHeld(k)
                        /\ \A h \in Goroutines : hand[h] = k => h = g
    BY <1>0, <1>1, HolderIs
<1>2a. /\ KeyInv(k) /\ delta[k] \in Nat /\ deadline[k] \in Nat /\ acked[k] \in Nat
       /\ m[k].pending \in Nat /\ m[k].expires \in Nat
    BY <1>1, KeyTypes DEF Core
<1>3. /\ delta' \in [Keys -> Nat] /\ delta'[k] = 0 /\ \A j \in Keys \ {k} : delta'[j] = delta[j]
      /\ claim' \in [Goroutines -> Claim] /\ \A h \in Goroutines \ {g} : claim'[h] = claim[h]
      /\ claim'[g].delta = delta[k] /\ claim'[g].deadline = deadline[k]
    BY <1>0, <1>1, <1>2, <1>2a DEF Claim
<1>4. DataTypes'
    BY <1>0, <1>1, <1>3 DEF DataTypes
<1>5. OwnInv' /\ pc'[g] = "push" /\ \A h \in Goroutines \ {g} : pc'[h] = pc[h]
    <2>1. PICK p \in PC \ {"off", "loop"} : p = "push"
        BY DEF PC
    <2> QED
        BY <1>0, <1>1, <1>2, <2>1, TurnOwn DEF OwnInv, OwnTypes
<1>6. deadline[k] = m[k].expires /\ m[k].expires > 0 /\ m[k].expires \in Windows(k)
    BY <1>0, <1>2, <1>2a DEF KeyInv, WindowOK
<1>7. KeyInv(k)'
    <2>1. WindowOK(k)' /\ CountOK(k)'
        BY <1>0, <1>2a, <1>3 DEF KeyInv, WindowOK, CountOK, Windows, Cached
    <2>2. ClaimOK(k)'
        <3>1. Windows(k)' = Windows(k)
            BY <1>0 DEF Windows
        <3> QED
            BY <1>0, <1>2, <1>3, <1>6, <3>1 DEF ClaimOK
    <2>3. InFlight(g, k)' = delta[k] /\ InFlight(g, k) = 0
        BY <1>0, <1>2, <1>3, <1>5, <1>6 DEF InFlight
    <2>4. LossOK(k)'
        <3>1. (IsHeld(k))' <=> IsHeld(k)
            BY <1>0 DEF IsHeld
        <3>2. (Live(k))' <=> Live(k)
            BY <1>0 DEF Live
        <3>3. Live(k) => counted[k] = acked[k] + m[k].pending + delta[k] + InFlight(g, k)
            BY <1>2, <1>2a DEF KeyInv, LossOK
        <3>4. Live(k) => counted[k] = acked[k] + m[k].pending + 0 + InFlight(g, k)'
            BY <1>2a, <2>3, <3>3
        <3> QED
            BY <1>0, <1>2, <1>2a, <1>3, <3>1, <3>2, <3>4 DEF KeyInv, LossOK
    <2>5. (Deleting(k))' <=> Deleting(k)
        BY <1>0, <1>2, <1>5 DEF Deleting
    <2>6. StoreOK(k)' /\ ResetOK(k)'
        BY <1>0, <1>2, <1>2a, <1>5, <2>5 DEF KeyInv, StoreOK, ResetOK, Cached, StoreLive
    <2> QED
        BY <2>1, <2>2, <2>4, <2>6 DEF KeyInv
<1>8. \A j \in Keys \ {k} : HeldSame(j) /\ DataSame(j)
    <2>1. \A j \in Keys \ {k} : HeldSame(j)
        BY <1>0, <1>1, <1>2, <1>3, <1>5, NotMine
    <2> QED
        BY <1>0, <1>3, <2>1 DEF DataSame
<1> QED
    BY <1>0, <1>4, <1>5, <1>7, <1>8, OthersOf

\* One turn of flushKey's loop.
LEMMA FlushKeyCore ==
    ASSUME Core, NEW g \in Goroutines, FlushKey(g)
    PROVE  Core'
<1>1. CASE FlushKeyDone(g, hand[g])
    <2>0. /\ UNCHANGED <<now, m, store, flush, counted, acked, opened, reset, foreign, uncleaned, claim>>
          /\ pc[g] = "top" /\ ReleaseLocked(g, hand[g]) /\ hand' = [hand EXCEPT ![g] = NoKey]
        BY <1>1 DEF FlushKey, FlushKeyDone, cacheVars, ghostVars
    <2>1. PICK k \in Keys : hand[g] = k
        BY <2>0, HolderIs DEF Core
    <2>2. InFlight(g, k) = 0
        BY <2>0 DEF InFlight
    <2> QED
        BY <2>0, <2>1, <2>2, ReleaseCore
<1>2. \/ FlushKeyDelete(g, hand[g]) \/ FlushKeyDone(g, hand[g])
      \/ FlushKeyDrop(g, hand[g]) \/ FlushKeyClaim(g, hand[g])
    BY DEF FlushKey
<1> QED
    BY <1>1, <1>2, DeleteCore, DropCore, ClaimCore

\* The key is let go after a delete that failed.
LEMMA ReleasedCore ==
    ASSUME Core, NEW g \in Goroutines, Release(g)
    PROVE  Core'
<1>0. /\ UNCHANGED <<now, m, store, flush, counted, acked, opened, reset, foreign, uncleaned, claim>>
      /\ pc[g] = "release" /\ ReleaseLocked(g, hand[g]) /\ hand' = [hand EXCEPT ![g] = NoKey]
    BY DEF Release, cacheVars, ghostVars
<1>1. PICK k \in Keys : hand[g] = k
    BY <1>0, HolderIs DEF Core
<1>2. InFlight(g, k) = 0
    BY <1>0 DEF InFlight
<1> QED
    BY <1>0, <1>1, <1>2, ReleaseCore

\* The store delete of a Forget, done or failed.
LEMMA FlushDeleteCore ==
    ASSUME Core, NEW g \in Goroutines, FlushDelete(g)
    PROVE  Core'
<1>0. /\ UNCHANGED <<now, m, dirty, delta, deadline, del, queue, workers, hand, claim, flush,
                     counted, acked, opened, reset>>
      /\ pc[g] = "delete"
      /\ \/ /\ store' = [store EXCEPT ![hand[g]] = NoCell] /\ pc' = [pc EXCEPT ![g] = "top"]
            /\ uncleaned' = uncleaned \ {hand[g]} /\ UNCHANGED foreign
         \/ /\ pc' = [pc EXCEPT ![g] = "release"] /\ foreign' = foreign \cup {hand[g]}
            /\ uncleaned' = uncleaned \cup {hand[g]} /\ UNCHANGED store
    BY DEF FlushDelete, cacheVars, dirtyVars, ghostVars
<1>1. OwnInv /\ DataTypes /\ store \in [Keys -> Cell]
    BY DEF Core, DataTypes
<1>2. PICK k \in Keys : /\ hand[g] = k /\ hand[g] # NoKey /\ IsHeld(k)
                        /\ \A h \in Goroutines : hand[h] = k => h = g
    BY <1>0, <1>1, HolderIs
<1>3. PICK p \in {"top", "release"} : pc' = [pc EXCEPT ![g] = p]
    BY <1>0
<1>4. OwnInv' /\ pc'[g] = p /\ \A h \in Goroutines \ {g} : pc'[h] = pc[h]
    <2>1. p \in PC \ {"off", "loop"}
        BY DEF PC
    <2> QED
        BY <1>0, <1>1, <1>2, <1>3, <2>1, TurnOwn DEF OwnInv, OwnTypes
<1>5. /\ store' \in [Keys -> Cell] /\ \A j \in Keys \ {k} : store'[j] = store[j]
      /\ store'[k].n = 0 \/ (k \in foreign' /\ k \in uncleaned')
    BY <1>0, <1>1, <1>2 DEF NoCell, Cell
<1>6. DataTypes'
    BY <1>0, <1>1, <1>2, <1>5 DEF DataTypes
<1>7. KeyInv(k)'
    <2>0. KeyInv(k)
        BY DEF Core
    <2>1. WindowOK(k)' /\ CountOK(k)'
        BY <1>0, <2>0 DEF KeyInv, WindowOK, CountOK, Windows, Cached
    <2>2. ClaimOK(k)'
        BY <1>0, <1>2, <1>4 DEF ClaimOK, Claiming
    <2>3. InFlight(g, k)' = InFlight(g, k)
        BY <1>0, <1>4 DEF InFlight
    <2>4. LossOK(k)'
        BY <1>0, <1>2, <2>0, <2>3 DEF KeyInv, LossOK, Live, IsHeld
    <2>5. StoreOK(k)'
        BY <1>0, <1>2, <1>4, <1>5 DEF StoreOK, StoreLive
    <2>6. ResetOK(k)'
        <3>1. k \in reset' => k \in reset /\ (store'[k].n = 0 \/ k \in uncleaned')
            BY <1>0, <1>5
        <3>2. (Cached(k))' <=> Cached(k)
            BY <1>0 DEF Cached
        <3>3. store'[k].n = 0 => ~StoreLive(k)'
            BY DEF StoreLive
        <3> QED
            BY <2>0, <3>1, <3>2, <3>3 DEF KeyInv, ResetOK
    <2> QED
        BY <2>1, <2>2, <2>4, <2>5, <2>6 DEF KeyInv
<1>8. \A j \in Keys \ {k} : HeldSame(j) /\ DataSame(j)
    <2>1. \A j \in Keys \ {k} : HeldSame(j)
        BY <1>0, <1>1, <1>2, <1>4, NotMine
    <2> QED
        BY <1>0, <1>2, <1>5, <2>1 DEF DataSame
<1> QED
    BY <1>0, <1>4, <1>6, <1>7, <1>8, OthersOf

\* flushIncr's store round: skipped after the deadline, done, lost, or applied and not heard of.
LEMMA FlushIncrCore ==
    ASSUME Core, NEW g \in Goroutines, FlushIncr(g)
    PROVE  Core'
<1>0. /\ UNCHANGED <<now, m, dirty, delta, deadline, del, queue, workers, hand, flush,
                     counted, opened, reset, uncleaned>>
      /\ pc[g] = "push"
    BY DEF FlushIncr, cacheVars, dirtyVars
<1>1. /\ OwnInv /\ DataTypes /\ store \in [Keys -> Cell] /\ claim \in [Goroutines -> Claim]
      /\ acked \in [Keys -> Nat] /\ claim[g] \in Claim
    BY DEF Core, DataTypes
<1>2. PICK k \in Keys : /\ hand[g] = k /\ hand[g] # NoKey /\ IsHeld(k)
                        /\ \A h \in Goroutines : hand[h] = k => h = g
    BY <1>0, <1>1, HolderIs
<1>3. PICK d \in Nat, dl \in Nat : claim[g].delta = d /\ claim[g].deadline = dl
    BY <1>1, <1>2, KeyTypes
<1>4. /\ KeyInv(k) /\ delta[k] \in Nat /\ acked[k] \in Nat /\ m[k].pending \in Nat
      /\ m[k].expires \in Nat /\ now \in Nat /\ store[k].n \in Nat /\ acked[k] + d \in Nat
    BY <1>1, KeyTypes DEF Core
<1>5. /\ dl \in Windows(k) /\ dl > 0
      /\ dl # m[k].expires => k \in del \/ now >= dl
      /\ k \in del => dl # m[k].expires
    <2>1. \A w \in Windows(k) : w \in Nat /\ w > 0
        BY <1>1, KeyTypes
    <2> QED
        BY <1>0, <1>2, <1>3, <1>4, <2>1 DEF KeyInv, ClaimOK, Claiming
<1>6. InFlight(g, k) = IF dl = m[k].expires THEN d ELSE 0
    BY <1>0, <1>2, <1>3 DEF InFlight
<1>7. Live(k) => counted[k] = acked[k] + m[k].pending + delta[k] + InFlight(g, k)
    BY <1>2, <1>4 DEF KeyInv, LossOK
<1>8. Windows(k)' = Windows(k) /\ ((Live(k))' <=> Live(k)) /\ ((IsHeld(k))' <=> IsHeld(k))
      /\ ((Cached(k))' <=> Cached(k))
    BY <1>0 DEF Windows, Live, IsHeld, Cached
<1>9. WindowOK(k)'
    BY <1>0, <1>4, <1>8 DEF KeyInv, WindowOK
<1>10. dl = m[k].expires => k \notin reset
    BY <1>4, <1>5 DEF KeyInv, ResetOK, Cached
<1>11. flush # "ok"
    BY <1>0, <1>1, HolderIs
\* What the four outcomes have in common.
<1>12. ASSUME NEW p \in {"top", "merge", "failed"}, pc' = [pc EXCEPT ![g] = p],
              claim' \in [Goroutines -> Claim], \A h \in Goroutines \ {g} : claim'[h] = claim[h],
              store' \in [Keys -> Cell], \A j \in Keys \ {k} : store'[j] = store[j],
              acked' \in [Keys -> Nat], \A j \in Keys \ {k} : acked'[j] = acked[j],
              foreign' \in {foreign, foreign \cup {k}},
              p # "top" => claim'[g].delta = d /\ claim'[g].deadline = dl,
              Live(k) => acked[k] + InFlight(g, k) = acked'[k] + InFlight(g, k)',
              InFlight(g, k)' \in Nat,
              k \notin foreign' =>
                 /\ (StoreLive(k))' /\ k \notin del =>
                       store'[k].expires = m[k].expires /\ store'[k].n <= acked'[k]
                 /\ p = "merge" /\ dl = m[k].expires => claim'[g].shared <= acked'[k],
              StoreLive(k)' => StoreLive(k) \/ k \in del \/ k \notin reset
       PROVE  Core'
    <2>1. OwnInv' /\ pc'[g] = p /\ \A h \in Goroutines \ {g} : pc'[h] = pc[h]
        <3>1. p \in PC \ {"off", "loop"}
            BY DEF PC
        <3> QED
            BY <1>0, <1>1, <1>2, <1>12, <3>1, TurnOwn DEF OwnInv, OwnTypes
    <2>2. DataTypes'
        BY <1>0, <1>1, <1>12 DEF DataTypes
    <2>3. ClaimOK(k)'
        BY <1>0, <1>2, <1>5, <1>8, <1>12, <2>1 DEF ClaimOK, Claiming
    <2>4. LossOK(k)'
        <3>1. acked'[k] \in Nat /\ InFlight(g, k) \in Nat
            BY <1>3, <1>6, <1>12
        <3>2. Live(k) => counted[k] = acked'[k] + m[k].pending + delta[k] + InFlight(g, k)'
            BY <1>4, <1>7, <1>12, <3>1
        <3> QED
            BY <1>0, <1>2, <1>8, <1>11, <3>2 DEF LossOK
    <2>5. CountOK(k)'
        BY <1>0, <1>4, <1>8, <1>12 DEF KeyInv, CountOK
    <2>6. (Deleting(k))' <=> k \in del
        BY <1>0, <1>2, <2>1 DEF Deleting
    <2>7. Deleting(k) <=> k \in del
        BY <1>0, <1>2 DEF Deleting
    <2>8. StoreOK(k)'
        BY <1>0, <1>2, <1>12, <2>1, <2>6 DEF StoreOK
    <2>9. ResetOK(k)'
        BY <1>0, <1>4, <1>8, <1>12, <2>6, <2>7 DEF KeyInv, ResetOK
    <2>10. KeyInv(k)'
        BY <1>9, <2>3, <2>4, <2>5, <2>8, <2>9 DEF KeyInv
    <2>11. \A j \in Keys \ {k} : HeldSame(j) /\ DataSame(j)
        <3>1. \A j \in Keys \ {k} : HeldSame(j)
            BY <1>0, <1>1, <1>2, <1>12, <2>1, NotMine
        <3> QED
            BY <1>0, <1>12, <3>1 DEF DataSame
    <2> QED
        BY <1>0, <2>1, <2>2, <2>10, <2>11, OthersOf
\* The record that no one else wrote to, before the round.
<1>13. k \notin foreign /\ StoreLive(k) /\ k \notin del =>
          store[k].expires = m[k].expires /\ store[k].n <= acked[k]
    BY <1>0, <1>2, <1>4 DEF KeyInv, StoreOK, Deleting
<1>14. /\ StoreAfter(k, d, dl) \in [Keys -> Cell]
       /\ \A j \in Keys \ {k} : StoreAfter(k, d, dl)[j] = store[j]
       /\ StoreLive(k) => /\ StoreAfter(k, d, dl)[k].n = store[k].n + d
                          /\ StoreAfter(k, d, dl)[k].expires = store[k].expires
       /\ ~StoreLive(k) => /\ StoreAfter(k, d, dl)[k].n = d
                           /\ StoreAfter(k, d, dl)[k].expires = dl
    BY <1>1, StoreAfterIs
<1> HIDE DEF StoreAfter
<1>15. CASE /\ now >= dl /\ pc' = [pc EXCEPT ![g] = "top"]
            /\ claim' = [claim EXCEPT ![g] = NoClaim] /\ UNCHANGED <<store, acked, foreign>>
    <2>1. claim' \in [Goroutines -> Claim] /\ \A h \in Goroutines \ {g} : claim'[h] = claim[h]
        BY <1>1, <1>15 DEF NoClaim, Claim
    <2>2. InFlight(g, k)' = 0 /\ pc'[g] = "top"
        BY <1>1, <1>15 DEF InFlight, OwnInv, OwnTypes
    <2>3. Live(k) => InFlight(g, k) = 0
        BY <1>4, <1>6, <1>15 DEF Live
    <2>4. (StoreLive(k))' <=> StoreLive(k)
        BY <1>0, <1>15 DEF StoreLive
    <2> QED
        BY <1>1, <1>4, <1>12, <1>13, <1>15, <2>1, <2>2, <2>3, <2>4
<1>16. CASE /\ now < dl /\ store' = StoreAfter(k, d, dl)
            /\ claim' = [claim EXCEPT ![g].shared = StoreAfter(k, d, dl)[k].n]
            /\ pc' = [pc EXCEPT ![g] = "merge"]
            /\ acked' = IF m[k].expires = dl THEN [acked EXCEPT ![k] = @ + d] ELSE acked
            /\ UNCHANGED foreign
    <2>0. StoreAfter(k, d, dl)[k].n \in Nat
        BY <1>3, <1>4, <1>14
    <2>1. /\ claim' \in [Goroutines -> Claim] /\ \A h \in Goroutines \ {g} : claim'[h] = claim[h]
          /\ claim'[g].delta = d /\ claim'[g].deadline = dl
          /\ claim'[g].shared = StoreAfter(k, d, dl)[k].n
        BY <1>1, <1>3, <1>16, <2>0 DEF Claim
    <2>2. InFlight(g, k)' = 0 /\ pc'[g] = "merge"
        BY <1>1, <1>16 DEF InFlight, OwnInv, OwnTypes
    <2>3. /\ acked' \in [Keys -> Nat] /\ \A j \in Keys \ {k} : acked'[j] = acked[j]
          /\ acked'[k] = IF m[k].expires = dl THEN acked[k] + d ELSE acked[k]
        BY <1>1, <1>4, <1>16
    <2>4. acked[k] + InFlight(g, k) = acked'[k] + InFlight(g, k)'
        BY <1>3, <1>4, <1>6, <2>2, <2>3
    <2>5. k \notin del => dl = m[k].expires
        BY <1>3, <1>4, <1>5, <1>16
    <2>6. k \notin foreign /\ k \notin del =>
             store'[k].expires = m[k].expires /\ store'[k].n <= acked'[k]
        BY <1>3, <1>4, <1>13, <1>14, <1>16, <2>3, <2>5
    <2>7. dl = m[k].expires => k \notin del
        BY <1>5
    <2> QED
        BY <1>10, <1>12, <1>14, <1>16, <2>1, <2>2, <2>3, <2>4, <2>5, <2>6, <2>7
<1>17. CASE pc' = [pc EXCEPT ![g] = "failed"] /\ UNCHANGED <<claim, store, acked, foreign>>
    <2>1. InFlight(g, k)' = InFlight(g, k) /\ InFlight(g, k) \in Nat
        BY <1>0, <1>1, <1>3, <1>17 DEF InFlight, OwnInv, OwnTypes
    <2>2. (StoreLive(k))' <=> StoreLive(k)
        BY <1>0, <1>17 DEF StoreLive
    <2> QED
        BY <1>1, <1>3, <1>4, <1>12, <1>13, <1>17, <2>1, <2>2
<1>18. CASE /\ now < dl /\ store' = StoreAfter(k, d, dl) /\ pc' = [pc EXCEPT ![g] = "failed"]
            /\ foreign' = foreign \cup {k} /\ UNCHANGED <<claim, acked>>
    <2>1. InFlight(g, k)' = InFlight(g, k) /\ InFlight(g, k) \in Nat
        BY <1>0, <1>1, <1>3, <1>18 DEF InFlight, OwnInv, OwnTypes
    <2>2. k \notin del => dl = m[k].expires
        BY <1>3, <1>4, <1>5, <1>18
    <2> QED
        BY <1>1, <1>3, <1>4, <1>10, <1>12, <1>14, <1>18, <2>1, <2>2
<1> QED
    BY <1>2, <1>3, <1>15, <1>16, <1>17, <1>18 DEF FlushIncr

\* The merge: a record that no one else wrote to never holds more than was counted here.
LEMMA MergeCore ==
    ASSUME Core, NEW g \in Goroutines, FlushMerge(g)
    PROVE  Core'
<1>0. /\ UNCHANGED <<now, dirty, delta, deadline, del, queue, workers, hand, store, flush,
                     counted, acked, opened, reset, foreign, uncleaned>>
      /\ pc[g] = "merge" /\ pc' = [pc EXCEPT ![g] = "top"] /\ claim' = [claim EXCEPT ![g] = NoClaim]
      /\ m' = IF Merges(hand[g], claim[g]) THEN [m EXCEPT ![hand[g]].n = claim[g].shared] ELSE m
    BY DEF FlushMerge, dirtyVars, ghostVars
<1>1. /\ OwnInv /\ DataTypes /\ m \in [Keys -> CounterEntry] /\ claim \in [Goroutines -> Claim]
    BY DEF Core, DataTypes
<1>2. PICK k \in Keys : /\ hand[g] = k /\ hand[g] # NoKey /\ IsHeld(k)
                        /\ \A h \in Goroutines : hand[h] = k => h = g
    BY <1>0, <1>1, HolderIs
<1>3. /\ KeyInv(k) /\ claim[g].shared \in Nat /\ m[k] \in CounterEntry
      /\ m[k].n \in Nat /\ m[k].expires \in Nat /\ m[k].pending \in Nat /\ delta[k] \in Nat
      /\ counted[k] \in Nat /\ acked[k] \in Nat /\ now \in Nat
    BY <1>1, KeyTypes DEF Core
<1>4. /\ m' \in [Keys -> CounterEntry] /\ \A j \in Keys \ {k} : m'[j] = m[j]
      /\ m'[k].expires = m[k].expires /\ m'[k].pending = m[k].pending
      /\ m'[k].n = IF Merges(k, claim[g]) THEN claim[g].shared ELSE m[k].n
    BY <1>0, <1>1, <1>2, <1>3 DEF CounterEntry
<1>5. /\ claim' \in [Goroutines -> Claim] /\ \A h \in Goroutines \ {g} : claim'[h] = claim[h]
    BY <1>0, <1>1 DEF NoClaim, Claim
<1>6. DataTypes'
    BY <1>0, <1>1, <1>4, <1>5 DEF DataTypes
<1>7. OwnInv' /\ pc'[g] = "top" /\ \A h \in Goroutines \ {g} : pc'[h] = pc[h]
    <2>1. PICK p \in PC \ {"off", "loop"} : p = "top"
        BY DEF PC
    <2> QED
        BY <1>0, <1>1, <1>2, <2>1, TurnOwn DEF OwnInv, OwnTypes
<1>8. ((Live(k))' <=> Live(k)) /\ ((IsHeld(k))' <=> IsHeld(k)) /\ ((Cached(k))' <=> Cached(k))
      /\ Windows(k)' = Windows(k) /\ ((StoreLive(k))' <=> StoreLive(k))
    BY <1>0, <1>4 DEF Live, IsHeld, Cached, Windows, StoreLive
<1>9. InFlight(g, k)' = 0 /\ InFlight(g, k) = 0
    BY <1>0, <1>7 DEF InFlight
<1>10. WindowOK(k)'
    BY <1>0, <1>3, <1>4, <1>8 DEF KeyInv, WindowOK
<1>11. ClaimOK(k)'
    BY <1>0, <1>2, <1>7 DEF ClaimOK, Claiming
<1>12. LossOK(k)'
    BY <1>0, <1>2, <1>3, <1>4, <1>8, <1>9 DEF KeyInv, LossOK
<1>13. CountOK(k)'
    <2>1. CASE ~Merges(k, claim[g])
        BY <1>0, <1>3, <1>4, <1>8, <2>1 DEF KeyInv, CountOK
    <2>2. CASE Merges(k, claim[g])
        <3>1. /\ m[k].expires = claim[g].deadline /\ Live(k) /\ claim[g].shared > m[k].n
              /\ Cached(k)
            BY <1>3, <2>2 DEF Merges, Live, Cached
        <3>2. counted[k] = acked[k] + m[k].pending + delta[k] + 0
            BY <1>2, <1>3, <1>9, <3>1 DEF KeyInv, LossOK
        <3>3. m[k].n >= counted[k] /\ (k \notin foreign => m[k].n = counted[k])
            BY <1>3, <3>1 DEF KeyInv, CountOK
        <3>4. k \in foreign
            <4>1. SUFFICES ASSUME k \notin foreign PROVE FALSE
                OBVIOUS
            <4>2. claim[g].shared <= acked[k]
                BY <1>0, <1>2, <1>3, <3>1, <4>1 DEF KeyInv, StoreOK
            <4> QED
                BY <1>3, <3>1, <3>2, <3>3, <4>1, <4>2
        <3> QED
            BY <1>0, <1>3, <1>4, <2>2, <3>1, <3>3, <3>4 DEF CountOK
    <2> QED
        BY <2>1, <2>2
<1>14. (Deleting(k))' <=> Deleting(k)
    BY <1>0, <1>2, <1>7 DEF Deleting
<1>15. StoreOK(k)' /\ ResetOK(k)'
    BY <1>0, <1>2, <1>3, <1>4, <1>7, <1>8, <1>14 DEF KeyInv, StoreOK, ResetOK
<1>16. KeyInv(k)'
    BY <1>10, <1>11, <1>12, <1>13, <1>15 DEF KeyInv
<1>17. \A j \in Keys \ {k} : HeldSame(j) /\ DataSame(j)
    <2>1. \A j \in Keys \ {k} : HeldSame(j)
        BY <1>0, <1>1, <1>2, <1>5, <1>7, NotMine
    <2> QED
        BY <1>0, <1>4, <2>1 DEF DataSame
<1> QED
    BY <1>0, <1>6, <1>7, <1>16, <1>17, OthersOf

\* A failed round: the batch and what came meanwhile are parked again, or a Forget has voided both.
LEMMA PreserveCore ==
    ASSUME Core, NEW g \in Goroutines, PreserveFailedIncr(g)
    PROVE  Core'
<1>0. /\ UNCHANGED <<now, store, flush, counted, acked, opened, reset, foreign, uncleaned>>
      /\ pc[g] = "failed" /\ hand' = [hand EXCEPT ![g] = NoKey]
      /\ claim' = [claim EXCEPT ![g] = NoClaim]
    BY DEF PreserveFailedIncr, ghostVars
<1>1. /\ OwnInv /\ DataTypes /\ m \in [Keys -> CounterEntry] /\ claim \in [Goroutines -> Claim]
      /\ delta \in [Keys -> Nat] /\ deadline \in [Keys -> Nat]
    BY DEF Core, DataTypes
<1>2. PICK k \in Keys : /\ hand[g] = k /\ hand[g] # NoKey /\ IsHeld(k) /\ k \in dirty
                        /\ \A h \in Goroutines : hand[h] = k => h = g
    BY <1>0, <1>1, HolderIs
<1>3. /\ KeyInv(k) /\ claim[g].delta \in Nat /\ m[k] \in CounterEntry
      /\ m[k].n \in Nat /\ m[k].expires \in Nat /\ m[k].pending \in Nat /\ delta[k] \in Nat
      /\ acked[k] \in Nat /\ now \in Nat
    BY <1>1, KeyTypes DEF Core
<1>4. CASE k \in del
    <2>1. ReleaseLocked(g, k) /\ UNCHANGED m
        BY <1>2, <1>4 DEF PreserveFailedIncr
    <2>2. InFlight(g, k) = 0
        BY <1>0, <1>2, <1>3, <1>4 DEF KeyInv, ClaimOK, Claiming, InFlight
    <2> QED
        BY <1>0, <1>2, <2>1, <2>2, ReleaseCore
<1>5. CASE k \notin del
    <2>0. /\ m' = IF Cached(k) THEN [m EXCEPT ![k].pending = @ + Returned(k, claim[g])] ELSE m
          /\ dirty' = dirty \ {k}
          /\ delta' = [delta EXCEPT ![k] = 0] /\ deadline' = [deadline EXCEPT ![k] = 0]
          /\ pc' = [pc EXCEPT ![g] = "loop"] /\ UNCHANGED <<del, queue, workers>>
        BY <1>2, <1>5 DEF PreserveFailedIncr
    <2>1. OwnInv'
        BY <1>0, <1>1, <1>2, <1>5, <2>0, DropOwn
    <2>2. PICK r \in Nat : r = Returned(k, claim[g])
        BY <1>3 DEF Returned
    <2>3. Cached(k) => r = InFlight(g, k) + delta[k]
        <3>1. delta[k] > 0 => deadline[k] = m[k].expires
            BY <1>3 DEF KeyInv, WindowOK
        <3>2. InFlight(g, k) = IF m[k].expires = claim[g].deadline THEN claim[g].delta ELSE 0
            BY <1>0, <1>2 DEF InFlight
        <3> QED
            BY <1>3, <2>2, <3>1, <3>2 DEF Returned
    <2>4. /\ m' \in [Keys -> CounterEntry] /\ \A j \in Keys \ {k} : m'[j] = m[j]
          /\ m'[k].expires = m[k].expires /\ m'[k].n = m[k].n
          /\ m'[k].pending = IF Cached(k) THEN m[k].pending + r ELSE m[k].pending
        <3>1. m' = IF Cached(k) THEN [m EXCEPT ![k].pending = @ + r] ELSE m
            BY <2>0, <2>2
        <3> QED
            BY <1>1, <1>3, <3>1 DEF CounterEntry
    <2>5. /\ claim' \in [Goroutines -> Claim] /\ \A h \in Goroutines \ {g} : claim'[h] = claim[h]
          /\ delta' \in [Keys -> Nat] /\ deadline' \in [Keys -> Nat]
          /\ delta'[k] = 0 /\ deadline'[k] = 0
          /\ \A j \in Keys \ {k} : delta'[j] = delta[j] /\ deadline'[j] = deadline[j]
        BY <1>0, <1>1, <2>0 DEF NoClaim, Claim
    <2>6. DataTypes'
        BY <1>0, <1>1, <2>4, <2>5 DEF DataTypes
    <2>7. ((Live(k))' <=> Live(k)) /\ ((Cached(k))' <=> Cached(k)) /\ Windows(k)' = Windows(k)
          /\ ((StoreLive(k))' <=> StoreLive(k)) /\ (Live(k) => Cached(k))
        BY <1>0, <1>3, <2>4 DEF Live, Cached, Windows, StoreLive
    <2>8. \A h \in Goroutines : hand'[h] # k
        BY <1>0, <1>1, <1>2, KeysAssumption DEF OwnInv, OwnTypes
    <2>9. WindowOK(k)' /\ ClaimOK(k)' /\ CountOK(k)'
        BY <1>0, <1>3, <2>4, <2>5, <2>7, <2>8 DEF KeyInv, WindowOK, ClaimOK, CountOK
    <2>10. LossOK(k)'
        <3>1. Live(k) => counted[k] = acked[k] + m[k].pending + delta[k] + InFlight(g, k)
            BY <1>2, <1>3 DEF KeyInv, LossOK
        <3>2. InFlight(g, k) \in Nat
            BY <1>3 DEF InFlight
        <3>3. Live(k) => counted[k] = acked[k] + m'[k].pending + delta'[k]
            BY <1>3, <2>3, <2>4, <2>5, <2>7, <3>1, <3>2
        <3>4. flush # "ok"
            BY <1>0, <1>1, HolderIs
        <3> QED
            BY <1>0, <2>7, <2>8, <3>3, <3>4 DEF LossOK
    <2>11. ~Deleting(k) /\ ~Deleting(k)'
        BY <1>0, <1>2, <1>5, <2>0, <2>8 DEF Deleting
    <2>12. StoreOK(k)' /\ ResetOK(k)'
        BY <1>0, <1>3, <2>4, <2>7, <2>8, <2>11 DEF KeyInv, StoreOK, ResetOK
    <2>13. KeyInv(k)'
        BY <2>9, <2>10, <2>12 DEF KeyInv
    <2>14. \A j \in Keys \ {k} : HeldSame(j) /\ DataSame(j)
        <3>1. \A h \in Goroutines : hand[h] # NoKey /\ h # g => pc'[h] = pc[h]
            BY <1>1, <2>0 DEF OwnInv, OwnTypes
        <3>2. \A j \in Keys \ {k} : HeldSame(j)
            BY <1>0, <1>1, <1>2, <2>5, <3>1, NotMine
        <3> QED
            BY <1>0, <2>0, <2>4, <2>5, <3>2 DEF DataSame
    <2> QED
        BY <1>0, <2>1, <2>6, <2>13, <2>14, OthersOf
<1> QED
    BY <1>4, <1>5

-----------------------------------------------------------------------------
(* The shutdown flush                                                      *)

\* Goroutines for what is queued, up to the cap.
LEMMA CrewGrows ==
    ASSUME OwnTypes, Crew, NEW G \in SUBSET {g \in Goroutines : pc[g] = "off"},
           NEW q \in Nat, Len(queue') = q, queue' \in Seq(Keys),
           Cardinality(G) = IF (IF q < MaxFlushWorkers THEN q ELSE MaxFlushWorkers) > workers
                            THEN (IF q < MaxFlushWorkers THEN q ELSE MaxFlushWorkers) - workers
                            ELSE 0,
           workers' = workers + Cardinality(G), pc' = Spawned(pc, G)
    PROVE  Crew' /\ workers' \in Nat
<1>1. IsFiniteSet(Running) /\ IsFiniteSet(G) /\ Cardinality(Running) \in Nat
    BY RunningIs, FiniteAssumption, FS_Subset
<1>2. Running' = Running \cup G /\ Running \cap G = {}
    BY DEF Running, Spawned, OwnTypes
<1>3. Cardinality(Running \cup G) = Cardinality(Running) + Cardinality(G) /\ Cardinality(G) \in Nat
    <2>1. PICK R \in SUBSET Goroutines : R = Running
        BY DEF Running
    <2>2. IsFiniteSet(R) /\ R \cap G = {}
        BY <1>1, <1>2, <2>1
    <2>3. Cardinality(R \cup G) = Cardinality(R) + Cardinality(G) - Cardinality(R \cap G)
        BY <1>1, <2>2, FS_Union
    <2>4. Cardinality(R \cap G) = 0
        BY <2>2, FS_EmptySet
    <2>5. Cardinality(R) \in Nat /\ Cardinality(G) \in Nat
        BY <1>1, <2>2, FS_CardinalityType
    <2> QED
        BY <2>1, <2>3, <2>4, <2>5
<1>4. /\ MaxFlushWorkers \in Nat /\ MaxFlushWorkers > 0 /\ workers \in Nat
      /\ workers = Cardinality(Running) /\ workers <= MaxFlushWorkers
    BY BoundsAssumption DEF OwnTypes, Crew
<1>5. workers' = Cardinality(Running')
    BY <1>2, <1>3, <1>4
<1>6. queue' # <<>> => q > 0
    BY EmptySeq, LenProperties
<1> QED
    BY <1>3, <1>4, <1>5, <1>6 DEF Crew

\* Flush promotes the parked deltas of live windows.
LEMMA FlushStartCore ==
    ASSUME Core, FlushStart
    PROVE  Core'
<1>0. /\ UNCHANGED <<now, del, hand, claim, store, counted, acked, opened, reset, foreign, uncleaned>>
      /\ flush = "no" /\ flush' = "waiting" /\ dirty' = dirty \cup Promotable
      /\ delta' = [k \in Keys |-> IF k \in Promotable THEN m[k].pending ELSE delta[k]]
      /\ deadline' = [k \in Keys |-> IF k \in Promotable THEN m[k].expires ELSE deadline[k]]
      /\ m' = [k \in Keys |-> IF k \in Promotable THEN [m[k] EXCEPT !.pending = 0] ELSE m[k]]
    BY DEF FlushStart, ghostVars
<1>1. /\ OwnInv /\ DataTypes /\ m \in [Keys -> CounterEntry] /\ delta \in [Keys -> Nat]
      /\ deadline \in [Keys -> Nat]
    BY DEF Core, DataTypes
<1>2. PICK P \in SUBSET (Keys \ dirty) : P = Promotable
    BY DEF Promotable
<1>3. \A k \in P : m[k].pending > 0 /\ Live(k)
    BY <1>2 DEF Promotable
<1> HIDE DEF Promotable
<1>4. Owners' /\ queue' \in Seq(Keys)
    <2>1. PICK order \in [1 .. Cardinality(P) -> P] :
             /\ \A i, j \in DOMAIN order : i # j => order[i] # order[j]
             /\ queue' = queue \o order
        BY <1>2 DEF FlushStart
    <2> QED
        BY <1>0, <1>1, <1>2, <2>1, Promoted DEF OwnInv
<1>5. PICK q \in Nat : q = Len(queue')
    BY <1>4, LenProperties
<1>6. PICK G \in SUBSET {g \in Goroutines : pc[g] = "off"} :
         /\ Cardinality(G) = IF (IF q < MaxFlushWorkers THEN q ELSE MaxFlushWorkers) > workers
                             THEN (IF q < MaxFlushWorkers THEN q ELSE MaxFlushWorkers) - workers
                             ELSE 0
         /\ workers' = workers + Cardinality(G) /\ pc' = Spawned(pc, G)
    BY <1>5 DEF FlushStart
<1>7. Crew' /\ workers' \in Nat
    BY <1>1, <1>4, <1>5, <1>6, CrewGrows DEF OwnInv
<1>8. /\ pc' \in [Goroutines -> PC]
      /\ \A g \in Goroutines : pc'[g] = pc[g] \/ (pc[g] = "off" /\ pc'[g] = "loop")
    BY <1>1, <1>6 DEF Spawned, PC, OwnInv, OwnTypes
<1>9. OwnTypes' /\ HandInv' /\ (del \subseteq dirty)' /\ Quiet'
    <2>1. OwnTypes'
        BY <1>0, <1>1, <1>2, <1>4, <1>7, <1>8 DEF OwnInv, OwnTypes
    <2>2. HandInv'
        BY <1>0, <1>1, <1>8 DEF OwnInv, HandInv
    <2> QED
        BY <1>0, <1>1, <2>1, <2>2 DEF OwnInv, Quiet
<1>10. OwnInv'
    BY <1>4, <1>7, <1>9 DEF OwnInv
<1>11. \A j \in Keys : HeldSame(j)
    BY <1>0, <1>1, <1>8, KeysAssumption DEF HeldSame, OwnInv, HandInv
<1>12. /\ m' \in [Keys -> CounterEntry] /\ delta' \in [Keys -> Nat] /\ deadline' \in [Keys -> Nat]
       /\ \A k \in P : /\ m'[k].n = m[k].n /\ m'[k].expires = m[k].expires /\ m'[k].pending = 0
                        /\ delta'[k] = m[k].pending /\ deadline'[k] = m[k].expires
       /\ \A k \in Keys \ P : /\ m'[k] = m[k] /\ delta'[k] = delta[k]
                               /\ deadline'[k] = deadline[k]
    <2>1. \A k \in Keys : m[k] \in CounterEntry /\ m[k].pending \in Nat /\ m[k].expires \in Nat
        BY <1>1, KeyTypes
    <2>2. /\ \A k \in Keys : m'[k] = IF k \in P THEN [m[k] EXCEPT !.pending = 0] ELSE m[k]
          /\ m' \in [Keys -> CounterEntry]
        BY <1>0, <1>2, <2>1 DEF CounterEntry
    <2>3. \A k \in P : m'[k].n = m[k].n /\ m'[k].expires = m[k].expires /\ m'[k].pending = 0
        BY <2>1, <2>2 DEF CounterEntry
    <2>4. /\ delta' \in [Keys -> Nat] /\ deadline' \in [Keys -> Nat]
          /\ \A k \in P : delta'[k] = m[k].pending /\ deadline'[k] = m[k].expires
          /\ \A k \in Keys \ P : delta'[k] = delta[k] /\ deadline'[k] = deadline[k]
        BY <1>0, <1>1, <1>2, <2>1
    <2> QED
        BY <2>2, <2>3, <2>4
<1>13. DataTypes'
    BY <1>0, <1>1, <1>12 DEF DataTypes
<1>14. ASSUME NEW k \in P
       PROVE  KeyInv(k)'
    <2>0. /\ KeyInv(k) /\ k \in Keys /\ k \notin dirty /\ k \in dirty' /\ acked[k] \in Nat
          /\ m[k].pending \in Nat /\ m[k].expires \in Nat /\ now \in Nat
        BY <1>0, <1>1, <1>2, KeyTypes DEF Core
    <2>1. ~IsHeld(k) /\ delta[k] = 0 /\ k \notin del /\ ~Deleting(k)
        BY <1>1, <2>0, CleanIs
    <2>2. \A g \in Goroutines : hand'[g] # k
        BY <1>0, <2>1 DEF IsHeld
    <2>3. m[k].expires > 0 /\ m[k].expires \in Windows(k) /\ Windows(k)' = Windows(k)
        BY <1>0, <1>3, <2>0 DEF Live, KeyInv, WindowOK, Windows
    <2>4. WindowOK(k)' /\ ClaimOK(k)' /\ CountOK(k)'
        BY <1>0, <1>12, <2>0, <2>2, <2>3 DEF KeyInv, WindowOK, ClaimOK, CountOK, Cached
    <2>5. LossOK(k)'
        <3>1. counted[k] = acked[k] + m[k].pending + 0
            BY <1>3, <2>0, <2>1 DEF KeyInv, LossOK
        <3> QED
            BY <1>0, <1>12, <2>0, <2>2, <3>1 DEF LossOK
    <2>6. ~Deleting(k)' /\ ((StoreLive(k))' <=> StoreLive(k))
        BY <1>0, <2>1, <2>2 DEF Deleting, StoreLive
    <2>7. StoreOK(k)' /\ ResetOK(k)'
        BY <1>0, <1>12, <2>0, <2>1, <2>2, <2>6 DEF KeyInv, StoreOK, ResetOK, Cached
    <2> QED
        BY <2>4, <2>5, <2>7 DEF KeyInv
<1>15. \A j \in Keys \ P : DataSame(j)
    BY <1>0, <1>2, <1>12 DEF DataSame
<1>16. PICK S \in SUBSET Keys : S = P
    OBVIOUS
<1> QED
    BY <1>0, <1>10, <1>11, <1>13, <1>14, <1>15, <1>16, Others

\* Flush ends; it reports success only with nothing live parked.
LEMMA FlushEndCore ==
    ASSUME Core, FlushIdle \/ FlushCtx \/ FlushReport
    PROVE  Core'
<1>0. /\ UNCHANGED <<now, m, dirty, delta, deadline, del, queue, workers, pc, hand, claim, store,
                     counted, acked, opened, reset, foreign, uncleaned>>
      /\ flush' \in {"counting", "ctx", "left", "ok"}
      /\ flush' # "ctx" => (queue = <<>> /\ workers = 0) \/ flush = "counting"
      /\ flush' = "ok" => \A k \in Keys : ~(m[k].pending > 0 /\ Live(k))
    BY DEF FlushIdle, FlushCtx, FlushReport, cacheVars, dirtyVars, drainVars, ghostVars
<1>1. OwnInv /\ DataTypes /\ DataTypes'
    BY <1>0 DEF Core, DataTypes
<1>2. OwnInv'
    BY <1>0, <1>1, StillOwn DEF OwnInv, Quiet
<1>3. ASSUME NEW k \in Keys
      PROVE  KeyInv(k)'
    <2>0. KeyInv(k) /\ m[k].pending \in Nat
        BY <1>1, KeyTypes DEF Core
    <2>1. WindowOK(k)' /\ ClaimOK(k)' /\ CountOK(k)'
        BY <1>0, <2>0 DEF KeyInv, WindowOK, ClaimOK, CountOK, Windows, Cached
    <2>2. LossOK(k)'
        <3>1. \A g \in Goroutines : InFlight(g, k)' = InFlight(g, k)
            BY <1>0 DEF InFlight
        <3>2. ((IsHeld(k))' <=> IsHeld(k)) /\ ((Live(k))' <=> Live(k))
            BY <1>0 DEF IsHeld, Live
        <3> QED
            BY <1>0, <2>0, <3>1, <3>2 DEF KeyInv, LossOK
    <2>3. StoreOK(k)' /\ ResetOK(k)'
        BY <1>0, <2>0 DEF KeyInv, StoreOK, ResetOK, Deleting, StoreLive, Cached
    <2> QED
        BY <2>1, <2>2, <2>3 DEF KeyInv
<1> QED
    BY <1>1, <1>2, <1>3 DEF Core

\* Stuttering.
LEMMA StillCore ==
    ASSUME Core, UNCHANGED vars
    PROVE  Core'
<1>0. UNCHANGED <<now, m, dirty, delta, deadline, del, queue, workers, pc, hand, claim, store, flush,
                  counted, acked, opened, reset, foreign, uncleaned>>
    BY DEF vars
<1>1. OwnInv /\ DataTypes /\ DataTypes'
    BY <1>0 DEF Core, DataTypes
<1>2. OwnInv'
    BY <1>0, <1>1, StillOwn DEF OwnInv, OwnTypes
<1>3. \A j \in Keys : HeldSame(j) /\ DataSame(j)
    BY <1>0 DEF HeldSame, DataSame
<1>4. \A j \in Keys : KeyInv(j)'
    BY <1>0, <1>3, Frame DEF Core
<1> QED
    BY <1>1, <1>2, <1>4 DEF Core

\* The empty cache.
LEMMA InitCore ==
    ASSUME Init
    PROVE  Core
<1>1. OwnTypes /\ HandInv
    BY DEF Init, OwnTypes, HandInv, PC
<1>2. \A g \in Goroutines : hand[g] = NoKey
    BY DEF Init
<1>3. Owners /\ del \subseteq dirty
    BY <1>2, KeysAssumption DEF Init, Owners, IsHeld, IsQueued
<1>4. Running = {}
    BY DEF Init, Running
<1>5. Crew /\ Quiet
    BY <1>4, BoundsAssumption, FS_EmptySet DEF Init, Crew, Quiet
<1>6. DataTypes
    BY DEF Init, DataTypes, NoEntry, NoClaim, NoCell, CounterEntry, Cell, Claim
<1>7. ASSUME NEW k \in Keys
      PROVE  KeyInv(k)
    <2>1. m[k].expires = 0 /\ delta[k] = 0 /\ deadline[k] = 0 /\ now = 0 /\ store[k].n = 0
          /\ reset = {} /\ uncleaned = {}
        BY DEF Init, NoEntry, NoCell
    <2>2. \A g \in Goroutines : hand[g] # k
        BY <1>2, KeysAssumption
    <2> QED
        BY <2>1, <2>2 DEF KeyInv, WindowOK, ClaimOK, LossOK, CountOK, StoreOK, ResetOK, Live,
                          Cached, StoreLive
<1> QED
    BY <1>1, <1>3, <1>5, <1>6, <1>7 DEF Core, OwnInv

\* Every step keeps it.
LEMMA NextCore ==
    ASSUME Core, [Next]_vars
    PROVE  Core'
<1>1. ASSUME NEW k \in Keys, NEW t \in 0 .. now, Incr(k, t)
      PROVE  Core'
    BY <1>1, IncrInRoom, IncrAfterSweep, IncrToSketch DEF Incr
<1>2. ASSUME NEW k \in ForgetKeys, Forget(k) \/ ForgetSyncStart(k) \/ ForgetSyncStore(k)
      PROVE  Core'
    <2>1. k \in Keys
        BY KeysAssumption
    <2> QED
        BY <1>2, <2>1, ForgetCore, ForgetSyncCore DEF Forget, ForgetSyncStart
<1>3. ASSUME NEW k \in PeerKeys, PeerPush(k)
      PROVE  Core'
    <2>1. k \in Keys
        BY KeysAssumption
    <2> QED
        BY <1>3, <2>1, PeerCore
<1>4. ASSUME NEW g \in Goroutines, Drain(g)
      PROVE  Core'
    BY <1>4, LoopCore, FlushKeyCore, FlushDeleteCore, ReleasedCore, FlushIncrCore, MergeCore,
       PreserveCore DEF Drain
<1> QED
    BY <1>1, <1>2, <1>3, <1>4, FlushStartCore, FlushEndCore, TickCore, StillCore DEF Next

-----------------------------------------------------------------------------
(* The overload sketch and the remaining variables                         *)

\* Each row's cell of a key holds what a cell of its own would, until that one lapses.
SketchInv ==
    /\ sketch \in [Rows -> [Cells -> Cell]] /\ shed \in [Keys -> Cell]
    /\ \A k \in Keys, r \in Rows : ~Lapsed(shed[k], now) =>
          /\ sketch[r][Hash[r][k]].n >= shed[k].n
          /\ sketch[r][Hash[r][k]].expires >= shed[k].expires

RestTypes == /\ now \in 0 .. MaxTime /\ nextSweep \in Nat /\ syncing \in SUBSET Keys
             /\ ops \in 0 .. MaxOps

\* One more event in a cell: it is there now, and what was live in it stays.
LEMMA BumpIs ==
    ASSUME NEW c \in Cell, NEW t \in Nat
    PROVE  /\ BumpCell(c, t) \in Cell
           /\ BumpCell(c, t).n >= 1 /\ BumpCell(c, t).expires >= t + TTL
           /\ ~Lapsed(c, t) => /\ BumpCell(c, t).n = c.n + 1
                               /\ BumpCell(c, t).expires >= c.expires
<1>1. c.n \in Nat /\ c.expires \in Nat /\ TTL \in Nat
    BY TimeAssumption DEF Cell
<1>2. Max2(c.expires, t + TTL) \in Nat /\ Max2(c.expires, t + TTL) >= c.expires
      /\ Max2(c.expires, t + TTL) >= t + TTL
    BY <1>1 DEF Max2
<1> HIDE DEF Max2
<1>3. CASE Lapsed(c, t)
    <2>1. BumpCell(c, t) = [n |-> 1, expires |-> t + TTL]
        BY <1>3 DEF BumpCell
    <2> QED
        BY <1>1, <1>3, <2>1 DEF Cell
<1>4. CASE ~Lapsed(c, t)
    <2>1. BumpCell(c, t) = [n |-> c.n + 1, expires |-> Max2(c.expires, t + TTL)]
        BY <1>4 DEF BumpCell
    <2> QED
        BY <1>1, <1>2, <1>4, <2>1 DEF Cell
<1> QED
    BY <1>3, <1>4

\* Counting a key in the sketch.
LEMMA SketchBumped ==
    ASSUME SketchInv, DataTypes, NEW k \in Keys, NEW t \in 0 .. now, now' = now,
           sketch' = BumpSketch(k, t),
           shed' = [shed EXCEPT ![k] = IF Lapsed(@, now)
                                       THEN [n |-> 1, expires |-> t + TTL]
                                       ELSE [n |-> @.n + 1, expires |-> Max2(@.expires, t + TTL)]]
    PROVE  SketchInv'
<1>0. /\ now \in Nat /\ t \in Nat /\ t <= now /\ TTL \in Nat /\ Hash \in [Rows -> [Keys -> Cells]]
      /\ \A r \in Rows, j \in Keys : Hash[r][j] \in Cells
    BY TimeAssumption, SketchAssumption DEF DataTypes
<1>1. /\ sketch \in [Rows -> [Cells -> Cell]] /\ shed \in [Keys -> Cell]
      /\ \A r \in Rows, c \in Cells : sketch[r][c] \in Cell
    BY DEF SketchInv
<1>2. \A r \in Rows : sketch'[r] = [sketch[r] EXCEPT ![Hash[r][k]] = BumpCell(sketch[r][Hash[r][k]], t)]
    BY <1>0, <1>1 DEF BumpSketch
<1>3. \A r \in Rows : /\ sketch'[r] \in [Cells -> Cell]
                      /\ sketch'[r][Hash[r][k]] = BumpCell(sketch[r][Hash[r][k]], t)
                      /\ \A c \in Cells : c # Hash[r][k] => sketch'[r][c] = sketch[r][c]
    <2>1. SUFFICES ASSUME NEW r \in Rows
                   PROVE  /\ sketch'[r] \in [Cells -> Cell]
                          /\ sketch'[r][Hash[r][k]] = BumpCell(sketch[r][Hash[r][k]], t)
                          /\ \A c \in Cells : c # Hash[r][k] => sketch'[r][c] = sketch[r][c]
        OBVIOUS
    <2>2. PICK x \in Cell : x = sketch[r][Hash[r][k]]
        BY <1>0, <1>1
    <2>3. PICK y \in Cell : y = BumpCell(x, t)
        BY <1>0, BumpIs
    <2>4. PICK row \in [Cells -> Cell] : row = sketch[r]
        BY <1>1
    <2>5. PICK h \in Cells : h = Hash[r][k]
        BY <1>0
    <2>6. sketch'[r] = [row EXCEPT ![h] = y]
        BY <1>2, <2>2, <2>3, <2>4, <2>5
    <2> QED
        BY <2>2, <2>3, <2>4, <2>5, <2>6
<1>4. sketch' \in [Rows -> [Cells -> Cell]]
    <2>1. sketch' = [r \in Rows |-> sketch'[r]]
        BY DEF BumpSketch
    <2> QED
        BY <1>3, <2>1
<1>5. shed[k] \in Cell /\ shed[k].n \in Nat /\ shed[k].expires \in Nat
    BY <1>1 DEF Cell
<1>6. PICK z \in Cell : /\ shed' = [shed EXCEPT ![k] = z]
                        /\ Lapsed(shed[k], now) => z.n = 1 /\ z.expires = t + TTL
                        /\ ~Lapsed(shed[k], now) =>
                              z.n = shed[k].n + 1 /\ z.expires = Max2(shed[k].expires, t + TTL)
    <2>1. CASE Lapsed(shed[k], now)
        <3>1. [n |-> 1, expires |-> t + TTL] \in Cell
            BY <1>0 DEF Cell
        <3> QED
            BY <1>1, <2>1, <3>1
    <2>2. CASE ~Lapsed(shed[k], now)
        <3>1. [n |-> shed[k].n + 1, expires |-> Max2(shed[k].expires, t + TTL)] \in Cell
            BY <1>0, <1>5 DEF Cell, Max2
        <3> QED
            BY <1>1, <2>2, <3>1
    <2> QED
        BY <2>1, <2>2
<1>7. shed' \in [Keys -> Cell] /\ shed'[k] = z /\ \A j \in Keys \ {k} : shed'[j] = shed[j]
    BY <1>1, <1>6
<1>8. ASSUME NEW j \in Keys, NEW r \in Rows, ~Lapsed(shed'[j], now)
      PROVE  /\ sketch'[r][Hash[r][j]].n >= shed'[j].n
             /\ sketch'[r][Hash[r][j]].expires >= shed'[j].expires
    <2>0. PICK x \in Cell : x = sketch[r][Hash[r][j]]
        BY <1>0, <1>1
    <2>1. PICK w \in Cell : w = shed[j]
        BY <1>1
    <2>2. x.n \in Nat /\ x.expires \in Nat /\ w.n \in Nat /\ w.expires \in Nat
        BY DEF Cell
    <2>3. ~Lapsed(w, now) => x.n >= w.n /\ x.expires >= w.expires /\ ~Lapsed(x, t)
        <3>1. ~Lapsed(w, now) => x.n >= w.n /\ x.expires >= w.expires
            BY <2>0, <2>1 DEF SketchInv
        <3> QED
            BY <1>0, <2>2, <3>1 DEF Lapsed
    <2>4. /\ BumpCell(x, t).n \in Nat /\ BumpCell(x, t).expires \in Nat
          /\ BumpCell(x, t).n >= 1 /\ BumpCell(x, t).expires >= t + TTL
          /\ ~Lapsed(x, t) => /\ BumpCell(x, t).n = x.n + 1
                              /\ BumpCell(x, t).expires >= x.expires
        BY <1>0, BumpIs DEF Cell
    <2>5. sketch'[r][Hash[r][j]] = x \/ sketch'[r][Hash[r][j]] = BumpCell(x, t)
        BY <1>0, <1>3, <2>0
    <2> HIDE DEF BumpCell
    <2>6. CASE j # k
        <3>1. shed'[j] = w
            BY <1>7, <2>1, <2>6
        <3>2. ~Lapsed(w, now)
            BY <1>8, <3>1
        <3>3. BumpCell(x, t).n >= w.n /\ BumpCell(x, t).expires >= w.expires
            BY <2>2, <2>3, <2>4, <3>2
        <3> QED
            BY <2>3, <2>5, <3>1, <3>2, <3>3
    <2>7. CASE j = k
        <3>1. sketch'[r][Hash[r][j]] = BumpCell(x, t) /\ shed'[j] = z
            BY <1>3, <1>7, <2>0, <2>7
        <3>2. CASE Lapsed(w, now)
            BY <1>0, <1>6, <2>1, <2>4, <2>7, <3>1, <3>2
        <3>3. CASE ~Lapsed(w, now)
            <4>1. z.n = w.n + 1 /\ z.expires = Max2(w.expires, t + TTL)
                BY <1>6, <2>1, <2>7, <3>3
            <4>2. Max2(w.expires, t + TTL) = w.expires \/ Max2(w.expires, t + TTL) = t + TTL
                BY DEF Max2
            <4>3. BumpCell(x, t).n >= z.n
                BY <2>2, <2>3, <2>4, <3>3, <4>1
            <4>4. BumpCell(x, t).expires >= w.expires
                BY <2>2, <2>3, <2>4, <3>3
            <4>5. BumpCell(x, t).expires >= z.expires
                BY <2>4, <4>1, <4>2, <4>4
            <4> QED
                BY <3>1, <4>3, <4>5
        <3> QED
            BY <3>2, <3>3
    <2> QED
        BY <2>6, <2>7
<1> QED
    BY <1>4, <1>7, <1>8 DEF SketchInv

\* Only IncrSheds writes the sketch, and time only lapses cells.
LEMMA NextSketch ==
    ASSUME DataTypes, SketchInv, RestTypes, [Next]_vars
    PROVE  SketchInv' /\ RestTypes'
<1>0. /\ TTL \in Nat /\ SweepGap \in Nat /\ MaxTime \in Nat /\ MaxOps \in Nat /\ now \in Nat
      /\ shed \in [Keys -> Cell] /\ ops \in Nat
    BY TimeAssumption DEF DataTypes, SketchInv, RestTypes
<1>1. ASSUME UNCHANGED <<now, sketch, shed>>
      PROVE  SketchInv'
    BY <1>1 DEF SketchInv
<1>2. ASSUME UNCHANGED now, ops' = ops \/ (ops < MaxOps /\ ops' = ops + 1),
             nextSweep' = nextSweep \/ nextSweep' = now + SweepGap, syncing' \in SUBSET Keys
      PROVE  RestTypes'
    BY <1>0, <1>2 DEF RestTypes
<1>3. ASSUME NEW k \in Keys, NEW t \in 0 .. now, Incr(k, t)
      PROVE  SketchInv' /\ RestTypes'
    <2>1. CASE IncrSheds(k, t)
        <3>1. SketchInv'
            BY <1>3, <2>1, SketchBumped DEF Incr, IncrSheds
        <3>2. RestTypes'
            BY <1>2, <1>3, <2>1 DEF Incr, IncrSheds, RestTypes
        <3> QED
            BY <3>1, <3>2
    <2>2. CASE IncrLive(k, t) \/ IncrOpens(k, t) \/ IncrSweeps(k, t)
        <3>1. UNCHANGED <<now, sketch, shed>>
            BY <1>3, <2>2 DEF Incr, IncrLive, IncrOpens, IncrSweeps, OpenWindow
        <3>2. RestTypes'
            BY <1>2, <1>3, <2>2 DEF Incr, IncrLive, IncrOpens, IncrSweeps, RestTypes
        <3> QED
            BY <1>1, <3>1, <3>2
    <2> QED
        BY <1>3, <2>1, <2>2 DEF Incr
<1>4. ASSUME NEW k \in Keys, Forget(k) \/ ForgetSyncStart(k) \/ ForgetSyncStore(k) \/ PeerPush(k)
      PROVE  SketchInv' /\ RestTypes'
    <2>1. UNCHANGED <<now, sketch, shed, nextSweep>>
        BY <1>4 DEF Forget, ForgetSyncStart, ForgetSyncStore, PeerPush, ForgetLocal, ghostVars,
                    cacheVars
    <2>2. (ops' = ops \/ (ops < MaxOps /\ ops' = ops + 1)) /\ syncing' \in SUBSET Keys
        BY <1>4 DEF Forget, ForgetSyncStart, ForgetSyncStore, PeerPush, ForgetLocal, RestTypes
    <2> QED
        BY <1>1, <1>2, <2>1, <2>2
<1>5. ASSUME (\E g \in Goroutines : Drain(g)) \/ FlushStart \/ FlushIdle \/ FlushCtx
             \/ FlushReport \/ UNCHANGED vars
      PROVE  UNCHANGED <<now, sketch, shed, nextSweep, ops, syncing>>
    <2>1. ASSUME NEW g \in Goroutines, Drain(g)
          PROVE  UNCHANGED <<now, sketch, shed, nextSweep, ops, syncing>>
        BY <2>1 DEF Drain, DrainExit, DrainTake, FlushKey, FlushDelete, Release, FlushIncr,
                    FlushMerge, PreserveFailedIncr, cacheVars, ghostVars
    <2>2. ASSUME FlushStart \/ FlushIdle \/ FlushCtx \/ FlushReport \/ UNCHANGED vars
          PROVE  UNCHANGED <<now, sketch, shed, nextSweep, ops, syncing>>
        BY <2>2 DEF FlushStart, FlushIdle, FlushCtx, FlushReport, vars, cacheVars, ghostVars
    <2> QED
        BY <1>5, <2>1, <2>2
<1>6. ASSUME UNCHANGED <<now, sketch, shed, nextSweep, ops, syncing>>
      PROVE  SketchInv' /\ RestTypes'
    BY <1>1, <1>2, <1>6 DEF RestTypes
<1>7. ASSUME Tick
      PROVE  SketchInv' /\ RestTypes'
    <2>1. now < MaxTime /\ now' = now + 1 /\ UNCHANGED <<sketch, shed, nextSweep, ops, syncing>>
        BY <1>7 DEF Tick, cacheVars, ghostVars
    <2>2. RestTypes'
        BY <1>0, <2>1 DEF RestTypes
    <2>3. \A k \in Keys : Lapsed(shed[k], now) => Lapsed(shed[k], now')
        <3>1. \A k \in Keys : shed[k].n \in Nat /\ shed[k].expires \in Nat
            BY <1>0 DEF Cell
        <3> QED
            BY <1>0, <2>1, <3>1 DEF Lapsed
    <2>4. SketchInv'
        BY <2>1, <2>3 DEF SketchInv
    <2> QED
        BY <2>2, <2>4
<1> QED
    BY <1>3, <1>4, <1>5, <1>6, <1>7, KeysAssumption DEF Next

-----------------------------------------------------------------------------
(* The theorems                                                            *)

Inv == Core /\ SketchInv /\ RestTypes

\* The inductive invariant holds throughout.
LEMMA Invariance == Spec => []Inv
<1>1. ASSUME Init PROVE Inv
    <2>1. SketchInv
        BY <1>1 DEF Init, SketchInv, Lapsed, NoCell, Cell
    <2>2. RestTypes
        BY <1>1, TimeAssumption DEF Init, RestTypes
    <2> QED
        BY <1>1, <2>1, <2>2, InitCore DEF Inv
<1>2. ASSUME Inv, [Next]_vars PROVE Inv'
    BY <1>2, NextCore, NextSketch DEF Inv, Core
<1> QED
    BY <1>1, <1>2, PTL DEF Spec

\* Every variable keeps its type.
THEOREM TypeCorrect == Spec => []TypeOK
<1>1. ASSUME Inv PROVE TypeOK
    BY <1>1 DEF Inv, Core, OwnInv, OwnTypes, DataTypes, SketchInv, RestTypes, TypeOK
<1> QED
    BY <1>1, Invariance, PTL

\* Per-key singleflight: a dirty key is queued once or held by one drain goroutine, and c.workers
\* counts those goroutines, within the cap.
THEOREM DirtyKeysHaveOneOwner == Spec => []SingleOwner
<1>1. ASSUME Inv PROVE SingleOwner
    BY <1>1, OwnIs DEF Inv, Core
<1> QED
    BY <1>1, Invariance, PTL

\* An event counted in a live window is acknowledged, parked, queued or in flight, once, and a
\* Flush that reports success left none behind.
THEOREM NoCountIsLost == Spec => []Lossless
<1>1. ASSUME Inv PROVE Lossless
    <2>0. OwnInv /\ DataTypes
        BY <1>1 DEF Inv, Core
    <2>1. SUFFICES ASSUME NEW k \in Keys, Live(k)
                   PROVE  /\ flush = "ok" => counted[k] = acked[k]
                          /\ \/ \E g \in Goroutines :
                                   /\ Owns(g, k)
                                   /\ counted[k] = acked[k] + m[k].pending + Queued(k) + InFlight(g, k)
                             \/ /\ \A g \in Goroutines : ~Owns(g, k)
                                /\ counted[k] = acked[k] + m[k].pending + Queued(k)
        BY DEF Lossless
    <2>2. /\ KeyInv(k) /\ delta[k] \in Nat /\ acked[k] \in Nat /\ m[k].pending \in Nat
        BY <1>1, <2>0, KeyTypes DEF Inv, Core
    <2>3. Queued(k) = delta[k]
        BY <2>2 DEF Queued, KeyInv, WindowOK
    <2>4. \A g \in Goroutines : Owns(g, k) <=> hand[g] = k
        BY <2>0, OwnIs
    <2>5. flush = "ok" => ~IsHeld(k) /\ delta[k] = 0
        <3>1. SUFFICES ASSUME flush = "ok"
                       PROVE  ~IsHeld(k) /\ delta[k] = 0
            OBVIOUS
        <3>2. queue = <<>> /\ workers = 0
            BY <2>0, <3>1 DEF OwnInv, Quiet
        <3>3. \A g \in Goroutines : pc[g] = "off"
            BY <2>0, <3>1, Busy
        <3>4. ~IsHeld(k)
            BY <2>0, <3>3, KeysAssumption DEF IsHeld, OwnInv, HandInv
        <3>5. ~IsQueued(k)
            BY <3>2 DEF IsQueued
        <3>6. k \notin dirty
            BY <2>0, <3>4, <3>5 DEF OwnInv, Owners
        <3> QED
            BY <2>0, <2>2, <3>4, <3>6, CleanIs
    <2>6. flush = "ok" => counted[k] = acked[k]
        BY <2>1, <2>2, <2>5 DEF KeyInv, LossOK
    <2>7. CASE IsHeld(k)
        BY <2>1, <2>2, <2>3, <2>4, <2>6, <2>7 DEF IsHeld, KeyInv, LossOK
    <2>8. CASE ~IsHeld(k)
        BY <2>1, <2>2, <2>3, <2>4, <2>6, <2>8 DEF IsHeld, KeyInv, LossOK
    <2> QED
        BY <2>7, <2>8
<1> QED
    BY <1>1, Invariance, PTL

\* A request is never answered less than was counted in its window, and the exact count where no
\* one else wrote to the record; a key shed to the sketch is never answered less than its own.
THEOREM AnswersCoverTheWindow == Spec => []NeverUndercounts
<1>1. ASSUME Inv PROVE NeverUndercounts
    BY <1>1 DEF Inv, Core, KeyInv, CountOK, SketchInv, NeverUndercounts
<1> QED
    BY <1>1, Invariance, PTL

\* A reset that ForgetSync reported sticks, whatever push was in flight when it ran: the local
\* entry never comes back, the store's record only if the drainer's delete behind it failed.
THEOREM ResetsStick == Spec => []ResetSticks
<1>1. ASSUME Inv PROVE ResetSticks
    <2>1. ASSUME NEW k \in reset \ dirty
          PROVE  ~Cached(k) /\ (StoreLive(k) => k \in uncleaned)
        <3>0. OwnInv /\ DataTypes /\ k \in Keys /\ k \notin dirty
            BY <1>1, <2>1 DEF Inv, Core, DataTypes
        <3>1. KeyInv(k)
            BY <1>1, <3>0 DEF Inv, Core
        <3>2. ~Deleting(k)
            BY <3>0, <3>1, CleanIs
        <3> QED
            BY <2>1, <3>1, <3>2 DEF KeyInv, ResetOK
    <2> QED
        BY <2>1 DEF ResetSticks
<1> QED
    BY <1>1, Invariance, PTL
=============================================================================

------------------------------- MODULE Redis -------------------------------
(***************************************************************************)
(* The Redis/Valkey backend (core/store/redis.go), the one a fleet of      *)
(* replicas shares.  Each mutation is a Lua script the server runs in one  *)
(* step; what is not one step is everything around the scripts:            *)
(*   - the network: a command or its reply may be lost or late, and the    *)
(*     client retries once (MaxRetries: 1), so a script may run twice and  *)
(*     may run after its caller has given up;                              *)
(*   - the scan of active blocks, which reads an expiry-ordered index page *)
(*     by page with other replicas writing in between, and heals it;       *)
(*   - expiry, which removes a key without touching the index over it;     *)
(*   - fleet posture votes, members of two sorted sets that each expire    *)
(*     as a whole.                                                         *)
(*                                                                         *)
(* The server (scripts run alone, on one clock reading; a key is gone once *)
(* the clock is past its deadline, and a remaining TTL of zero is possible *)
(* before that; sorted sets are ordered by score and then by member) is    *)
(* external.  Time is in server milliseconds, callers' deadlines in        *)
(* units of which a millisecond has Nanos.                                 *)
(***************************************************************************)
EXTENDS Integers, Sequences, FiniteSets

CONSTANTS Calls,        \* the calls the replicas' goroutines may make
          BlockKeys,    \* the block: keys, in key order
          Seed,         \* the string keys at start, their blocks indexed
          Poked,        \* keys something other than Guardian may delete
          Insts, VoteTTLs,  \* fleet instances and the TTLs of their votes
          Limits,       \* limits a scan may be asked for, 0 for none
          DefaultBase, DefaultCap, Nanos, PageSize, MaxRetries,
          CallBudget,   \* how long a call, its retry included, can last
          MaxNow, MaxCalls, MaxScans, MaxPokes, MaxTimeouts   \* bounds; a vote is a call

VARIABLES now,
          kv,      \* the string keys: [val, dl], dl = 0 without expiry
          index,   \* the active-block index: key |-> score
          gen,     \* the index generation
          wire,    \* commands on their way to the server
          client,  \* client[i]: what the goroutine that made call i waits for
          calls,   \* calls made so far; the number of a call is its token
          scan,    \* the scan of active blocks
          zset,    \* zset[level]: the votes, instance |-> deadline
          zexp,    \* zexp[level]: when the whole sorted set expires
          votes,   \* calls made for votes so far
          posts,   \* their commands on the way to the server
          asking,  \* asking[i]: the attempt instance i waits for, or Idle
          pokes, scans, timeouts,
          ran,     \* history: how often each call's commit took effect
          mine,    \* history: the vote of each instance the server last ran
          wish,    \* history: the level of each instance's last call, 0 to withdraw
          doubt,   \* history: that call failed, or was made with an earlier one's
                   \* command on its way
          slack    \* history: read deadlines later than the stored one

serverVars == <<kv, index, gen>>
askVars    == <<votes, posts, asking, wish, doubt>>
voteVars   == <<zset, zexp, mine, askVars>>
vars == <<now, serverVars, wire, client, calls, scan, voteVars, pokes, scans, timeouts, ran, slack>>

Nil     == 0
Entry(v, d) == [val |-> v, dl |-> d]
None    == Entry(Nil, -1)
Forever == 1000                       \* the index score of a permanent block
Idle    == [stage |-> "idle"]
Blocks  == {BlockKeys[i] : i \in 1..Len(BlockKeys)}
Keys    == {"hold", "gen", "ctr", "win"} \cup Blocks
Empty   == <<>>

\* f with v under k.
Put(f, k, v) == [j \in DOMAIN f \cup {k} |-> IF j = k THEN v ELSE f[j]]

\* The calls are the ones Guardian makes: commits are about a block, a counter is
\* not one, and a window has a deadline (countercache.go:729).
ASSUME RedisAssumption ==
    /\ BlockKeys \in Seq(STRING) /\ Blocks \cap {"hold", "gen", "ctr", "win"} = {}
    /\ \A c \in Calls :
         /\ c.key \in Keys
         /\ c.op \in {"Set", "Delete", "CompareAndSwap", "CompareAndDelete", "IncrByDeadline",
                       "CommitBlock", "CommitEvent", "CommitUnblock", "GetWithExpiry"}
         /\ c.op \in {"Set", "CompareAndSwap"} =>
                c.ttl \in Int /\ (c.key = "win" => c.ttl > 0)
         /\ c.op = "IncrByDeadline" =>
                /\ c.key \notin Blocks /\ c.delta \in Nat /\ c.deadline \in Int
                /\ c.key = "win" => c.deadline # 0
         /\ c.op = "CommitBlock" =>
                c.key \in Blocks /\ c.base \in Int /\ c.cap \in Int /\ c.ttl \in Int
         /\ c.op = "CommitEvent" => c.ttl \in Int
         /\ c.op = "CommitUnblock" => c.key \in Blocks /\ c.ttl \in Int /\ c.genTTL \in Int
    /\ Seed \in [Keys -> [val : Nat, dl : Int]] /\ Seed["win"].dl # 0
    /\ Poked \subseteq Keys
    /\ VoteTTLs \subseteq Nat \ {0} /\ Limits \subseteq Nat
    /\ DefaultBase \in Nat \ {0} /\ DefaultCap \in Nat \ {0}
    /\ Nanos \in Nat \ {0} /\ PageSize \in Nat \ {0}
    /\ MaxRetries \in Nat /\ CallBudget \in Nat
    /\ MaxNow \in Nat /\ MaxNow < Forever
    /\ MaxCalls \in Nat /\ MaxScans \in Nat /\ MaxPokes \in Nat /\ MaxTimeouts \in Nat

\* EXISTS, GET and PTTL of a key.
Exists(e) == e # None /\ (e.dl = 0 \/ now <= e.dl)
GET(k)    == IF Exists(kv[k]) THEN kv[k] ELSE None
PTTL(e)   == IF e.dl = 0 THEN -1 ELSE e.dl - now

\* A relative TTL as the scripts get it: 0 is none, and a positive TTL below
\* one millisecond is not none.
pexpireArg(ttl) ==
    IF ttl <= 0 THEN 0 ELSE IF ttl \div Nanos > 0 THEN ttl \div Nanos ELSE 1

\* Mutant: a deadline rounded down.
deadlineMillisDown(d) == IF d = 0 THEN 0 ELSE IF d < 0 THEN -1 ELSE d \div Nanos

\* An absolute deadline, rounded up; exactly 0 is none, negative is passed.
deadlineMillis(d) ==
    IF d = 0 THEN 0 ELSE IF d < 0 THEN -1 ELSE (d + Nanos - 1) \div Nanos

SetPX(v, ttl) == Entry(v, IF ttl > 0 THEN now + ttl ELSE 0)

\* The index score of a block.
Score(e) == IF e.dl = 0 THEN Forever ELSE e.dl

----------------------------------------------------------------------------
(* The scripts: what they leave in the keyspace, and whether they applied. *)
(* A command r carries the call, the number of the call, which is the      *)
(* token of what it writes, and what its caller saw.                       *)

Effect(k, applied) == [kv |-> k, applied |-> applied]
Unapplied          == Effect(kv, FALSE)

SetScript(r) == Effect([kv EXCEPT ![r.c.key] = SetPX(r.id, pexpireArg(r.c.ttl))], TRUE)

DelScript(r) == Effect([kv EXCEPT ![r.c.key] = None], Exists(kv[r.c.key]))

casScript(r) ==
    IF GET(r.c.key).val # r.old THEN Unapplied
    ELSE Effect([kv EXCEPT ![r.c.key] = SetPX(r.id, pexpireArg(r.c.ttl))], TRUE)

cadScript(r) ==
    IF r.old = Nil \/ GET(r.c.key).val # r.old THEN Unapplied
    ELSE Effect([kv EXCEPT ![r.c.key] = None], TRUE)

incrByDeadlineScript(r) ==
    LET d == deadlineMillis(r.c.deadline)
        e == GET(r.c.key)
    IN IF d # 0 /\ now >= d THEN Unapplied
       ELSE Effect([kv EXCEPT ![r.c.key] =
                      IF e = None THEN Entry(r.c.delta, IF d > 0 THEN d ELSE 0)
                      ELSE Entry(e.val + r.c.delta, e.dl)], TRUE)

\* A counter written back: SET clears the expiry, PEXPIRE restores a positive
\* remainder or stamps a fresh counter.
Count(c) ==
    LET e == GET("ctr") IN
    IF e = None THEN SetPX(1, pexpireArg(c.ttl))
    ELSE SetPX(e.val + 1, PTTL(e))

\* The TTL after each turn of the loop of commitBlockScript.
Rungs(base, cap, offenses) ==
    LET ttl[n \in 1..offenses] ==
            IF n = 1 THEN base
            ELSE IF ttl[n - 1] >= cap THEN ttl[n - 1]
            ELSE IF ttl[n - 1] > cap \div 2 THEN cap ELSE 2 * ttl[n - 1]
    IN ttl

BaseTTL(c) == pexpireArg(IF c.base <= 0 THEN DefaultBase ELSE c.base)
CapTTL(c)  == pexpireArg(IF c.cap <= 0 THEN DefaultCap ELSE c.cap)

\* The ladder, as that loop climbs it.
Ladder(c, offenses) ==
    LET ttl == Rungs(BaseTTL(c), CapTTL(c), offenses)[offenses]
    IN IF ttl > CapTTL(c) THEN CapTTL(c) ELSE ttl

\* Mutant: the predecessor block is not compared.
BlockMatchesAny(r) == TRUE

\* The predecessor the caller observed is still the block.
BlockMatches(r) == GET(r.c.key).val = r.old

commitBlockScript(r) ==
    IF GET("hold") # None \/ GET("gen").val # r.guard \/ ~BlockMatches(r) THEN Unapplied
    ELSE Effect([kv EXCEPT !["ctr"] = Count(r.c),
                           ![r.c.key] = SetPX(r.id, Ladder(r.c, Count(r.c).val))], TRUE)

commitEventScript(r) ==
    IF GET("hold") # None THEN Unapplied ELSE Effect([kv EXCEPT !["ctr"] = Count(r.c)], TRUE)

commitUnblockScript(r) ==
    Effect([kv EXCEPT !["hold"] = SetPX(r.id, pexpireArg(r.c.ttl)),
                      !["gen"] = SetPX(r.id, pexpireArg(r.c.genTTL)), ![r.c.key] = None,
                      !["ctr"] = IF r.c.reset THEN None ELSE @], TRUE)

Run(r) ==
    CASE r.c.op = "Set"              -> SetScript(r)
      [] r.c.op = "Delete"           -> DelScript(r)
      [] r.c.op = "CompareAndSwap"   -> casScript(r)
      [] r.c.op = "CompareAndDelete" -> cadScript(r)
      [] r.c.op = "IncrByDeadline"   -> incrByDeadlineScript(r)
      [] r.c.op = "CommitBlock"      -> commitBlockScript(r)
      [] r.c.op = "CommitEvent"      -> commitEventScript(r)
      [] r.c.op = "CommitUnblock"    -> commitUnblockScript(r)
      [] r.c.op = "GetWithExpiry"    -> Unapplied

\* Index maintenance, the last part of every script that writes or removes a
\* block: ZADD or ZREM of the key, and INCR of the generation if anything changed.
WritesBlock(c) == c.op \in {"Set", "CompareAndSwap", "CommitBlock"} /\ c.key \in Blocks
DropsBlock(c)  == c.op \in {"Delete", "CompareAndDelete", "CommitUnblock"} /\ c.key \in Blocks

Indexes(c, e) == WritesBlock(c) /\ e.applied
Drops(c, e)   == DropsBlock(c) /\ (c.op # "CompareAndDelete" \/ e.applied)
Keep(ks)      == [j \in ks |-> index[j]]

IndexAfter(c, e) ==
    IF Indexes(c, e) THEN Put(index, c.key, Score(e.kv[c.key]))
    ELSE IF Drops(c, e) THEN Keep(DOMAIN index \ {c.key})
    ELSE index

GenAfter(c, e) ==
    IF \/ Indexes(c, e)
       \/ Drops(c, e) /\ (Exists(kv[c.key]) \/ c.key \in DOMAIN index)
    THEN gen + 1 ELSE gen

----------------------------------------------------------------------------
Init ==
    /\ now = 0
    /\ kv = Seed
    /\ index = [k \in {k \in Blocks : Seed[k] # None} |-> Score(Seed[k])]
    /\ gen = 0
    /\ wire = {} /\ client = [i \in 1..MaxCalls |-> Idle] /\ calls = 0
    /\ scan = Idle /\ scans = 0
    /\ zset = [l \in 1..2 |-> Empty] /\ zexp = [l \in 1..2 |-> 0]
    /\ votes = 0 /\ posts = {} /\ asking = [i \in Insts |-> Idle]
    /\ pokes = 0 /\ timeouts = 0
    /\ ran = [i \in 1..MaxCalls |-> 0]
    /\ mine = [i \in Insts |-> [level |-> 0, dl |-> 0]]
    /\ wish = [i \in Insts |-> 0] /\ doubt = [i \in Insts |-> FALSE]
    /\ slack = FALSE

\* The caller waits for this attempt.
Waiting(r) == [stage |-> "wait", since |-> r.since, cmd |-> r]

\* A caller issues a command.  A block value carries a token of its own
\* (BlockValue), here the number of the call, and what a conditional command
\* compares with is what its caller last saw in the store.
Call ==
    /\ calls + votes < MaxCalls
    /\ calls' = calls + 1
    /\ \E c \in Calls :
         LET r == [id |-> calls + 1, try |-> 0, since |-> now, c |-> c,
                   old |-> GET(c.key).val, guard |-> GET("gen").val]
         IN
         /\ client' = [client EXCEPT ![r.id] = Waiting(r)]
         /\ wire' = wire \cup {r}
    /\ UNCHANGED <<now, serverVars, scan, voteVars, pokes, scans, timeouts, ran, slack>>

\* The server runs a command.  Its reply reaches the caller if the caller still
\* waits for this attempt and the reply is not lost.  GetWithExpiry is told
\* nothing of a key with no time left.
Exec(r) ==
    /\ wire' = wire \ {r}
    /\ LET e == Run(r) IN
       /\ kv' = e.kv
       /\ index' = IndexAfter(r.c, e) /\ gen' = GenAfter(r.c, e)
       /\ ran' = IF r.c.op = "CommitBlock" /\ e.applied THEN [ran EXCEPT ![r.id] = @ + 1] ELSE ran
    /\ \/ UNCHANGED client
       \/ /\ client[r.id] = Waiting(r)
          /\ LET e == GET(r.c.key) IN
             client' = [client EXCEPT ![r.id] =
                 IF r.c.op = "GetWithExpiry" /\ e # None /\ PTTL(e) > 0
                 THEN [stage |-> "got", since |-> r.since, ttl |-> PTTL(e), dl |-> e.dl]
                 ELSE Idle]
    /\ UNCHANGED <<now, calls, scan, voteVars, pokes, scans, timeouts, slack>>

\* Mutant: the remaining TTL is counted from the reply.
AnchorAtReply(w) == now

\* Where GetWithExpiry anchors the remaining TTL it is told.
Anchor(w) == w.since

\* GetWithExpiry turns the remaining TTL into a deadline of its own.
TakeReply(i) ==
    /\ client[i].stage = "got"
    /\ slack' = (slack \/ Anchor(client[i]) + client[i].ttl > client[i].dl)
    /\ client' = [client EXCEPT ![i] = Idle]
    /\ UNCHANGED <<now, serverVars, wire, calls, scan, voteVars, pokes, scans, timeouts, ran>>

\* The client gives up on an attempt: it retries, or returns an error.  The
\* command may still be on its way.
Timeout(i) ==
    /\ client[i].stage = "wait" /\ timeouts < MaxTimeouts
    /\ timeouts' = timeouts + 1
    /\ LET r == client[i].cmd
           again == [r EXCEPT !.try = @ + 1]
       IN IF r.try < MaxRetries
          THEN client' = [client EXCEPT ![i] = Waiting(again)] /\ wire' = wire \cup {again}
          ELSE client' = [client EXCEPT ![i] = Idle] /\ UNCHANGED wire
    /\ UNCHANGED <<now, serverVars, calls, scan, voteVars, pokes, scans, ran, slack>>

\* Something other than Guardian deletes a key: the index knows nothing of it.
Poke(k) ==
    /\ Exists(kv[k]) /\ pokes < MaxPokes /\ pokes' = pokes + 1
    /\ kv' = [kv EXCEPT ![k] = None]
    /\ UNCHANGED <<now, index, gen, wire, client, calls, scan, voteVars, scans, timeouts, ran, slack>>

\* An instance whose call for a vote is over.
OutOfTime(i) == asking[i] # Idle /\ now >= asking[i].since + CallBudget

\* The clock.  A call with its retry is over within CallBudget: the client's
\* timeouts, dial included, are fractions of a second.  A command that has not
\* been run by then never is, and its caller has an error.
Tick ==
    /\ now < MaxNow
    /\ now' = now + 1
    /\ wire' = {r \in wire : now < r.since + CallBudget}
    /\ client' = [i \in 1..MaxCalls |->
                    IF client[i] # Idle /\ now < client[i].since + CallBudget THEN client[i] ELSE Idle]
    /\ posts' = {p \in posts : now < p.since + CallBudget}
    /\ asking' = [i \in Insts |-> IF OutOfTime(i) THEN Idle ELSE asking[i]]
    /\ doubt' = [i \in Insts |-> doubt[i] \/ OutOfTime(i)]
    /\ UNCHANGED <<serverVars, calls, scan, zset, zexp, mine, votes, wish, pokes, scans, timeouts, ran, slack>>

----------------------------------------------------------------------------
(* ScanActiveBlocks.                                                       *)

Position(k) == CHOOSE i \in 1..Len(BlockKeys) : BlockKeys[i] = k

\* The order of the index: by score, then by key.
Before(a, b) ==
    \/ index[a] < index[b]
    \/ index[a] = index[b] /\ Position(a) < Position(b)
Rank(k)      == 1 + Cardinality({j \in DOMAIN index : Before(j, k)})

\* ZRANGE: n entries of the index after the first start.
ZRange(start, n) == {k \in DOMAIN index : Rank(k) \in start + 1 .. start + n}

scanStep == <<now, kv, wire, client, calls, voteVars, pokes, timeouts, ran, slack>>

\* redisPrepareBlockIndexScript: drop what has expired, then read the generation.
Prepare ==
    /\ scan.stage \in {"idle", "done"} /\ scans < MaxScans
    /\ scans' = scans + 1
    /\ LET dead == {k \in DOMAIN index : index[k] <= now} IN
       /\ index' = Keep(DOMAIN index \ dead)
       /\ gen' = IF dead = {} THEN gen ELSE gen + 1
    /\ \E limit \in Limits :
         scan' = [stage |-> "page", limit |-> limit, start |-> gen', seen |-> 0,
                  kvs |-> Empty, complete |-> TRUE, batch |-> {}, last |-> FALSE]
    /\ UNCHANGED scanStep

PageOf(s) ==
    IF s.limit > 0 /\ s.limit + 1 - s.seen < PageSize THEN s.limit + 1 - s.seen ELSE PageSize

\* ZRANGE of the next page; the loop ends on an empty page or past the limit.
Page ==
    /\ scan.stage = "page"
    /\ LET n    == PageOf(scan)
           rest == ZRange(scan.seen, n)
       IN scan' = IF n <= 0 THEN [scan EXCEPT !.stage = "end", !.complete = FALSE]
                  ELSE IF rest = {} THEN [scan EXCEPT !.stage = "end"]
                  ELSE [scan EXCEPT !.stage = "values", !.batch = rest,
                                    !.last = Cardinality(rest) < n,
                                    !.seen = @ + Cardinality(rest)]
    /\ UNCHANGED <<scanStep, index, gen, scans>>

\* The page is done with.
Leave(s) == [s EXCEPT !.stage = IF s.last THEN "end" ELSE "page", !.batch = {}, !.last = FALSE]

\* scanValues: the values and TTLs of the page.  A missing value leaves an entry
\* to heal and the scan without its claim to completeness.
Values ==
    /\ scan.stage = "values"
    /\ LET hit == {k \in scan.batch : GET(k) # None}
           s   == [scan EXCEPT !.kvs = [k \in hit \cup DOMAIN @ |->
                                          IF k \in hit THEN GET(k).val ELSE @[k]]]
       IN scan' = IF hit = s.batch THEN Leave(s)
                  ELSE [s EXCEPT !.stage = "heal", !.complete = FALSE, !.batch = @ \ hit]
    /\ UNCHANGED <<scanStep, index, gen, scans>>

\* Mutant: stale keys leave the index unchecked.
HealedUnchecked(stale) == stale

\* The keys redisHealBlockIndexScript takes out of the index: the stale ones
\* that are still absent when it runs.
Healed(stale) == {k \in stale : ~Exists(kv[k])}

\* The scan goes on whether or not the script could be run.
Heal ==
    /\ scan.stage = "heal"
    /\ \/ UNCHANGED <<index, gen>>
       \/ LET gone == Healed(scan.batch) \cap DOMAIN index IN
          /\ gone # {}
          /\ index' = Keep(DOMAIN index \ gone)
          /\ gen' = gen + 1
    /\ scan' = Leave(scan)
    /\ UNCHANGED <<scanStep, scans>>

\* Mutant: the generation is not read again.
UnchangedUnread(s) == TRUE

\* A result that the generation still vouches for.
Unchanged(s) == gen = s.start

\* The limit and the generation decide whether the result is authoritative.
\* missed is history: the blocks with time left that the result does not have.
EndScan ==
    /\ scan.stage = "end"
    /\ scan' = [stage |-> "done",
                complete |-> /\ scan.complete /\ Unchanged(scan)
                             /\ ~(scan.limit > 0 /\ scan.seen > scan.limit),
                missed |-> {k \in Blocks :
                              /\ GET(k) # None /\ PTTL(GET(k)) # 0
                              /\ ~(k \in DOMAIN scan.kvs /\ scan.kvs[k] = GET(k).val)}]
    /\ UNCHANGED <<scanStep, index, gen, scans>>

\* Any of the scan's commands fails: the caller gets an error.
AbortScan ==
    /\ scan.stage \in {"page", "values", "end"}
    /\ scan' = Idle
    /\ UNCHANGED <<scanStep, index, gen, scans>>

----------------------------------------------------------------------------
(* Fleet posture votes.                                                    *)

Without(z, i) == [j \in DOMAIN z \ {i} |-> z[j]]

\* The sorted sets as the server has them: one that expired or is empty is gone.
ZSet(l) == IF now > zexp[l] THEN Empty ELSE zset[l]

\* Mutant: every vote resets the expiry of the sorted set.
ExpireAlways(ttl, old, fresh) == now + ttl

\* The sorted set expires no earlier than any vote in it.
ExpireNoEarlier(ttl, old, fresh) == IF fresh \/ old - now < ttl THEN now + ttl ELSE old

redisSetPostureScript(i, l, ttl) ==
    /\ zset' = [m \in 1..2 |-> IF m = l THEN Put(ZSet(m), i, now + ttl) ELSE Without(ZSet(m), i)]
    /\ zexp' = [zexp EXCEPT ![l] = ExpireNoEarlier(ttl, @, Without(ZSet(l), i) = Empty)]
    /\ mine' = [mine EXCEPT ![i] = [level |-> l, dl |-> now + ttl]]

redisDeletePostureScript(i) ==
    /\ zset' = [m \in 1..2 |-> Without(ZSet(m), i)]
    /\ mine' = [mine EXCEPT ![i] = [level |-> 0, dl |-> 0]]
    /\ UNCHANGED zexp

voteStep == <<now, serverVars, wire, client, calls, scan, pokes, scans, ran, slack>>

\* A command of instance i, level 0 to withdraw.  An instance makes one call at
\* a time (shareMu), but a command of an earlier one may still be on its way.
Post(i, l, ttl) ==
    /\ asking[i] = Idle
    /\ calls + votes < MaxCalls /\ votes' = votes + 1
    /\ LET p == [id |-> votes + 1, try |-> 0, since |-> now, inst |-> i, level |-> l, ttl |-> ttl]
       IN posts' = posts \cup {p} /\ asking' = [asking EXCEPT ![i] = p]
    /\ wish' = [wish EXCEPT ![i] = l]
    /\ doubt' = [doubt EXCEPT ![i] = \E p \in posts : p.inst = i]
    /\ UNCHANGED <<voteStep, zset, zexp, mine, timeouts>>

SetPostureVote(i, l, ttl) == Post(i, l, ttl)
DeletePostureVote(i)      == Post(i, 0, 0)

\* The server runs the command, and the caller may hear of it.
RunPost(p) ==
    /\ posts' = posts \ {p}
    /\ \/ p.level # 0 /\ redisSetPostureScript(p.inst, p.level, p.ttl)
       \/ p.level = 0 /\ redisDeletePostureScript(p.inst)
    /\ \/ UNCHANGED asking
       \/ asking[p.inst] = p /\ asking' = [asking EXCEPT ![p.inst] = Idle]
    /\ UNCHANGED <<voteStep, votes, wish, doubt, timeouts>>

\* The client gives up on an attempt, as in Timeout.
PostTimeout(i) ==
    /\ asking[i] # Idle /\ timeouts < MaxTimeouts
    /\ timeouts' = timeouts + 1
    /\ LET again == [asking[i] EXCEPT !.try = @ + 1]
       IN IF asking[i].try < MaxRetries
          THEN /\ asking' = [asking EXCEPT ![i] = again] /\ posts' = posts \cup {again}
               /\ UNCHANGED doubt
          ELSE /\ asking' = [asking EXCEPT ![i] = Idle] /\ doubt' = [doubt EXCEPT ![i] = TRUE]
               /\ UNCHANGED posts
    /\ UNCHANGED <<voteStep, zset, zexp, mine, votes, wish>>

\* MaxPostureVote: expired votes do not count, nor does the caller's own.
MaxPostureVote(i) ==
    LET others(l) == {j \in DOMAIN ZSet(l) : zset[l][j] > now} \ {i}
    IN IF others(2) # {} THEN 2 ELSE IF others(1) # {} THEN 1 ELSE 0

\* ... and are removed by the asking.
TrimVotes ==
    /\ \E l \in 1..2 : \E j \in DOMAIN zset[l] : zset[l][j] <= now
    /\ zset' = [l \in 1..2 |-> [j \in {i \in DOMAIN ZSet(l) : zset[l][i] > now} |-> zset[l][j]]]
    /\ UNCHANGED <<voteStep, zexp, mine, askVars, timeouts>>

----------------------------------------------------------------------------
VoteSteps ==
    \/ \E i \in Insts : \/ \E l \in 1..2, ttl \in VoteTTLs : SetPostureVote(i, l, ttl)
                        \/ DeletePostureVote(i)
                        \/ PostTimeout(i)
    \/ \E p \in posts : RunPost(p)
    \/ TrimVotes

Next ==
    \/ Call
    \/ \E i \in 1..MaxCalls : Timeout(i) \/ TakeReply(i)
    \/ \E r \in wire : Exec(r)
    \/ \E k \in Poked : Poke(k)
    \/ Prepare \/ Page \/ Values \/ Heal \/ EndScan \/ AbortScan
    \/ VoteSteps
    \/ Tick

Spec == Init /\ [][Next]_vars

----------------------------------------------------------------------------
\* A scan of active blocks that calls itself complete has every block that is
\* still in force, with its current value: pages shifted by a concurrent write,
\* entries lost to healing and truncation all cost it the claim
\* (ScanActiveBlocks, on which the mirror's reconciliation deletes entries).
CompleteScanIsExact == scan.stage = "done" /\ scan.complete => scan.missed = {}

\* Every block with time left is in the index under its own deadline, whatever
\* expiry, out-of-band deletion and the healing of a scan that raced a new
\* block have done (redisHealBlockIndexScript).
IndexCoversBlocks ==
    \A k \in Blocks :
        Exists(kv[k]) /\ PTTL(kv[k]) # 0 =>
            k \in DOMAIN index /\ index[k] = Score(kv[k])

\* A CommitBlock whose reply was lost and which the client therefore sent again
\* advances the offense ladder once: the comparison with the predecessor block
\* refuses the second run (commitBlockScript).
OffensesCountOnce == \A i \in 1..MaxCalls : ran[i] <= 1

\* Under what calls that comparison is enough, whatever the retries: what fences
\* off the second run, the block the first one wrote or the hold of an unblock,
\* lasts as long as a call with its retry can, and nothing but another commit
\* replaces it.
Committed       == {c.key : c \in {d \in Calls : d.op = "CommitBlock"}}
LongEnough(ttl) == ttl = 0 \/ ttl >= CallBudget
CommitsAreFenced ==
    /\ Poked \cap (Committed \cup {"hold"}) = {}
    /\ \A k \in Committed : Seed[k].val \notin 1..MaxCalls
    /\ \A c \in Calls :
         /\ c.key \in Committed => c.op \in {"CommitBlock", "CommitUnblock", "GetWithExpiry"}
         /\ c.key = "hold" => \/ c.op = "GetWithExpiry"
                              \/ c.op = "Set" /\ LongEnough(pexpireArg(c.ttl))
         /\ c.op = "CommitBlock" => BaseTTL(c) >= CallBudget /\ CapTTL(c) >= CallBudget
         /\ c.op = "CommitUnblock" => LongEnough(pexpireArg(c.ttl))

\* What the fleet posture of every instance is computed from is exactly the
\* votes of the others that are still running: a short vote must not expire the
\* sorted set under a longer one (redisSetPostureScript, redisMaxPostureScript).
\* And the vote the server has of an instance is the one its last call asked
\* for, a withdrawal included, with one exception: a command of an earlier call,
\* given up after a timeout and still on its way, may run after the last one and
\* revive a withdrawn vote for its TTL (MaxRetries, attackmode.go:772-774).
VotesAreSeen ==
    \A i \in Insts :
        /\ LET running == {mine[j].level : j \in {j \in Insts \ {i} : mine[j].dl > now}}
           IN MaxPostureVote(i) = IF 2 \in running THEN 2 ELSE IF 1 \in running THEN 1 ELSE 0
        /\ asking[i] = Idle /\ ~doubt[i] => mine[i].level = wish[i]

\* A window counter created under a deadline never outlives it as a permanent
\* key: not by rounding, not by a deadline that has passed, not by a later
\* increment (incrByDeadlineScript, deadlineMillis).
WindowsExpire == kv["win"] # None => kv["win"].dl # 0

\* The expiry GetWithExpiry reports is never later than the key's, so that a
\* local cache cannot hold what the store has let go (expiry.go).
ReadExpiryIsSafe == ~slack
=============================================================================

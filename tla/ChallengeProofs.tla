-------------------------- MODULE ChallengeProofs --------------------------
(***************************************************************************)
(* What Challenge's clocks, markers and claims guarantee for any number of *)
(* replicas, redemptions and challenges, and any times that satisfy        *)
(* SkewAssumption.                                                         *)
(*                                                                         *)
(* The inductive invariant relates each redemption's single clock reading  *)
(* to the store's clock, and each marker and claim to the last moment at   *)
(* which some replica could still accept the challenge.                    *)
(***************************************************************************)
EXTENDS Challenge, TLAPS

Tries == [Threads -> [c : Challenges \cup {None}, p : Replicas \cup {None}, read : Nat,
                      at : Nat, moved : BOOLEAN, slot : BOOLEAN]]

(* The types the steps need; the bound of the cache is left to TLC.        *)
Shape ==
    /\ now \in Nat
    /\ chal \in [Challenges -> [kind : {"none", "stateful", "stateless"}, issued : Nat, at : Nat,
                                nojs : BOOLEAN, alg : {"sha256", "argon2id"}]]
    /\ entry \in [Challenges -> [state : {"none", "issued", "spent"}, exp : Int]]
    /\ spends \in [Challenges -> Nat]
    /\ spent \in [Replicas -> [Challenges -> Int]]
    /\ failOpen \in [Replicas -> [Challenges -> Nat]]
    /\ pc \in [Threads -> Places]
    /\ try \in Tries
    /\ claimed \subseteq Challenges

(* A challenge carries the clock of the replica that issued it.            *)
Issuance ==
    \A c \in Challenges : chal[c].kind # "none" =>
        /\ chal[c].at <= now
        /\ \E q \in Replicas : chal[c].issued = chal[c].at + Offset[q]

(* A redemption has read its replica's clock not long ago, and found a     *)
(* stateless challenge fresh.                                              *)
Reading(t) ==
    /\ try[t].c \in Challenges /\ try[t].p \in Replicas
    /\ try[t].read = try[t].at + Offset[try[t].p]
    /\ try[t].at <= now /\ now <= try[t].at + MaxStall
    /\ chal[try[t].c].kind # "none"
    /\ chal[try[t].c].kind = "stateless" => try[t].read - chal[try[t].c].issued <= TTL
    /\ pc[t] \in {"spent", "local", "claim"} => chal[try[t].c].kind = "stateless"
Readings == \A t \in Threads : pc[t] # "idle" => Reading(t)

(* When no replica can still be redeeming a stateless challenge.           *)
Outlasts(exp, c) == \A q \in Replicas : exp > chal[c].issued + TTL - Offset[q] + MaxStall

Record(c) ==
    /\ chal[c].kind = "none" => entry[c] = NoEntry /\ spends[c] = 0 /\ c \notin claimed
    /\ chal[c].kind = "stateful" /\ c \notin claimed =>
          entry[c].state = "issued" /\ entry[c].exp = chal[c].at + TTL
    /\ chal[c].kind = "stateless" => entry[c].state # "issued"
    /\ chal[c].kind = "stateless" /\ c \notin claimed => entry[c].state = "none"
    /\ entry[c].state # "spent" => spends[c] = 0
    /\ spends[c] <= 1
    /\ spends[c] = 1 /\ chal[c].kind = "stateless" => Outlasts(entry[c].exp, c)
Records == \A c \in Challenges : Record(c)

Cache(p, c) ==
    /\ spent[p][c] >= 0
    /\ spent[p][c] > 0 => c \in claimed
    /\ failOpen[p][c] <= 1
    /\ failOpen[p][c] = 1 => /\ chal[c].kind = "stateless"
                             /\ spent[p][c] = chal[c].issued + TTL + Skew
Caches == \A p \in Replicas, c \in Challenges : Cache(p, c)

IInv == Shape /\ Issuance /\ Readings /\ Records /\ Caches /\ NoFalseRefusal

-----------------------------------------------------------------------------
(* Lemmas                                                                  *)

USE DEF Tries

(* A fresh challenge has at least statelessSkew left, so its marker's      *)
(* lifetime is never the one-minute fallback.                              *)
LEMMA MarkerLifetime ==
    ASSUME NEW read \in Nat, NEW issued \in Nat, read - issued <= TTL
    PROVE  MarkerTTL(read, issued) = TTL - (read - issued) + Skew
BY ChallengeAssumption, SkewAssumption DEF MarkerTTL

(* A marker written by a redemption outlasts every other redemption of the *)
(* same challenge.                                                         *)
LEMMA MarkerOutlasts ==
    ASSUME Shape, NEW t \in Threads, pc[t] # "idle", Reading(t), chal[try[t].c].kind = "stateless"
    PROVE  Outlasts(now + MarkerTTL(try[t].read, chal[try[t].c].issued), try[t].c)
<1> DEFINE c == try[t].c
           p == try[t].p
           r == try[t].read
           i == chal[c].issued
<1>1. c \in Challenges /\ p \in Replicas /\ r \in Nat /\ i \in Nat /\ try[t].at \in Nat /\ now \in Nat
  BY DEF Shape, Reading
<1>2. MarkerTTL(r, i) = TTL - (r - i) + Skew
  BY <1>1, MarkerLifetime DEF Reading
<1>3. SUFFICES ASSUME NEW q \in Replicas
               PROVE  now + MarkerTTL(r, i) > i + TTL - Offset[q] + MaxStall
  BY DEF Outlasts
<1>4. r = try[t].at + Offset[p] /\ try[t].at <= now
  BY DEF Reading
<1>5. Offset[p] - Offset[q] <= Drift /\ Offset[p] \in Nat /\ Offset[q] \in Nat
  BY <1>1, ChallengeAssumption
<1> HIDE DEF c, p, r, i
<1>6. QED
  BY <1>1, <1>2, <1>4, <1>5, ChallengeAssumption, SkewAssumption

(* While a redemption is between its reading and the swap, an earlier      *)
(* marker of the challenge is still alive.                                 *)
LEMMA MarkerAlive ==
    ASSUME Shape, Records, NEW t \in Threads, pc[t] # "idle", Reading(t),
           chal[try[t].c].kind = "stateless", ~Live(try[t].c)
    PROVE  spends[try[t].c] = 0
<1> DEFINE c == try[t].c
           p == try[t].p
<1>1. c \in Challenges /\ p \in Replicas /\ try[t].read \in Nat /\ chal[c].issued \in Nat
      /\ try[t].at \in Nat /\ now \in Nat /\ spends[c] \in Nat /\ entry[c].exp \in Int
  BY DEF Shape, Reading
<1>2. SUFFICES ASSUME spends[c] # 0 PROVE FALSE
  OBVIOUS
<1>3. spends[c] = 1 /\ entry[c].state = "spent" /\ Outlasts(entry[c].exp, c)
  BY <1>1, <1>2 DEF Records, Record
<1>4. ~(now < entry[c].exp)
  BY <1>3 DEF Live
<1>5. entry[c].exp > chal[c].issued + TTL - Offset[p] + MaxStall
  BY <1>1, <1>3 DEF Outlasts
<1>6. try[t].read = try[t].at + Offset[p] /\ now <= try[t].at + MaxStall
      /\ try[t].read - chal[c].issued <= TTL
  BY DEF Reading
<1>7. Offset[p] \in Nat
  BY <1>1, ChallengeAssumption
<1> HIDE DEF c, p
<1>8. QED
  BY <1>1, <1>4, <1>5, <1>6, <1>7, ChallengeAssumption

(* Nobody is told in time that an unclaimed challenge is gone unless the   *)
(* verdict is wrong about it.                                              *)
LEMMA GoneIsRight ==
    ASSUME NEW c, Gone(c), NoFalseRefusal, c \in claimed \/ ~InTime(c)
    PROVE  NoFalseRefusal' /\ claimed' = claimed
BY DEF Gone, NoFalseRefusal

(* What a local claim, live or not, says about its challenge.              *)
LEMMA CachedIsClaimed ==
    ASSUME Shape, Caches, NEW p \in Replicas, NEW c \in Challenges, NEW read \in Nat,
           Cached(p, c, read)
    PROVE  c \in claimed
<1>1. spent[p][c] \in Int
  BY DEF Shape
<1>2. QED
  BY <1>1 DEF Cached, Caches, Cache

(* The places and readings of other redemptions do not change when one of  *)
(* them moves on or returns.                                               *)
LEMMA StepKeepsReadings ==
    ASSUME Shape, Readings, NEW t \in Threads, pc[t] # "idle",
           NEW place \in Places, Step(t, place), UNCHANGED <<now, chal>>,
           place \in {"spent", "local", "claim"} => chal[try[t].c].kind = "stateless"
    PROVE  /\ pc' \in [Threads -> Places] /\ try' = try
           /\ Readings'
<1>1. pc' = [pc EXCEPT ![t] = place] /\ try' = try
  BY DEF Step
<1>2. pc' \in [Threads -> Places]
  BY <1>1 DEF Shape
<1>3. ASSUME NEW u \in Threads, pc'[u] # "idle" PROVE Reading(u)'
  <2>1. pc[u] # "idle"
    BY <1>1, <1>3 DEF Shape
  <2>2. Reading(u)
    BY <2>1 DEF Readings
  <2>3. pc'[u] = IF u = t THEN place ELSE pc[u]
    BY <1>1 DEF Shape
  <2>4. QED
    BY <1>1, <2>2, <2>3 DEF Reading
<1>4. QED
  BY <1>1, <1>2, <1>3 DEF Readings

LEMMA FinishKeepsReadings ==
    ASSUME Shape, Readings, NEW t \in Threads, pc[t] # "idle", Finish(t), UNCHANGED <<now, chal>>
    PROVE  /\ pc' \in [Threads -> Places]
           /\ try' \in Tries
           /\ Readings'
<1>1. pc' = [pc EXCEPT ![t] = "idle"] /\ try' = [try EXCEPT ![t] = NoTry]
  BY DEF Finish
<1>2. pc' \in [Threads -> Places]
  BY <1>1 DEF Shape, Places
<1>3. try' \in Tries
  BY <1>1 DEF Shape, NoTry
<1>4. ASSUME NEW u \in Threads, pc'[u] # "idle" PROVE Reading(u)'
  <2>1. u # t /\ pc'[u] = pc[u] /\ try'[u] = try[u]
    BY <1>1, <1>4 DEF Shape
  <2>2. Reading(u)
    BY <1>4, <2>1 DEF Readings
  <2>3. QED
    BY <2>1, <2>2 DEF Reading
<1>5. QED
  BY <1>2, <1>3, <1>4 DEF Readings
(* claim keeps the caches in order: a process that has minted on a claim   *)
(* still holds that claim whenever a redemption could ask for it again.    *)
LEMMA ClaimKeepsCaches ==
    ASSUME Shape, Caches, NEW t \in Threads, pc[t] # "idle", Reading(t),
           chal[try[t].c].kind = "stateless", NEW mints \in {0, 1},
           Claimable(try[t].p, try[t].c, try[t].read),
           Claim(try[t].p, try[t].c, Expiry(t), mints), UNCHANGED chal
    PROVE  /\ spent' \in [Replicas -> [Challenges -> Int]]
           /\ failOpen' \in [Replicas -> [Challenges -> Nat]]
           /\ claimed' = claimed \cup {try[t].c}
           /\ Caches'
<1> DEFINE c == try[t].c
           p == try[t].p
           full == CacheFull(p)
<1>1. c \in Challenges /\ p \in Replicas /\ try[t].read \in Nat /\ chal[c].issued \in Nat
  BY DEF Shape, Reading
<1>2. Expiry(t) = chal[c].issued + TTL + Skew
  BY <1>1, MarkerLifetime, ChallengeAssumption DEF Expiry, Reading
<1>3. failOpen[p][c] = 0
  <2>1. failOpen[p][c] \in Nat /\ spent[p][c] \in Int
    BY <1>1 DEF Shape
  <2>2. ~(try[t].read < spent[p][c])
    BY DEF Claimable, Cached
  <2>3. try[t].read - chal[c].issued <= TTL
    BY DEF Reading
  <2>4. Cache(p, c)
    BY <1>1 DEF Caches
  <2>5. SUFFICES ASSUME failOpen[p][c] # 0 PROVE FALSE
    OBVIOUS
  <2>6. failOpen[p][c] = 1
    BY <2>1, <2>4, <2>5 DEF Cache
  <2>7. spent[p][c] = chal[c].issued + TTL + Skew
    BY <2>4, <2>6 DEF Cache
  <2> HIDE DEF c, p
  <2>8. QED
    BY <1>1, <2>2, <2>3, <2>7, ChallengeAssumption, SkewAssumption
<1>4. /\ spent' = [spent EXCEPT ![p] = [d \in Challenges |->
                     IF d = c THEN Expiry(t) ELSE IF full THEN 0 ELSE spent[p][d]]]
      /\ failOpen' = [failOpen EXCEPT ![p] = [d \in Challenges |->
                     IF d = c THEN failOpen[p][d] + mints ELSE IF full THEN 0 ELSE failOpen[p][d]]]
      /\ claimed' = claimed \cup {c}
  BY DEF Claim, Shape
<1>5. Expiry(t) \in Nat /\ Expiry(t) > 0
  <2> DEFINE i == chal[c].issued
  <2>1. TTL \in Nat /\ TTL > 0 /\ Skew \in Nat /\ i \in Nat /\ Expiry(t) = i + TTL + Skew
    BY <1>1, <1>2, ChallengeAssumption
  <2> HIDE DEF i
  <2>2. QED
    BY <2>1
<1> HIDE DEF c, p, full
<1>6. spent' \in [Replicas -> [Challenges -> Int]]
  <2>1. [d \in Challenges |-> IF d = c THEN Expiry(t) ELSE IF full THEN 0 ELSE spent[p][d]]
          \in [Challenges -> Int]
    BY <1>1, <1>5 DEF Shape
  <2>2. QED
    BY <1>4, <2>1 DEF Shape
<1>7. failOpen' \in [Replicas -> [Challenges -> Nat]]
  <2>1. [d \in Challenges |->
            IF d = c THEN failOpen[p][d] + mints ELSE IF full THEN 0 ELSE failOpen[p][d]]
          \in [Challenges -> Nat]
    BY <1>1 DEF Shape
  <2>2. QED
    BY <1>4, <2>1 DEF Shape
<1>8. ASSUME NEW q \in Replicas, NEW d \in Challenges PROVE Cache(q, d)'
  <2>1. Cache(q, d)
    BY DEF Caches
  <2>2. spent[q][d] \in Int /\ failOpen[q][d] \in Nat
    BY DEF Shape
  <2>3. CASE q # p
    <3>1. spent'[q][d] = spent[q][d] /\ failOpen'[q][d] = failOpen[q][d]
      BY <1>4, <2>3 DEF Shape
    <3>2. QED
      BY <1>4, <2>1, <3>1 DEF Cache
  <2>4. CASE q = p /\ d = c
    <3>1. spent'[q][d] = Expiry(t) /\ failOpen'[q][d] = mints
      BY <1>3, <1>4, <2>4 DEF Shape
    <3>2. chal[d].kind = "stateless"
      BY <2>4 DEF c
    <3>3. QED
      BY <1>2, <1>4, <1>5, <2>4, <3>1, <3>2 DEF Cache
  <2>5. CASE q = p /\ d # c
    <3>1. /\ spent'[q][d] = IF full THEN 0 ELSE spent[q][d]
          /\ failOpen'[q][d] = IF full THEN 0 ELSE failOpen[q][d]
      BY <1>4, <2>5 DEF Shape
    <3>2. QED
      BY <1>4, <2>1, <3>1 DEF Cache
  <2>6. QED
    BY <2>3, <2>4, <2>5
<1>9. QED
  BY <1>4, <1>6, <1>7, <1>8 DEF Caches, c

(* A claim changes nothing that Records says but that it was made.         *)
LEMMA ClaimKeepsRecords ==
    ASSUME Records, NEW c \in Challenges, chal[c].kind # "none",
           claimed' = claimed \cup {c}, UNCHANGED <<chal, entry, spends>>
    PROVE  Records'
<1>1. ASSUME NEW d \in Challenges PROVE Record(d)'
  BY <1>1 DEF Records, Record, Outlasts
<1>2. QED
  BY <1>1 DEF Records

(* A spend of a challenge the store has not accepted before.               *)
LEMMA SpendKeepsRecords ==
    ASSUME Shape, Records, Caches, NEW c \in Challenges, chal[c].kind # "none", spends[c] = 0,
           NEW ttl \in Int, Spend(c, ttl), UNCHANGED <<chal, now, spent, failOpen>>,
           chal[c].kind = "stateless" => Outlasts(now + ttl, c)
    PROVE  /\ entry' \in [Challenges -> [state : {"none", "issued", "spent"}, exp : Int]]
           /\ spends' \in [Challenges -> Nat]
           /\ claimed' = claimed \cup {c}
           /\ Records' /\ Caches'
<1>1. /\ entry' = [entry EXCEPT ![c] = [state |-> "spent", exp |-> now + ttl]]
      /\ spends' = [spends EXCEPT ![c] = spends[c] + 1]
      /\ claimed' = claimed \cup {c}
  BY DEF Spend
<1>2. entry' \in [Challenges -> [state : {"none", "issued", "spent"}, exp : Int]]
  BY <1>1 DEF Shape
<1>3. spends' \in [Challenges -> Nat]
  BY <1>1 DEF Shape
<1>4. ASSUME NEW d \in Challenges PROVE Record(d)'
  <2>1. Record(d)
    BY DEF Records
  <2>2. CASE d = c
    <3>1. entry'[d].state = "spent" /\ entry'[d].exp = now + ttl /\ spends'[d] = 1
      BY <1>1, <2>2 DEF Shape
    <3>2. chal'[d] = chal[d] /\ d \in claimed'
      BY <1>1, <2>2
    <3>3. chal[d].kind = "stateless" => Outlasts(entry[d].exp, d)'
      BY <2>2, <3>1 DEF Outlasts
    <3>4. QED
      BY <2>2, <3>1, <3>2, <3>3 DEF Record
  <2>3. CASE d # c
    <3>1. entry'[d] = entry[d] /\ spends'[d] = spends[d] /\ (d \in claimed' <=> d \in claimed)
      BY <1>1, <2>3 DEF Shape
    <3>2. QED
      BY <2>1, <3>1 DEF Record, Outlasts
  <2>4. QED
    BY <2>2, <2>3
<1>5. Caches'
  BY <1>1 DEF Caches, Cache
<1>6. QED
  BY <1>1, <1>2, <1>3, <1>4, <1>5 DEF Records
-----------------------------------------------------------------------------
(* Each action keeps the invariant                                         *)

(* Issuing: nothing is known of the challenge yet.                         *)
LEMMA IssueKeeps ==
    ASSUME IInv, NEW c \in Challenges, NEW p \in Replicas,
           IssueStateful(c, p) \/ IssueStateless(c, p)
    PROVE  IInv'
<1> USE DEF IInv
<1>1. PICK k \in {"stateful", "stateless"}, g \in Policy[c] :
        /\ chal' = [chal EXCEPT ![c] = [kind |-> k, issued |-> Clock(p), at |-> now,
                                        nojs |-> g.nojs, alg |-> g.alg]]
        /\ entry' = IF k = "stateful" THEN [entry EXCEPT ![c] = [state |-> "issued", exp |-> now + TTL]]
                    ELSE entry
        /\ chal[c].kind = "none"
        /\ UNCHANGED <<now, spends, spent, failOpen, pc, try, claimed, wronged>>
  BY DEF IssueStateful, IssueStateless, Issued, storeVars, localVars, threadVars, ghostVars
<1>2. now \in Nat /\ Clock(p) = now + Offset[p] /\ Clock(p) \in Nat
  BY ChallengeAssumption DEF Shape, Clock
<1>3. g.nojs \in BOOLEAN /\ g.alg \in {"sha256", "argon2id"}
  BY ChallengeAssumption DEF Policies
<1>4. /\ chal'[c].kind = k /\ chal'[c].issued = Clock(p) /\ chal'[c].at = now
      /\ \A d \in Challenges : d # c => chal'[d] = chal[d]
  BY <1>1 DEF Shape
<1>5. Shape'
  <2>1. chal' \in [Challenges -> [kind : {"none", "stateful", "stateless"}, issued : Nat, at : Nat,
                                 nojs : BOOLEAN, alg : {"sha256", "argon2id"}]]
    BY <1>1, <1>2, <1>3 DEF Shape
  <2>2. entry' \in [Challenges -> [state : {"none", "issued", "spent"}, exp : Int]]
    BY <1>1, <1>2, ChallengeAssumption DEF Shape
  <2>3. QED
    BY <1>1, <2>1, <2>2 DEF Shape
<1>6. Issuance'
  <2>1. ASSUME NEW d \in Challenges, chal'[d].kind # "none"
        PROVE  chal'[d].at <= now /\ \E q \in Replicas : chal'[d].issued = chal'[d].at + Offset[q]
    BY <1>2, <1>4, <2>1 DEF Issuance
  <2>2. QED
    BY <1>1, <2>1 DEF Issuance
<1>7. Readings'
  <2>1. ASSUME NEW t \in Threads, pc'[t] # "idle" PROVE Reading(t)'
    <3>1. Reading(t)
      BY <1>1, <2>1 DEF Readings
    <3>2. try[t].c # c /\ try[t].c \in Challenges
      BY <1>1, <3>1 DEF Reading
    <3>3. chal'[try[t].c] = chal[try[t].c]
      BY <1>4, <3>2
    <3>4. QED
      BY <1>1, <3>1, <3>3 DEF Reading
  <2>2. QED
    BY <2>1 DEF Readings
<1>8. Records'
  <2>1. ASSUME NEW d \in Challenges PROVE Record(d)'
    <3>1. Record(d)
      BY DEF Records
    <3>2. CASE d = c
      <4>1. entry[d] = NoEntry /\ spends[d] = 0 /\ d \notin claimed
        BY <1>1, <3>1, <3>2 DEF Record
      <4>2. CASE k = "stateful"
        <5>1. entry'[d].state = "issued" /\ entry'[d].exp = now + TTL
          BY <1>1, <3>2, <4>2 DEF Shape
        <5>2. QED
          BY <1>1, <1>4, <3>2, <4>1, <4>2, <5>1 DEF Record
      <4>3. CASE k = "stateless"
        BY <1>1, <1>4, <3>2, <4>1, <4>3 DEF Record, NoEntry
      <4>4. QED
        BY <4>2, <4>3
    <3>3. CASE d # c
      <4>1. entry'[d] = entry[d] /\ chal'[d] = chal[d]
        BY <1>1, <1>4, <3>3 DEF Shape
      <4>2. QED
        BY <1>1, <3>1, <4>1 DEF Record, Outlasts
    <3>4. QED
      BY <3>2, <3>3
  <2>2. QED
    BY <2>1 DEF Records
<1>9. Caches'
  <2>1. ASSUME NEW q \in Replicas, NEW d \in Challenges PROVE Cache(q, d)'
    <3>1. Cache(q, d)
      BY DEF Caches
    <3>2. failOpen[q][c] # 1
      BY <1>1 DEF Caches, Cache
    <3>3. QED
      BY <1>1, <1>4, <3>1, <3>2 DEF Cache
  <2>2. QED
    BY <2>1 DEF Caches
<1>10. QED
  BY <1>1, <1>5, <1>6, <1>7, <1>8, <1>9 DEF NoFalseRefusal

(* A redemption that starts reads its replica's clock.                     *)
LEMMA StartKeeps ==
    ASSUME IInv, NEW t \in Threads, NEW p \in Replicas, NEW c \in Challenges, pc[t] = "idle",
           NEW moved \in BOOLEAN, NEW nojs \in BOOLEAN, Start(t, p, c, moved, nojs),
           chal[c].kind # "none",
           chal[c].kind = "stateless" => Fresh(Clock(p), chal[c].issued),
           UNCHANGED <<now, chal, storeVars, localVars, ghostVars>>
    PROVE  IInv'
<1> USE DEF IInv
<1> DEFINE mine == [c |-> c, p |-> p, read |-> Clock(p), at |-> now, moved |-> moved, slot |-> FALSE]
           place == IF ~nojs /\ chal[c].alg = "argon2id" THEN "acquire"
                    ELSE IF chal[c].kind = "stateful" THEN "cas" ELSE "spent"
<1>1. try' = [try EXCEPT ![t] = mine] /\ pc' = [pc EXCEPT ![t] = place]
  BY DEF Start
<1>2. now \in Nat /\ Clock(p) = now + Offset[p] /\ Clock(p) \in Nat
  BY ChallengeAssumption DEF Shape, Clock
<1>3. place \in Places /\ place # "idle"
      /\ (place \in {"spent", "local", "claim"} => chal[c].kind = "stateless")
  BY DEF Places, Shape
<1>4. Shape'
  <2>1. try' \in Tries
    BY <1>1, <1>2 DEF Shape
  <2>2. pc' \in [Threads -> Places]
    BY <1>1, <1>3 DEF Shape
  <2>3. QED
    BY <2>1, <2>2 DEF Shape, storeVars, localVars, ghostVars
<1>5. Readings'
  <2>1. ASSUME NEW u \in Threads, pc'[u] # "idle" PROVE Reading(u)'
    <3>1. CASE u = t
      <4>1. try'[u] = mine /\ pc'[u] = place
        BY <1>1, <3>1 DEF Shape
      <4>2. chal[c].kind = "stateless" => Clock(p) - chal[c].issued <= TTL
        BY DEF Fresh
      <4>3. QED
        BY <1>2, <1>3, <4>1, <4>2, ChallengeAssumption DEF Reading
    <3>2. CASE u # t
      <4>1. try'[u] = try[u] /\ pc'[u] = pc[u]
        BY <1>1, <3>2 DEF Shape
      <4>2. Reading(u)
        BY <2>1, <4>1 DEF Readings
      <4>3. QED
        BY <4>1, <4>2 DEF Reading
    <3>3. QED
      BY <3>1, <3>2
  <2>2. QED
    BY <2>1 DEF Readings
<1>6. Issuance' /\ Records' /\ Caches' /\ NoFalseRefusal'
  BY DEF Issuance, Records, Record, Outlasts, Caches, Cache, NoFalseRefusal, storeVars, localVars, ghostVars
<1>7. QED
  BY <1>4, <1>5, <1>6

(* A record that is not there, or not issued any more, was claimed or has  *)
(* expired.                                                                *)
LEMMA RecordGone ==
    ASSUME IInv, NEW c \in Challenges, chal[c].kind = "stateful",
           ~(Live(c) /\ entry[c].state = "issued")
    PROVE  c \in claimed \/ ~InTime(c)
<1>1. SUFFICES ASSUME c \notin claimed, InTime(c) PROVE FALSE
  OBVIOUS
<1>2. entry[c].state = "issued" /\ entry[c].exp = chal[c].at + TTL
  BY <1>1 DEF IInv, Records, Record
<1>3. now \in Nat /\ chal[c].at \in Nat /\ now - chal[c].at + Drift < TTL
  BY <1>1 DEF IInv, Shape, InTime
<1>4. now < entry[c].exp
  BY <1>2, <1>3, ChallengeAssumption
<1>5. QED
  BY <1>2, <1>4 DEF Live

(* A challenge that looks too old, or from too far in the future, is late. *)
LEMMA StaleIsLate ==
    ASSUME IInv, NEW c \in Challenges, NEW p \in Replicas, chal[c].kind = "stateless",
           ~Fresh(Clock(p), chal[c].issued)
    PROVE  ~InTime(c)
<1>1. SUFFICES ASSUME InTime(c) PROVE FALSE
  OBVIOUS
<1>2. PICK q \in Replicas : chal[c].issued = chal[c].at + Offset[q]
  BY DEF IInv, Issuance
<1>3. chal[c].at <= now
  BY DEF IInv, Issuance
<1>4. now \in Nat /\ chal[c].at \in Nat /\ now - chal[c].at + Drift < TTL
  BY <1>1 DEF IInv, Shape, InTime
<1>5. Offset[p] \in Nat /\ Offset[q] \in Nat /\ Offset[p] - Offset[q] <= Drift /\ Offset[q] - Offset[p] <= Drift
  BY ChallengeAssumption
<1>6. QED
  BY <1>2, <1>3, <1>4, <1>5, ChallengeAssumption, SkewAssumption DEF Fresh, Clock
(* Redeem's beginning, for both kinds.                                     *)
LEMMA RedeemKeeps ==
    ASSUME IInv, NEW t \in Threads, NEW p \in Replicas, NEW c \in Challenges,
           RedeemStateful(t, p, c) \/ RedeemStateless(t, p, c)
    PROVE  IInv'
<1>1. /\ pc[t] = "idle" /\ chal[c].kind # "none"
      /\ UNCHANGED <<now, chal, storeVars, localVars>>
  BY DEF RedeemStateful, RedeemStateless
<1>2. CASE /\ \E moved, nojs \in BOOLEAN : Start(t, p, c, moved, nojs)
           /\ chal[c].kind = "stateless" => Fresh(Clock(p), chal[c].issued)
           /\ UNCHANGED ghostVars
  BY <1>1, <1>2, StartKeeps
<1>3. CASE Gone(c) /\ (c \in claimed \/ ~InTime(c)) /\ UNCHANGED threadVars
  <2>1. NoFalseRefusal' /\ claimed' = claimed
    BY <1>3, GoneIsRight DEF IInv
  <2>2. QED
    BY <1>1, <1>3, <2>1 DEF IInv, Shape, Issuance, Readings, Reading, Records, Record, Outlasts,
                         Caches, Cache, storeVars, localVars, threadVars
<1>4. QED
  BY <1>2, <1>3, RecordGone, StaleIsLate DEF RedeemStateful, RedeemStateless

(* Steps of a redemption that touch neither the store nor a cache.         *)
LEMMA VerifyKeeps ==
    ASSUME IInv, NEW t \in Threads, AcquireArgon(t) \/ VerifyArgon(t)
    PROVE  IInv'
<1>1. pc[t] # "idle" /\ UNCHANGED <<now, chal, storeVars, localVars, ghostVars>>
  BY DEF AcquireArgon, VerifyArgon
<1>2. Reading(t) /\ Shape /\ Readings
  BY <1>1 DEF IInv, Readings
<1>3. /\ pc' \in [Threads -> Places]
      /\ try' \in Tries
      /\ Readings'
  <2>1. CASE Finish(t)
    BY <1>1, <1>2, <2>1, FinishKeepsReadings
  <2>2. CASE pc' = [pc EXCEPT ![t] = "verify"] /\ try' = [try EXCEPT ![t].slot = TRUE]
    <3>1. /\ pc' \in [Threads -> Places]
          /\ try' \in Tries
      BY <1>2, <2>2 DEF Shape, Places
    <3>2. ASSUME NEW u \in Threads, pc'[u] # "idle" PROVE Reading(u)'
      <4>1. /\ try'[u].c = try[u].c /\ try'[u].p = try[u].p
            /\ try'[u].read = try[u].read /\ try'[u].at = try[u].at
            /\ pc'[u] = IF u = t THEN "verify" ELSE pc[u]
        BY <1>2, <2>2 DEF Shape
      <4>2. Reading(u)
        BY <1>1, <1>2, <3>2, <4>1 DEF Readings
      <4>3. QED
        BY <1>1, <4>1, <4>2 DEF Reading
    <3>3. QED
      BY <3>1, <3>2 DEF Readings
  <2>3. CASE Step(t, IF chal[try[t].c].kind = "stateful" THEN "cas" ELSE "spent")
    <3>1. chal[try[t].c].kind \in {"stateful", "stateless"}
      BY <1>2 DEF Reading, Shape
    <3>2. /\ pc' \in [Threads -> Places] /\ try' = try
          /\ Readings'
      <4>1. CASE chal[try[t].c].kind = "stateful"
        BY <1>1, <1>2, <2>3, <4>1, StepKeepsReadings DEF Places
      <4>2. CASE chal[try[t].c].kind = "stateless"
        BY <1>1, <1>2, <2>3, <4>2, StepKeepsReadings DEF Places
      <4>3. QED
        BY <3>1, <4>1, <4>2
    <3>3. QED
      BY <1>2, <3>2 DEF Shape
  <2>4. QED
    BY <2>1, <2>2, <2>3 DEF AcquireArgon, VerifyArgon, TurnedAway
<1>4. QED
  BY <1>1, <1>3 DEF IInv, Shape, Issuance, Records, Record, Outlasts, Caches, Cache,
                    NoFalseRefusal, storeVars, localVars, ghostVars

(* The local check refuses only what was claimed here.                     *)
LEMMA SpentGetKeeps ==
    ASSUME IInv, NEW t \in Threads, SpentGet(t)
    PROVE  IInv'
<1>1. pc[t] # "idle" /\ pc[t] = "spent" /\ UNCHANGED <<now, chal, storeVars, localVars>>
  BY DEF SpentGet
<1>2. Reading(t) /\ Shape /\ Readings /\ Caches
  BY <1>1 DEF IInv, Readings
<1>3. chal[try[t].c].kind = "stateless" /\ try[t].c \in Challenges /\ try[t].p \in Replicas
      /\ try[t].read \in Nat
  BY <1>1, <1>2 DEF Reading, Shape
<1>4. CASE Step(t, "cas") /\ UNCHANGED ghostVars
  <2>1. pc' \in [Threads -> Places] /\ try' = try /\ Readings'
    BY <1>1, <1>2, <1>4, StepKeepsReadings DEF Places
  <2>2. QED
    BY <1>1, <1>4, <2>1 DEF IInv, Shape, Issuance, Records, Record, Outlasts, Caches, Cache,
                        NoFalseRefusal, storeVars, localVars, ghostVars
<1>5. CASE Cached(try[t].p, try[t].c, try[t].read) /\ Finish(t) /\ Gone(try[t].c)
  <2>1. try[t].c \in claimed
    BY <1>2, <1>3, <1>5, CachedIsClaimed
  <2>2. NoFalseRefusal' /\ claimed' = claimed
    BY <1>5, <2>1, GoneIsRight DEF IInv
  <2>3. /\ pc' \in [Threads -> Places]
        /\ try' \in Tries
        /\ Readings'
    BY <1>1, <1>2, <1>5, FinishKeepsReadings
  <2>4. QED
    BY <1>1, <2>2, <2>3 DEF IInv, Shape, Issuance, Records, Record, Outlasts, Caches, Cache,
                        storeVars, localVars
<1>6. QED
  BY <1>4, <1>5 DEF SpentGet

(* A redemption leaves the store's marker behind, whatever it does next.   *)
LEMMA SpendKeeps ==
    ASSUME IInv, NEW t \in Threads, pc[t] # "idle", spends[try[t].c] = 0,
           NEW ttl \in Int, Spend(try[t].c, ttl),
           chal[try[t].c].kind = "stateless" => Outlasts(now + ttl, try[t].c),
           UNCHANGED <<now, chal, localVars>>,
           pc' \in [Threads -> Places],
           try' \in Tries,
           Readings'
    PROVE  IInv'
<1>1. try[t].c \in Challenges /\ chal[try[t].c].kind # "none"
  BY DEF IInv, Readings, Reading
<1>2. /\ entry' \in [Challenges -> [state : {"none", "issued", "spent"}, exp : Int]]
      /\ spends' \in [Challenges -> Nat]
      /\ claimed' = claimed \cup {try[t].c}
      /\ Records' /\ Caches'
  BY <1>1, SpendKeepsRecords DEF IInv, localVars
<1>3. Shape'
  BY <1>1, <1>2 DEF IInv, Shape, localVars
<1>4. Issuance' /\ NoFalseRefusal'
  BY DEF IInv, Issuance, NoFalseRefusal, Spend
<1>5. QED
  BY <1>2, <1>3, <1>4 DEF IInv

(* A step that neither spends nor claims, and refuses rightly if it does.  *)
LEMMA QuietKeeps ==
    ASSUME IInv, UNCHANGED <<now, chal, storeVars, localVars, claimed>>, NoFalseRefusal',
           pc' \in [Threads -> Places],
           try' \in Tries,
           Readings'
    PROVE  IInv'
BY DEF IInv, Shape, Issuance, Records, Record, Outlasts, Caches, Cache, storeVars, localVars
(* The swap of a record: only from its issued state, which no spend left.  *)
LEMMA CasStatefulKeeps ==
    ASSUME IInv, NEW t \in Threads, CasStateful(t)
    PROVE  IInv'
<1>1. pc[t] # "idle" /\ chal[try[t].c].kind = "stateful" /\ Finish(t) /\ UNCHANGED <<now, chal, localVars>>
  BY DEF CasStateful
<1>2. Reading(t) /\ Shape /\ Readings
  BY <1>1 DEF IInv, Readings
<1>3. pc' \in [Threads -> Places] /\ try' \in Tries /\ Readings'
  BY <1>1, <1>2, FinishKeepsReadings
<1>4. try[t].c \in Challenges
  BY <1>2 DEF Reading
<1>5. CASE entry[try[t].c].state = "issued" /\ Spend(try[t].c, TTL)
  <2>1. spends[try[t].c] = 0
    BY <1>4, <1>5 DEF IInv, Records, Record
  <2>2. QED
    BY <1>1, <1>3, <1>5, <2>1, SpendKeeps, ChallengeAssumption
<1>6. CASE /\ ~(Live(try[t].c) /\ entry[try[t].c].state = "issued")
           /\ Gone(try[t].c) /\ UNCHANGED storeVars
  <2>1. try[t].c \in claimed \/ ~InTime(try[t].c)
    BY <1>1, <1>4, <1>6, RecordGone
  <2>2. NoFalseRefusal' /\ claimed' = claimed
    BY <1>6, <2>1, GoneIsRight DEF IInv
  <2>3. QED
    BY <1>1, <1>3, <1>6, <2>2, QuietKeeps
<1>7. CASE UNCHANGED <<storeVars, ghostVars>>
  BY <1>1, <1>3, <1>7, QuietKeeps DEF IInv, NoFalseRefusal, ghostVars
<1>8. QED
  BY <1>5, <1>6, <1>7 DEF CasStateful

(* The creation of a marker: never a second time.                          *)
LEMMA CasStatelessKeeps ==
    ASSUME IInv, NEW t \in Threads, CasStateless(t)
    PROVE  IInv'
<1> DEFINE c == try[t].c
           ttl == MarkerTTL(try[t].read, chal[c].issued)
<1>1. pc[t] # "idle" /\ chal[c].kind = "stateless" /\ UNCHANGED <<now, chal, localVars>>
  BY DEF CasStateless
<1>2. Reading(t) /\ Shape /\ Readings /\ Records
  BY <1>1 DEF IInv, Readings
<1>3. c \in Challenges /\ try[t].read \in Nat /\ chal[c].issued \in Nat
  BY <1>2 DEF Reading, Shape
<1>4. ASSUME \/ Step(t, "claim") \/ Step(t, "local") \/ Finish(t)
      PROVE  pc' \in [Threads -> Places] /\ try' \in Tries /\ Readings'
  <2>1. CASE Step(t, "claim")
    BY <1>1, <1>2, <2>1, StepKeepsReadings DEF Places, Shape
  <2>2. CASE Step(t, "local")
    BY <1>1, <1>2, <2>2, StepKeepsReadings DEF Places, Shape
  <2>3. CASE Finish(t)
    BY <1>1, <1>2, <2>3, FinishKeepsReadings
  <2>4. QED
    BY <1>4, <2>1, <2>2, <2>3
<1>5. CASE /\ ~Live(c) /\ Spend(c, ttl)
           /\ Step(t, "claim") \/ Step(t, "local") \/ Finish(t)
  <2>1. spends[c] = 0
    BY <1>1, <1>2, <1>5, MarkerAlive
  <2>2. Outlasts(now + ttl, c)
    BY <1>1, <1>2, MarkerOutlasts
  <2>3. ttl \in Int
    BY <1>3, ChallengeAssumption DEF MarkerTTL
  <2> HIDE DEF ttl
  <2>4. QED
    BY <1>1, <1>4, <1>5, <2>1, <2>2, <2>3, SpendKeeps
<1>6. CASE Live(c) /\ Gone(c) /\ Finish(t) /\ UNCHANGED storeVars
  <2>1. c \in claimed
    BY <1>1, <1>2, <1>3, <1>6 DEF Records, Record, Live
  <2>2. NoFalseRefusal' /\ claimed' = claimed
    BY <1>6, <2>1, GoneIsRight DEF IInv
  <2>3. QED
    BY <1>1, <1>4, <1>6, <2>2, QuietKeeps
<1>7. CASE (Step(t, "local") \/ Finish(t)) /\ UNCHANGED <<storeVars, ghostVars>>
  BY <1>1, <1>4, <1>7, QuietKeeps DEF IInv, NoFalseRefusal, ghostVars
<1>8. QED
  BY <1>5, <1>6, <1>7 DEF CasStateless, CasFails

(* The claims in the replica's own cache.                                  *)
LEMMA ClaimKeeps ==
    ASSUME IInv, NEW t \in Threads, LocalClaim(t) \/ SharedClaim(t)
    PROVE  IInv'
<1> DEFINE c == try[t].c
           p == try[t].p
<1>1. pc[t] \in {"local", "claim"} /\ Finish(t) /\ UNCHANGED <<now, chal, storeVars>>
  BY DEF LocalClaim, SharedClaim
<1>2. Reading(t) /\ Shape /\ Readings /\ Caches /\ Records
  BY <1>1 DEF IInv, Readings
<1>3. c \in Challenges /\ p \in Replicas /\ try[t].read \in Nat /\ chal[c].kind = "stateless"
  BY <1>1, <1>2 DEF Reading, Shape
<1>4. pc' \in [Threads -> Places] /\ try' \in Tries /\ Readings'
  BY <1>1, <1>2, FinishKeepsReadings
<1>5. CASE /\ Claimable(p, c, try[t].read)
           /\ Claim(p, c, Expiry(t), 0) \/ Claim(p, c, Expiry(t), 1)
           /\ UNCHANGED wronged
  <2>1. /\ spent' \in [Replicas -> [Challenges -> Int]]
        /\ failOpen' \in [Replicas -> [Challenges -> Nat]]
        /\ claimed' = claimed \cup {c}
        /\ Caches'
    BY <1>1, <1>2, <1>3, <1>5, ClaimKeepsCaches
  <2>2. Records'
    BY <1>1, <1>2, <1>3, <2>1, ClaimKeepsRecords DEF storeVars
  <2>3. Shape'
    BY <1>1, <1>2, <1>3, <1>4, <2>1 DEF Shape, storeVars
  <2>4. QED
    BY <1>1, <1>4, <1>5, <2>1, <2>2, <2>3 DEF IInv, Issuance, NoFalseRefusal
<1>6. CASE ~Claimable(p, c, try[t].read) /\ Gone(c) /\ UNCHANGED localVars
  <2>1. c \in claimed
    BY <1>2, <1>3, <1>6, CachedIsClaimed DEF Claimable
  <2>2. NoFalseRefusal' /\ claimed' = claimed
    BY <1>6, <2>1, GoneIsRight DEF IInv
  <2>3. QED
    BY <1>1, <1>4, <1>6, <2>2, QuietKeeps
<1>7. CASE UNCHANGED <<localVars, claimed, wronged>>
  BY <1>1, <1>4, <1>7, QuietKeeps DEF IInv, NoFalseRefusal
<1>8. QED
  BY <1>5, <1>6, <1>7 DEF LocalClaim, SharedClaim

(* Time passes only while no redemption is late.                           *)
LEMMA TickKeeps ==
    ASSUME IInv, Tick
    PROVE  IInv'
<1> USE DEF IInv
<1>1. now \in Nat /\ now' = now + 1
      /\ UNCHANGED <<chal, storeVars, localVars, threadVars, ghostVars>>
  BY DEF Tick, Shape
<1>2. Shape'
  BY <1>1 DEF Shape, storeVars, localVars, threadVars, ghostVars
<1>3. Issuance'
  <2>1. \A c \in Challenges : chal[c].at \in Nat
    BY DEF Shape
  <2>2. QED
    BY <1>1, <2>1 DEF Issuance
<1>4. Readings'
  <2>1. ASSUME NEW t \in Threads, pc'[t] # "idle" PROVE Reading(t)'
    <3>1. Reading(t) /\ try[t].at \in Nat /\ now < try[t].at + MaxStall
      BY <1>1, <2>1 DEF Readings, Tick, Shape, threadVars
    <3>2. QED
      BY <1>1, <3>1, ChallengeAssumption DEF Reading, threadVars
  <2>2. QED
    BY <2>1 DEF Readings
<1>5. Records' /\ Caches' /\ NoFalseRefusal'
  BY <1>1 DEF Records, Record, Outlasts, Caches, Cache, NoFalseRefusal, storeVars, localVars, ghostVars
<1>6. QED
  BY <1>2, <1>3, <1>4, <1>5

(* A restart forgets claims and the tokens minted on them together.        *)
LEMMA RestartKeeps ==
    ASSUME IInv, NEW p \in Replicas, Restart(p)
    PROVE  IInv'
<1> USE DEF IInv
<1>1. UNCHANGED <<now, chal, storeVars, ghostVars>>
  BY DEF Restart
<1>2. /\ spent' = [spent EXCEPT ![p] = [c \in Challenges |-> 0]]
      /\ failOpen' = [failOpen EXCEPT ![p] = [c \in Challenges |-> 0]]
      /\ pc' = [t \in Threads |-> IF try[t].p = p THEN "idle" ELSE pc[t]]
      /\ try' = [t \in Threads |-> IF try[t].p = p THEN NoTry ELSE try[t]]
  BY DEF Restart
<1>3. spent' \in [Replicas -> [Challenges -> Int]] /\ failOpen' \in [Replicas -> [Challenges -> Nat]]
  BY <1>2 DEF Shape
<1>4. pc' \in [Threads -> Places] /\ try' \in Tries
  BY <1>2 DEF Shape, Places, NoTry
<1>5. Shape'
  BY <1>1, <1>3, <1>4 DEF Shape, storeVars, ghostVars
<1>6. Readings'
  <2>1. ASSUME NEW t \in Threads, pc'[t] # "idle" PROVE Reading(t)'
    <3>1. try'[t] = try[t] /\ pc'[t] = pc[t]
      BY <1>2, <2>1
    <3>2. QED
      BY <1>1, <2>1, <3>1 DEF Readings, Reading
  <2>2. QED
    BY <2>1 DEF Readings
<1>7. Caches'
  <2>1. ASSUME NEW q \in Replicas, NEW c \in Challenges PROVE Cache(q, c)'
    <3>1. \/ spent'[q][c] = 0 /\ failOpen'[q][c] = 0
          \/ spent'[q][c] = spent[q][c] /\ failOpen'[q][c] = failOpen[q][c]
      BY <1>2 DEF Shape
    <3>2. QED
      BY <1>1, <3>1 DEF Caches, Cache, ghostVars
  <2>2. QED
    BY <2>1 DEF Caches
<1>8. Issuance' /\ Records' /\ NoFalseRefusal'
  BY <1>1 DEF Issuance, Records, Record, Outlasts, NoFalseRefusal, storeVars, ghostVars
<1>9. QED
  BY <1>5, <1>6, <1>7, <1>8

-----------------------------------------------------------------------------
(* The theorems                                                            *)

LEMMA InitIInv == Init => IInv
<1> SUFFICES ASSUME Init PROVE IInv
  OBVIOUS
<1>1. Shape
  BY ChallengeAssumption DEF Init, Shape, Unissued, NoEntry, NoTry, Places
<1>2. Issuance /\ Readings /\ Records /\ Caches /\ NoFalseRefusal
  BY DEF Init, Issuance, Readings, Records, Record, Caches, Cache, NoFalseRefusal, Unissued, NoEntry
<1>3. QED
  BY <1>1, <1>2 DEF IInv

LEMMA NextIInv == IInv /\ [Next]_vars => IInv'
<1> SUFFICES ASSUME IInv, [Next]_vars PROVE IInv'
  OBVIOUS
<1>1. CASE Next
  BY <1>1, IssueKeeps, RedeemKeeps, VerifyKeeps, SpentGetKeeps, CasStatefulKeeps, CasStatelessKeeps,
     ClaimKeeps, TickKeeps, RestartKeeps DEF Next, Redeem
<1>2. CASE UNCHANGED vars
  BY <1>2 DEF vars, IInv, Shape, Issuance, Readings, Reading, Records, Record, Outlasts, Caches, Cache,
              NoFalseRefusal, storeVars, localVars, threadVars, ghostVars
<1>3. QED
  BY <1>1, <1>2

LEMMA AlwaysIInv == Spec => []IInv
BY InitIInv, NextIInv, PTL DEF Spec

(* The store accepts every challenge at most once, for any number of       *)
(* replicas whose clocks differ by less than what statelessSkew leaves     *)
(* after the longest redemption (MarkerTTL, redeemStateless, Redeem).      *)
THEOREM SpentOnce == Spec => []SingleSpend
<1>1. IInv => SingleSpend
  BY DEF IInv, Records, Record, SingleSpend
<1>2. QED
  BY <1>1, AlwaysIInv, PTL

(* A process mints one token at most on its own claim, whatever the store  *)
(* does and whatever its clock shows (tokenCache.claim).                   *)
THEOREM ClaimedOnce == Spec => []FailOpenOnce
<1>1. IInv => FailOpenOnce
  BY DEF IInv, Caches, Cache, FailOpenOnce
<1>2. QED
  BY <1>1, AlwaysIInv, PTL

(* No client that solves in time is refused a challenge that nobody has    *)
(* claimed (the freshness check, the record's lifetime, the local cache).  *)
THEOREM NobodyWronged == Spec => []NoFalseRefusal
<1>1. IInv => NoFalseRefusal
  BY DEF IInv
<1>2. QED
  BY <1>1, AlwaysIInv, PTL
=============================================================================

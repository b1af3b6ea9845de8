---------------------------- MODULE RedisProofs ----------------------------
(***************************************************************************)
(* The Redis backend, for every set of calls, blocks, instances and        *)
(* limits, every page size, retry count and length of a run: what the      *)
(* index covers, what a complete scan of it is worth, what a late command  *)
(* or its retry can still do, and what becomes of windows, votes and read  *)
(* expiries.                                                               *)
(***************************************************************************)
EXTENDS Redis, TLAPS, FiniteSetTheorems, WellFoundedInduction

Entries == [val : Nat, dl : Int]
Commands == [id : 1..MaxCalls, try : Nat, since : Nat, c : Calls, old : Nat, guard : Nat]
Waits == [stage : {"wait"}, since : Nat, cmd : Commands]
Replies == [stage : {"got"}, since : Nat, ttl : Int, dl : Int]

\* The functions from a subset of S to T.
Partial(S, T) == UNION {[D -> T] : D \in SUBSET S}

ActiveScans ==
    [stage : {"page", "values", "heal", "end"}, limit : Nat, start : Nat, seen : Nat,
     kvs : Partial(Blocks, Nat), complete : BOOLEAN, batch : SUBSET Blocks, last : BOOLEAN]
DoneScans == [stage : {"done"}, complete : BOOLEAN, missed : SUBSET Blocks]

\* The commands for votes.
Posts == [id : Nat, try : Nat, since : Nat, inst : Insts, level : 0..2, ttl : Nat]

ServerOK ==
    /\ now \in Nat /\ now <= MaxNow
    /\ kv \in [Keys -> Entries]
    /\ index \in Partial(Blocks, Int)
    /\ gen \in Nat
ClientOK ==
    /\ wire \subseteq Commands
    /\ client \in [1..MaxCalls -> {Idle} \cup Waits \cup Replies]
    /\ calls \in Nat /\ votes \in Nat /\ calls + votes <= MaxCalls
    /\ timeouts \in Nat /\ pokes \in Nat
    /\ ran \in [1..MaxCalls -> Nat]
    /\ slack \in BOOLEAN
ScanOK ==
    /\ scan \in {Idle} \cup ActiveScans \cup DoneScans
    /\ scans \in Nat
VotesOK ==
    /\ zset \in [1..2 -> Partial(Insts, Nat)]
    /\ zexp \in [1..2 -> Nat]
    /\ mine \in [Insts -> [level : 0..2, dl : Nat]]
    /\ posts \in SUBSET Posts
    /\ asking \in [Insts -> {Idle} \cup Posts]
    /\ wish \in [Insts -> 0..2] /\ doubt \in [Insts -> BOOLEAN]
TypeOK == ServerOK /\ ClientOK /\ ScanOK /\ VotesOK

----------------------------------------------------------------------------
\* A function from a subset of S to T.
LEMMA PartialIntro ==
    ASSUME NEW S, NEW T, NEW D \in SUBSET S, NEW f \in [D -> T]
    PROVE  f \in Partial(S, T)
  BY DEF Partial

\* ... and what it is to be one.
LEMMA PartialElim ==
    ASSUME NEW S, NEW T, NEW f \in Partial(S, T)
    PROVE  DOMAIN f \in SUBSET S /\ f \in [DOMAIN f -> T]
<1>1. PICK D \in SUBSET S : f \in [D -> T]
  BY DEF Partial
<1> QED BY <1>1

\* pexpireArg: a TTL in milliseconds, positive for a positive TTL.
LEMMA PexpireType ==
    ASSUME NEW ttl \in Int
    PROVE  pexpireArg(ttl) \in Nat /\ (ttl > 0 => pexpireArg(ttl) > 0)
  BY RedisAssumption DEF pexpireArg

\* deadlineMillis keeps the sign of a deadline: a window with a deadline is never
\* taken for one without.
LEMMA DeadlineType ==
    ASSUME NEW d \in Int
    PROVE  /\ deadlineMillis(d) \in Int
           /\ d > 0 => deadlineMillis(d) > 0
           /\ d < 0 => deadlineMillis(d) = -1
<1> DEFINE x == d + Nanos - 1
<1>1. x \div Nanos \in Int
  BY RedisAssumption
<1>2. \A a \in Int, b \in Nat \ {0} : a >= b => a \div b >= 1
  OBVIOUS
<1>3. ASSUME d > 0 PROVE x \div Nanos > 0
  <2>1. x \in Int /\ Nanos \in Nat \ {0} /\ x >= Nanos
    BY <1>3, RedisAssumption
  <2> HIDE DEF x
  <2>2. x \div Nanos >= 1
    BY <2>1, <1>2
  <2> QED BY <2>2, <1>1
<1> QED BY <1>1, <1>3 DEF deadlineMillis

\* What GET and PTTL read of a key.
LEMMA EntryType ==
    ASSUME ServerOK, NEW k \in Keys
    PROVE  /\ kv[k] \in Entries /\ GET(k) \in Entries
           /\ Exists(kv[k]) => GET(k) = kv[k] /\ GET(k) # None
           /\ ~Exists(kv[k]) => GET(k) = None
           /\ PTTL(GET(k)) \in Int
  BY DEF ServerOK, Entries, GET, None, Entry, Nil, Exists, PTTL

\* What SET with PX leaves: never an absent key.
LEMMA SetPXType ==
    ASSUME ServerOK, NEW v \in Nat, NEW ttl \in Int
    PROVE  /\ SetPX(v, ttl) \in Entries /\ SetPX(v, ttl).val = v /\ SetPX(v, ttl) # None
           /\ SetPX(v, ttl).dl = IF ttl > 0 THEN now + ttl ELSE 0
           /\ SetPX(v, ttl).dl >= 0
  BY DEF ServerOK, Entries, SetPX, Entry, None, Nil

\* The script of each operation.
LEMMA RunOf ==
    ASSUME NEW r, r.c \in Calls
    PROVE  /\ r.c.op = "Set" => Run(r) = SetScript(r)
           /\ r.c.op = "Delete" => Run(r) = DelScript(r)
           /\ r.c.op = "CompareAndSwap" => Run(r) = casScript(r)
           /\ r.c.op = "CompareAndDelete" => Run(r) = cadScript(r)
           /\ r.c.op = "IncrByDeadline" => Run(r) = incrByDeadlineScript(r)
           /\ r.c.op = "CommitBlock" => Run(r) = commitBlockScript(r)
           /\ r.c.op = "CommitEvent" => Run(r) = commitEventScript(r)
           /\ r.c.op = "CommitUnblock" => Run(r) = commitUnblockScript(r)
           /\ r.c.op = "GetWithExpiry" => Run(r) = Unapplied
  BY DEF Run

\* The offense counter, as Count writes it back, counts from one.
LEMMA CountType ==
    ASSUME ServerOK, NEW c, c.ttl \in Int
    PROVE  Count(c) \in Entries /\ Count(c).val > 0
<1>1. "ctr" \in Keys
  BY DEF Keys
<1>2. GET("ctr") \in Entries /\ PTTL(GET("ctr")) \in Int
  BY <1>1, EntryType
<1>3. pexpireArg(c.ttl) \in Int
  BY PexpireType
<1>4. GET("ctr").val + 1 \in Nat /\ GET("ctr").val + 1 > 0
  BY <1>2 DEF Entries
<1> QED BY <1>2, <1>3, <1>4, SetPXType DEF Count

\* The base and the cap of the ladder are positive, whatever the configuration.
LEMMA BoundType ==
    ASSUME NEW c \in Calls, c.op = "CommitBlock"
    PROVE  BaseTTL(c) \in Nat \ {0} /\ CapTTL(c) \in Nat \ {0}
<1>1. c.base \in Int /\ c.cap \in Int
  BY RedisAssumption
<1>2. (IF c.base <= 0 THEN DefaultBase ELSE c.base) \in Int
      /\ (IF c.base <= 0 THEN DefaultBase ELSE c.base) > 0
      /\ (IF c.cap <= 0 THEN DefaultCap ELSE c.cap) \in Int
      /\ (IF c.cap <= 0 THEN DefaultCap ELSE c.cap) > 0
  BY <1>1, RedisAssumption
<1> QED BY <1>2, PexpireType DEF BaseTTL, CapTTL

\* A set of positive numbers up to n has a least one: induction up to n.
LEMMA LeastOf ==
    ASSUME NEW n \in Nat, NEW B \in SUBSET (1..n), B # {}
    PROVE  \E m \in B : \A k \in B : m <= k
<1> DEFINE F == {1..b : b \in B}
<1>1. IsFiniteSet(1..n)
  BY FS_Interval
<1>2. IsWellFoundedOn(StrictSubsetOrdering(1..n), SUBSET (1..n))
  BY <1>1, FS_StrictSubsetOrderingWellFounded, FS_FiniteSubsetsOfFinite
<1>3. F \subseteq SUBSET (1..n) /\ F # {}
  <2>1. PICK b \in B : TRUE
    OBVIOUS
  <2>2. 1..b \in F
    OBVIOUS
  <2>3. ASSUME NEW c \in B PROVE 1..c \in SUBSET (1..n)
    OBVIOUS
  <2> QED BY <2>2, <2>3
<1>4. PICK x \in F : \A y \in F : ~ (<<y, x>> \in StrictSubsetOrdering(1..n))
  BY <1>2, <1>3, WFMin
<1>5. PICK m \in B : x = 1..m
  BY <1>4
<1>6. ASSUME NEW k \in B, k < m PROVE FALSE
  <2>1. 1..k \in F /\ 1..k \subseteq 1..m /\ 1..k # 1..m /\ 1..k \subseteq 1..n /\ 1..m \subseteq 1..n
    BY <1>5, <1>6
  <2>2. <<1..k, 1..m>> \in StrictSubsetOrdering(1..n)
    BY <2>1 DEF StrictSubsetOrdering
  <2> QED BY <1>4, <1>5, <2>1, <2>2
<1> QED BY <1>6

\* t is the TTL after each of m turns of the loop.
Climb(base, cap, m, t) == t = [n \in 1..m |-> IF n = 1 THEN base
            ELSE IF t[n - 1] >= cap THEN t[n - 1]
            ELSE IF t[n - 1] > cap \div 2 THEN cap ELSE 2 * t[n - 1]]

\* Rungs is a choice among such t.
LEMMA RungsChoice ==
    ASSUME NEW base, NEW cap, NEW m
    PROVE  Rungs(base, cap, m) = CHOOSE t : Climb(base, cap, m, t)
  BY DEF Rungs, Climb

\* There is one, and its TTLs are numbers: by the least m for which there is none.
LEMMA ClimbExists ==
    ASSUME NEW base \in Nat, NEW cap \in Nat, NEW m \in Nat
    PROVE  \E t \in [1..m -> Nat] : Climb(base, cap, m, t)
<1> DEFINE Bad == {k \in 1..m : ~ \E t \in [1..k -> Nat] : Climb(base, cap, k, t)}
<1>1. \E t \in [1..0 -> Nat] : Climb(base, cap, 0, t)
  <2> DEFINE e == [n \in 1..0 |-> 0]
  <2>1. Climb(base, cap, 0, e)
    BY DEF Climb
  <2> QED BY <2>1
<1>2. SUFFICES ASSUME Bad # {} PROVE FALSE
  <2>1. CASE m = 0
    BY <1>1, <2>1
  <2>2. CASE m # 0
    <3>1. m \in 1..m
      BY <2>2
    <3> QED BY <3>1
  <2> QED BY <2>1, <2>2
<1>3. PICK k \in Bad : \A j \in Bad : k <= j
  <2> HIDE DEF Bad
  <2>1. Bad \in SUBSET (1..m)
    BY DEF Bad
  <2> QED BY <1>2, <2>1, LeastOf
<1>4. PICK t \in [1..(k-1) -> Nat] : Climb(base, cap, k-1, t)
  <2>1. CASE k = 1
    <3>1. k - 1 = 0
      BY <2>1
    <3> QED BY <1>1, <3>1
  <2>2. CASE k # 1
    <3>1. k - 1 \in 1..m /\ k - 1 \notin Bad
      BY <1>3, <2>2
    <3> QED BY <3>1
  <2> QED BY <2>1, <2>2
<1> DEFINE top == IF k = 1 THEN base
            ELSE IF t[k - 1] >= cap THEN t[k - 1]
            ELSE IF t[k - 1] > cap \div 2 THEN cap ELSE 2 * t[k - 1]
<1> DEFINE u == [n \in 1..k |-> IF n = k THEN top ELSE t[n]]
<1>5. top \in Nat
  BY <1>4
<1>6. u \in [1..k -> Nat] /\ (\A n \in 1..(k-1) : u[n] = t[n]) /\ u[k] = top
  BY <1>4, <1>5
<1>7. \A n \in 1..(k-1) : t[n] = IF n = 1 THEN base
            ELSE IF t[n - 1] >= cap THEN t[n - 1]
            ELSE IF t[n - 1] > cap \div 2 THEN cap ELSE 2 * t[n - 1]
  BY <1>4 DEF Climb
<1>8. \A n \in 1..k : u[n] = IF n = 1 THEN base
            ELSE IF u[n - 1] >= cap THEN u[n - 1]
            ELSE IF u[n - 1] > cap \div 2 THEN cap ELSE 2 * u[n - 1]
  <2> HIDE DEF u
  <2> SUFFICES ASSUME NEW n \in 1..k PROVE u[n] = IF n = 1 THEN base
            ELSE IF u[n - 1] >= cap THEN u[n - 1]
            ELSE IF u[n - 1] > cap \div 2 THEN cap ELSE 2 * u[n - 1]
    OBVIOUS
  <2>1. CASE n = k
    <3>1. k # 1 => u[k-1] = t[k-1]
      BY <1>6
    <3> QED BY <2>1, <1>6, <3>1
  <2>2. CASE n # k
    <3>1. n \in 1..(k-1) /\ (n # 1 => n - 1 \in 1..(k-1))
      BY <2>2
    <3> QED BY <3>1, <1>6, <1>7
  <2> QED BY <2>1, <2>2
<1>9. Climb(base, cap, k, u)
  <2> HIDE DEF u
  <2> QED BY <1>6, <1>8 DEF Climb
<1> QED BY <1>6, <1>9

\* So Rungs is one.
LEMMA RungsClimb ==
    ASSUME NEW base \in Nat, NEW cap \in Nat, NEW m \in Nat
    PROVE  Climb(base, cap, m, Rungs(base, cap, m))
<1>1. \E t : Climb(base, cap, m, t)
  BY ClimbExists
<1> QED BY <1>1, RungsChoice

\* No turn of the loop falls below what both base and cap reach, and none leaves
\* the numbers: by the least turn that does.
LEMMA RungsBound ==
    ASSUME NEW base \in Nat, NEW cap \in Nat, NEW m \in Nat \ {0}, NEW low \in Nat,
           low <= base, low <= cap
    PROVE  Rungs(base, cap, m)[m] \in Nat /\ low <= Rungs(base, cap, m)[m]
<1> DEFINE t == Rungs(base, cap, m)
<1>1. \A n \in 1..m : t[n] = IF n = 1 THEN base
            ELSE IF t[n - 1] >= cap THEN t[n - 1]
            ELSE IF t[n - 1] > cap \div 2 THEN cap ELSE 2 * t[n - 1]
  <2>1. Climb(base, cap, m, t)
    BY RungsClimb
  <2> HIDE DEF t
  <2> QED BY <2>1 DEF Climb
<1> HIDE DEF t
<1> DEFINE Bad == {k \in 1..m : ~ (t[k] \in Nat /\ low <= t[k])}
<1>2. SUFFICES ASSUME Bad # {} PROVE FALSE
  BY DEF t
<1>3. PICK k \in Bad : \A j \in Bad : k <= j
  <2> HIDE DEF Bad
  <2>1. Bad \in SUBSET (1..m)
    BY DEF Bad
  <2> QED BY <1>2, <2>1, LeastOf
<1>4. k # 1 => t[k-1] \in Nat /\ low <= t[k-1]
  BY <1>3
<1> QED BY <1>1, <1>3, <1>4

\* The TTL of a block is positive, at most the cap, and at least whatever both the
\* base and the cap are at least.
LEMMA LadderBound ==
    ASSUME NEW c \in Calls, c.op = "CommitBlock", NEW n \in Nat \ {0}
    PROVE  /\ Ladder(c, n) \in Nat \ {0} /\ Ladder(c, n) <= CapTTL(c)
           /\ \A low \in Nat : low <= BaseTTL(c) /\ low <= CapTTL(c) => low <= Ladder(c, n)
<1> DEFINE b == BaseTTL(c)
           k == CapTTL(c)
           t == Rungs(b, k, n)[n]
<1>1. b \in Nat \ {0} /\ k \in Nat \ {0}
  BY BoundType
<1> HIDE DEF b, k
<1>2. t \in Nat /\ \A low \in Nat : low <= b /\ low <= k => low <= t
  BY <1>1, RungsBound
<1>3. Ladder(c, n) = IF t > k THEN k ELSE t
  BY DEF Ladder, b, k
<1> HIDE DEF t
<1>4. 1 <= t
  BY <1>1, <1>2
<1>5. Ladder(c, n) \in Nat \ {0} /\ Ladder(c, n) <= k
      /\ \A low \in Nat : low <= b /\ low <= k => low <= Ladder(c, n)
  BY <1>1, <1>2, <1>3, <1>4
<1> QED BY <1>5 DEF b, k

\* What a command leaves in the keyspace: it is typed; it writes the block it is
\* about only if it indexes or drops it, and no other block.
LEMMA RunEffect ==
    ASSUME ServerOK, NEW r \in Commands
    PROVE  /\ Run(r).kv \in [Keys -> Entries] /\ Run(r).applied \in BOOLEAN
           /\ \A k \in Blocks \ {r.c.key} : Run(r).kv[k] = kv[k]
           /\ Drops(r.c, Run(r)) => Run(r).kv[r.c.key] = None
           /\ r.c.key \in Blocks /\ ~Indexes(r.c, Run(r)) /\ ~Drops(r.c, Run(r))
                 => Run(r).kv[r.c.key] = kv[r.c.key]
<1> DEFINE c == r.c
           key == r.c.key
<1> USE DEF Effect
<1>1. c \in Calls /\ r.id \in Nat /\ key \in Keys
      /\ {"hold", "gen", "ctr", "win"} \cap Blocks = {} /\ {"hold", "gen", "ctr", "win"} \subseteq Keys
  <2>1. c \in Calls /\ r.id \in Nat
    BY DEF Commands
  <2> QED BY <2>1, RedisAssumption DEF Keys
<1>2. kv \in [Keys -> Entries] /\ None \in Entries
  BY DEF ServerOK, None, Entry, Entries, Nil
<1>3. ASSUME NEW e \in Entries PROVE [kv EXCEPT ![key] = e] \in [Keys -> Entries]
  BY <1>1, <1>2
<1>4. CASE c.op = "Set"
  <2>1. c.ttl \in Int
    BY <1>1, <1>4, RedisAssumption
  <2>2. SetPX(r.id, pexpireArg(c.ttl)) \in Entries
    BY <1>1, <2>1, PexpireType, SetPXType
  <2>3. Run(r) = [kv |-> [kv EXCEPT ![key] = SetPX(r.id, pexpireArg(c.ttl))], applied |-> TRUE]
    BY <1>1, <1>4, RunOf DEF SetScript
  <2> QED BY <1>1, <1>2, <1>3, <1>4, <2>2, <2>3 DEF Indexes, Drops, WritesBlock, DropsBlock
<1>5. CASE c.op = "Delete"
  <2>1. Run(r) = [kv |-> [kv EXCEPT ![key] = None], applied |-> Exists(kv[key])]
    BY <1>1, <1>5, RunOf DEF DelScript
  <2>2. Exists(kv[key]) \in BOOLEAN
    BY DEF Exists
  <2> QED BY <1>1, <1>2, <1>3, <1>5, <2>1, <2>2 DEF Indexes, Drops, WritesBlock, DropsBlock
<1>6. CASE c.op = "CompareAndSwap"
  <2>1. c.ttl \in Int
    BY <1>1, <1>6, RedisAssumption
  <2>2. SetPX(r.id, pexpireArg(c.ttl)) \in Entries
    BY <1>1, <2>1, PexpireType, SetPXType
  <2> DEFINE K == [kv EXCEPT ![key] = SetPX(r.id, pexpireArg(c.ttl))]
  <2>3. \/ Run(r).kv = K /\ Run(r).applied = TRUE
        \/ Run(r).kv = kv /\ Run(r).applied = FALSE
    BY <1>1, <1>6, RunOf DEF casScript, Unapplied
  <2>4. /\ K \in [Keys -> Entries] /\ \A k \in Blocks \ {key} : K[k] = kv[k]
    BY <1>1, <1>2, <1>3, <1>6, <2>2, <2>3
  <2> HIDE DEF K
  <2> QED BY <1>1, <1>2, <1>3, <1>6, <2>2, <2>3, <2>4 DEF Indexes, Drops, WritesBlock, DropsBlock
<1>7. CASE c.op = "CompareAndDelete"
  <2> DEFINE K == [kv EXCEPT ![key] = None]
  <2>1. \/ Run(r).kv = K /\ Run(r).applied = TRUE
        \/ Run(r).kv = kv /\ Run(r).applied = FALSE
    BY <1>1, <1>7, RunOf DEF cadScript, Unapplied
  <2>2. /\ K \in [Keys -> Entries] /\ \A k \in Blocks \ {key} : K[k] = kv[k]
        /\ K[key] = None
    BY <1>1, <1>2, <1>3, <1>7, <2>1
  <2> HIDE DEF K
  <2> QED BY <1>1, <1>2, <1>3, <1>7, <2>1, <2>2 DEF Indexes, Drops, WritesBlock, DropsBlock
<1>8. CASE c.op = "IncrByDeadline"
  <2> DEFINE d == deadlineMillis(c.deadline)
             e == IF GET(key) = None THEN Entry(c.delta, IF d > 0 THEN d ELSE 0)
                  ELSE Entry(GET(key).val + c.delta, GET(key).dl)
  <2>1. c.delta \in Nat /\ c.deadline \in Int /\ key \notin Blocks
    BY <1>1, <1>8, RedisAssumption
  <2>2. e \in Entries
    <3>1. GET(key) \in Entries /\ d \in Int
      BY <1>1, <2>1, EntryType, DeadlineType
    <3> QED BY <2>1, <3>1 DEF Entry, Entries
  <2> DEFINE K == [kv EXCEPT ![key] = e]
  <2>3. \/ Run(r).kv = K /\ Run(r).applied = TRUE
        \/ Run(r).kv = kv /\ Run(r).applied = FALSE
    BY <1>1, <1>8, RunOf DEF incrByDeadlineScript, Unapplied
  <2> HIDE DEF e
  <2>4. /\ K \in [Keys -> Entries] /\ \A k \in Blocks \ {key} : K[k] = kv[k]
    BY <1>1, <1>2, <1>3, <1>8, <2>1, <2>2, <2>3
  <2> HIDE DEF K
  <2> QED BY <1>1, <1>2, <1>3, <1>8, <2>1, <2>2, <2>3, <2>4 DEF Indexes, Drops, WritesBlock, DropsBlock
<1>9. CASE c.op = "CommitBlock"
  <2> DEFINE l == Ladder(c, Count(c).val)
             e == SetPX(r.id, l)
  <2>1. key \in Blocks /\ c.ttl \in Int
    BY <1>1, <1>9, RedisAssumption
  <2>2. Count(c) \in Entries /\ Count(c).val > 0
    BY <2>1, CountType
  <2>3. l \in Int
    BY <1>1, <1>9, <2>2, LadderBound DEF Entries
  <2>4. e \in Entries
    BY <1>1, <2>3, SetPXType
  <2> DEFINE K1 == [kv EXCEPT !["ctr"] = Count(c)]
             K == [K1 EXCEPT ![key] = e]
  <2>5. \/ Run(r).kv = K /\ Run(r).applied = TRUE
        \/ Run(r).kv = kv /\ Run(r).applied = FALSE
    BY <1>1, <1>9, RunOf DEF commitBlockScript, Unapplied
  <2> HIDE DEF e, l
  <2>6. /\ K \in [Keys -> Entries] /\ \A k \in Blocks \ {key} : K[k] = kv[k]
    <3>1. K1 \in [Keys -> Entries] /\ \A k \in Blocks : K1[k] = kv[k]
      BY <1>1, <1>2, <2>2
    <3> HIDE DEF K1
    <3> QED BY <1>1, <1>9, <2>1, <2>4, <3>1
  <2> HIDE DEF K
  <2> QED BY <1>1, <1>2, <1>9, <2>1, <2>2, <2>4, <2>5, <2>6 DEF Indexes, Drops, WritesBlock, DropsBlock
<1>10. CASE c.op = "CommitEvent"
  <2>1. c.ttl \in Int
    BY <1>1, <1>10, RedisAssumption
  <2>2. Count(c) \in Entries
    BY <2>1, CountType
  <2> DEFINE K == [kv EXCEPT !["ctr"] = Count(c)]
  <2>3. \/ Run(r).kv = K /\ Run(r).applied = TRUE
        \/ Run(r).kv = kv /\ Run(r).applied = FALSE
    BY <1>1, <1>10, RunOf DEF commitEventScript, Unapplied
  <2>4. /\ K \in [Keys -> Entries] /\ \A k \in Blocks \ {key} : K[k] = kv[k]
        /\ key \in Blocks => K[key] = kv[key]
    BY <1>1, <1>2, <1>10, <2>2, <2>3
  <2> HIDE DEF K
  <2> QED BY <1>1, <1>2, <1>10, <2>2, <2>3, <2>4 DEF Indexes, Drops, WritesBlock, DropsBlock
<1>11. CASE c.op = "CommitUnblock"
  <2> DEFINE h == SetPX(r.id, pexpireArg(c.ttl))
             g == SetPX(r.id, pexpireArg(c.genTTL))
  <2>1. key \in Blocks /\ c.ttl \in Int /\ c.genTTL \in Int
    BY <1>1, <1>11, RedisAssumption
  <2>2. h \in Entries /\ g \in Entries
    <3>1. pexpireArg(c.ttl) \in Int /\ pexpireArg(c.genTTL) \in Int
      BY <2>1, PexpireType
    <3> QED BY <1>1, <3>1, SetPXType
  <2> DEFINE K1 == [kv EXCEPT !["hold"] = h]
             K2 == [K1 EXCEPT !["gen"] = g]
             K3 == [K2 EXCEPT ![key] = None]
             K  == [K3 EXCEPT !["ctr"] = IF c.reset THEN None ELSE K3["ctr"]]
  <2>3. Run(r).kv = K /\ Run(r).applied = TRUE
    BY <1>1, <1>11, RunOf DEF commitUnblockScript
  <2> HIDE DEF h, g
  <2>4. K1 \in [Keys -> Entries] /\ \A k \in Blocks : K1[k] = kv[k]
    BY <1>1, <1>2, <2>2
  <2> HIDE DEF K1
  <2>5. K2 \in [Keys -> Entries] /\ \A k \in Blocks : K2[k] = kv[k]
    BY <1>1, <2>2, <2>4
  <2> HIDE DEF K2
  <2>6. K3 \in [Keys -> Entries] /\ (\A k \in Blocks \ {key} : K3[k] = kv[k]) /\ K3[key] = None
    BY <1>1, <1>2, <2>5
  <2> HIDE DEF K3
  <2>7. K \in [Keys -> Entries] /\ (\A k \in Blocks \ {key} : K[k] = kv[k]) /\ K[key] = None
    BY <1>1, <1>2, <2>1, <2>6
  <2> HIDE DEF K
  <2> QED BY <1>1, <1>2, <1>11, <2>1, <2>3, <2>7 DEF Indexes, Drops, WritesBlock, DropsBlock
<1>12. CASE c.op = "GetWithExpiry"
  <2>1. Run(r) = [kv |-> kv, applied |-> FALSE]
    BY <1>1, <1>12, RunOf DEF Unapplied
  <2> QED BY <1>1, <1>2, <1>12, <2>1 DEF Indexes, Drops, WritesBlock, DropsBlock
<1> QED BY <1>1, <1>4, <1>5, <1>6, <1>7, <1>8, <1>9, <1>10, <1>11, <1>12, RedisAssumption

\* There are finitely many blocks.
LEMMA BlocksFinite == IsFiniteSet(Blocks)
<1> DEFINE n == Len(BlockKeys)
           f == [i \in 1..n |-> BlockKeys[i]]
<1>1. n \in Nat
  BY RedisAssumption
<1>2. f \in Surjection(1..n, Blocks)
  BY DEF Surjection, Blocks
<1>3. IsFiniteSet(1..n)
  BY <1>1, FS_Interval
<1> HIDE DEF f, n
<1> QED BY <1>2, <1>3, FS_Surjection

\* The index is a finite function from blocks to scores.
LEMMA IndexFinite ==
    ASSUME ServerOK
    PROVE  /\ DOMAIN index \in SUBSET Blocks /\ index \in [DOMAIN index -> Int]
           /\ \A D \in SUBSET DOMAIN index : IsFiniteSet(D) /\ Cardinality(D) \in Nat
<1>1. DOMAIN index \in SUBSET Blocks /\ index \in [DOMAIN index -> Int]
  BY PartialElim DEF ServerOK
<1>2. ASSUME NEW D \in SUBSET DOMAIN index PROVE IsFiniteSet(D) /\ Cardinality(D) \in Nat
  <2>1. D \in SUBSET Blocks
    BY <1>1
  <2>2. IsFiniteSet(D)
    BY <2>1, BlocksFinite, FS_Subset
  <2> QED BY <2>2, FS_CardinalityType
<1> QED BY <1>1, <1>2

\* An index with entries dropped.
LEMMA KeepType ==
    ASSUME ServerOK, NEW D \in SUBSET DOMAIN index
    PROVE  /\ Keep(D) \in Partial(Blocks, Int) /\ DOMAIN Keep(D) = D
           /\ \A k \in D : Keep(D)[k] = index[k]
<1>1. D \in SUBSET Blocks /\ Keep(D) \in [D -> Int]
  BY IndexFinite DEF Keep
<1>2. Keep(D) \in Partial(Blocks, Int)
  BY <1>1, PartialIntro
<1> QED BY <1>1, <1>2 DEF Keep

\* A function with an entry put.
LEMMA PutType ==
    ASSUME NEW S, NEW T, NEW f \in Partial(S, T), NEW k \in S, NEW v \in T
    PROVE  /\ Put(f, k, v) \in Partial(S, T)
           /\ DOMAIN Put(f, k, v) = DOMAIN f \cup {k}
           /\ Put(f, k, v)[k] = v
           /\ \A j \in DOMAIN f \ {k} : Put(f, k, v)[j] = f[j]
<1>1. DOMAIN f \in SUBSET S /\ f \in [DOMAIN f -> T]
  BY PartialElim
<1>2. DOMAIN f \cup {k} \in SUBSET S /\ Put(f, k, v) \in [DOMAIN f \cup {k} -> T]
  BY <1>1 DEF Put
<1>3. Put(f, k, v) \in Partial(S, T)
  BY <1>2, PartialIntro
<1> QED BY <1>2, <1>3 DEF Put

\* Index and generation after a script.
LEMMA IndexAfterType ==
    ASSUME ServerOK, NEW r \in Commands
    PROVE  /\ IndexAfter(r.c, Run(r)) \in Partial(Blocks, Int)
           /\ GenAfter(r.c, Run(r)) \in Nat
<1>1. r.c.key \in Keys
  BY RedisAssumption DEF Commands
<1>2. Score(Run(r).kv[r.c.key]) \in Int
  <2>1. Run(r).kv[r.c.key] \in Entries
    BY <1>1, RunEffect
  <2> QED BY <2>1 DEF Score, Entries, Forever
<1>3. CASE Indexes(r.c, Run(r))
  <2>1. r.c.key \in Blocks
    BY <1>3 DEF Indexes, WritesBlock
  <2>2. Put(index, r.c.key, Score(Run(r).kv[r.c.key])) \in Partial(Blocks, Int)
    <3>1. index \in Partial(Blocks, Int)
      BY DEF ServerOK
    <3> QED BY <1>2, <2>1, <3>1, PutType
  <2> QED BY <1>3, <2>2 DEF IndexAfter, GenAfter, ServerOK
<1>4. CASE ~Indexes(r.c, Run(r)) /\ Drops(r.c, Run(r))
  <2>1. Keep(DOMAIN index \ {r.c.key}) \in Partial(Blocks, Int)
    BY KeepType
  <2> QED BY <1>4, <2>1 DEF IndexAfter, GenAfter, ServerOK
<1>5. CASE ~Indexes(r.c, Run(r)) /\ ~Drops(r.c, Run(r))
  BY <1>5 DEF IndexAfter, GenAfter, ServerOK
<1> QED BY <1>3, <1>4, <1>5

----------------------------------------------------------------------------
\* The initial state has its type.
LEMMA TypeInit ==
    ASSUME Init
    PROVE  TypeOK
<1>1. ServerOK
  <2> DEFINE D == {k \in Blocks : Seed[k] # None}
  <2>1. \A k \in D : Score(Seed[k]) \in Int
    <3> SUFFICES ASSUME NEW k \in D PROVE Score(Seed[k]) \in Int
      OBVIOUS
    <3>1. k \in Keys
      BY DEF Keys
    <3>2. Seed[k] \in [val : Nat, dl : Int]
      BY <3>1, RedisAssumption
    <3> QED BY <3>2 DEF Score, Forever
  <2>2. index \in [D -> Int] /\ D \in SUBSET Blocks
    BY <2>1 DEF Init
  <2>3. index \in Partial(Blocks, Int)
    BY <2>2, PartialIntro
  <2>4. kv \in [Keys -> Entries]
    BY RedisAssumption DEF Init, Entries
  <2> QED BY <2>3, <2>4, RedisAssumption DEF Init, ServerOK
<1>2. ClientOK
  <2>1. client = [i \in 1..MaxCalls |-> Idle] /\ ran = [i \in 1..MaxCalls |-> 0] /\ wire = {}
        /\ calls = 0 /\ votes = 0 /\ timeouts = 0 /\ pokes = 0 /\ slack = FALSE
    BY DEF Init
  <2>2. client \in [1..MaxCalls -> {Idle} \cup Waits \cup Replies]
    BY <2>1
  <2>3. ran \in [1..MaxCalls -> Nat] /\ wire \subseteq Commands
    BY <2>1
  <2>4. calls \in Nat /\ votes \in Nat /\ calls + votes <= MaxCalls /\ timeouts \in Nat /\ pokes \in Nat
    BY <2>1, RedisAssumption
  <2>5. slack \in BOOLEAN
    BY <2>1
  <2> QED BY <2>2, <2>3, <2>4, <2>5 DEF ClientOK
<1>3. ScanOK
  BY DEF Init, ScanOK
<1>4. VotesOK
  <2>1. Empty \in [{} -> Nat]
    BY DEF Empty
  <2>2. Empty \in Partial(Insts, Nat)
    BY <2>1, PartialIntro
  <2> QED BY <2>2 DEF Init, VotesOK
<1> QED BY <1>1, <1>2, <1>3, <1>4 DEF TypeOK

\* The steps of the clients and of the server, one lemma per action.
LEMMA TypeCall ==
    ASSUME TypeOK, Call
    PROVE  TypeOK'
<1>1. PICK c \in Calls :
         LET r == [id |-> calls + 1, try |-> 0, since |-> now, c |-> c,
                   old |-> GET(c.key).val, guard |-> GET("gen").val]
         IN client' = [client EXCEPT ![r.id] = Waiting(r)] /\ wire' = wire \cup {r}
  BY DEF Call
<1> DEFINE r == [id |-> calls + 1, try |-> 0, since |-> now, c |-> c,
                 old |-> GET(c.key).val, guard |-> GET("gen").val]
<1>2. calls + 1 \in 1..MaxCalls /\ calls' = calls + 1 /\ votes' = votes
      /\ calls' \in Nat /\ calls' + votes' <= MaxCalls
  BY RedisAssumption DEF TypeOK, ClientOK, Call, voteVars, askVars
<1>3. r \in Commands
  <2>1. c.key \in Keys /\ "gen" \in Keys
    BY RedisAssumption DEF Keys
  <2>2. GET(c.key).val \in Nat /\ GET("gen").val \in Nat
    BY <2>1, EntryType DEF TypeOK, Entries
  <2> QED BY <1>2, <2>2 DEF Commands, TypeOK, ServerOK
<1>4. Waiting(r) \in Waits
  BY <1>3 DEF Waiting, Waits, Commands
<1>5. client' = [client EXCEPT ![calls + 1] = Waiting(r)] /\ wire' = wire \cup {r}
  BY <1>1
<1> HIDE DEF r
<1>6. ClientOK'
  <2>1. client' \in [1..MaxCalls -> {Idle} \cup Waits \cup Replies]
    BY <1>2, <1>4, <1>5 DEF TypeOK, ClientOK
  <2>2. wire' \subseteq Commands
    BY <1>3, <1>5 DEF TypeOK, ClientOK
  <2> QED BY <1>2, <2>1, <2>2 DEF TypeOK, ClientOK, Call
<1>7. ServerOK' /\ ScanOK' /\ VotesOK'
  BY DEF TypeOK, Call, ServerOK, ScanOK, VotesOK, serverVars, voteVars, askVars
<1> QED BY <1>6, <1>7 DEF TypeOK

\* A command the server runs leaves every variable its type.
LEMMA TypeExec ==
    ASSUME TypeOK, NEW r \in wire, Exec(r)
    PROVE  TypeOK'
<1>1. r \in Commands /\ r.id \in 1..MaxCalls
  BY DEF TypeOK, ClientOK, Commands
<1>2. kv' = Run(r).kv /\ index' = IndexAfter(r.c, Run(r)) /\ gen' = GenAfter(r.c, Run(r))
  BY DEF Exec
<1>3. ServerOK'
  BY <1>1, <1>2, RunEffect, IndexAfterType DEF TypeOK, ServerOK, Exec
<1>4. ran' \in [1..MaxCalls -> Nat]
  BY <1>1 DEF TypeOK, ClientOK, Exec
<1>5. client' \in [1..MaxCalls -> {Idle} \cup Waits \cup Replies]
  <2> DEFINE e == GET(r.c.key)
             g == [stage |-> "got", since |-> r.since, ttl |-> PTTL(e), dl |-> e.dl]
  <2>1. \/ client' = client
        \/ client' = [client EXCEPT ![r.id] = g]
        \/ client' = [client EXCEPT ![r.id] = Idle]
    BY DEF Exec
  <2>2. g \in Replies
    <3>1. e \in Entries /\ PTTL(e) \in Int
      BY <1>1, EntryType, RedisAssumption DEF TypeOK, Commands
    <3> QED BY <1>1, <3>1 DEF Replies, Entries, Commands
  <2> HIDE DEF g
  <2>3. client \in [1..MaxCalls -> {Idle} \cup Waits \cup Replies]
    BY DEF TypeOK, ClientOK
  <2> QED BY <1>1, <2>1, <2>2, <2>3
<1>6. ClientOK'
  BY <1>4, <1>5 DEF TypeOK, ClientOK, Exec, voteVars, askVars
<1>7. ScanOK' /\ VotesOK'
  BY DEF TypeOK, Exec, ScanOK, VotesOK, voteVars, askVars
<1> QED BY <1>3, <1>6, <1>7 DEF TypeOK

\* So does GetWithExpiry's use of its reply,
LEMMA TypeTakeReply ==
    ASSUME TypeOK, NEW i \in 1..MaxCalls, TakeReply(i)
    PROVE  TypeOK'
<1>1. client' \in [1..MaxCalls -> {Idle} \cup Waits \cup Replies] /\ slack' \in BOOLEAN
  BY DEF TypeOK, ClientOK, TakeReply
<1>2. ClientOK'
  BY <1>1 DEF TypeOK, ClientOK, TakeReply, voteVars, askVars
<1>3. ServerOK' /\ ScanOK' /\ VotesOK'
  BY DEF TypeOK, TakeReply, ServerOK, ScanOK, VotesOK, serverVars, voteVars, askVars
<1> QED BY <1>2, <1>3 DEF TypeOK

\* A caller that waits, waits for a command of its own kind.
LEMMA WaitType ==
    ASSUME ClientOK, NEW i \in 1..MaxCalls
    PROVE  /\ client[i].stage = "wait" => client[i] \in Waits /\ client[i].cmd \in Commands
           /\ client[i].stage = "got" => client[i] \in Replies
<1>1. client[i] \in {Idle} \cup Waits \cup Replies
  BY DEF ClientOK
<1> QED BY <1>1 DEF Idle, Waits, Replies

\* a timeout with or without a retry,
LEMMA TypeTimeout ==
    ASSUME TypeOK, NEW i \in 1..MaxCalls, Timeout(i)
    PROVE  TypeOK'
<1> DEFINE r == client[i].cmd
           again == [r EXCEPT !.try = @ + 1]
<1>1. r \in Commands
  BY WaitType DEF TypeOK, Timeout
<1>2. again \in Commands
  BY <1>1 DEF Commands
<1>3. Waiting(again) \in Waits
  BY <1>2 DEF Waiting, Waits, Commands
<1>4. \/ client' = [client EXCEPT ![i] = Waiting(again)] /\ wire' = wire \cup {again}
      \/ client' = [client EXCEPT ![i] = Idle] /\ wire' = wire
  BY DEF Timeout
<1> HIDE DEF again
<1>5. client' \in [1..MaxCalls -> {Idle} \cup Waits \cup Replies] /\ wire' \subseteq Commands
  BY <1>2, <1>3, <1>4 DEF TypeOK, ClientOK
<1>6. ClientOK'
  BY <1>5 DEF TypeOK, ClientOK, Timeout, voteVars, askVars
<1>7. ServerOK' /\ ScanOK' /\ VotesOK'
  BY DEF TypeOK, Timeout, ServerOK, ScanOK, VotesOK, serverVars, voteVars, askVars
<1> QED BY <1>6, <1>7 DEF TypeOK

\* a deletion by something else,
LEMMA TypePoke ==
    ASSUME TypeOK, NEW k \in Poked, Poke(k)
    PROVE  TypeOK'
<1>1. None \in Entries
  BY DEF None, Entry, Entries, Nil
<1>2. ServerOK'
  BY <1>1 DEF TypeOK, ServerOK, Poke
<1>3. ClientOK'
  BY DEF TypeOK, ClientOK, Poke, voteVars, askVars
<1>4. ScanOK' /\ VotesOK'
  BY DEF TypeOK, Poke, ScanOK, VotesOK, voteVars, askVars
<1> QED BY <1>2, <1>3, <1>4 DEF TypeOK

\* and the clock.
LEMMA TypeTick ==
    ASSUME TypeOK, Tick
    PROVE  TypeOK'
<1>1. ServerOK'
  BY RedisAssumption DEF TypeOK, ServerOK, Tick, serverVars
<1>2. client' \in [1..MaxCalls -> {Idle} \cup Waits \cup Replies] /\ wire' \subseteq Commands
  BY DEF TypeOK, ClientOK, Tick
<1>3. ClientOK'
  BY <1>2 DEF TypeOK, ClientOK, Tick, voteVars, askVars
<1>4. ScanOK'
  BY DEF TypeOK, Tick, ScanOK
<1>5. VotesOK'
  <2>1. posts' \in SUBSET Posts /\ asking' \in [Insts -> {Idle} \cup Posts]
    BY DEF TypeOK, VotesOK, Tick
  <2>2. doubt' \in [Insts -> BOOLEAN]
    <3>1. doubt' = [i \in Insts |-> doubt[i] \/ OutOfTime(i)] /\ doubt \in [Insts -> BOOLEAN]
      BY DEF TypeOK, VotesOK, Tick
    <3>2. \A i \in Insts : (doubt[i] \/ OutOfTime(i)) \in BOOLEAN
      OBVIOUS
    <3> QED BY <3>1, <3>2
  <2> QED BY <2>1, <2>2 DEF TypeOK, VotesOK, Tick
<1> QED BY <1>1, <1>3, <1>4, <1>5 DEF TypeOK

\* The steps of a scan.
LEMMA ScanType ==
    ASSUME ScanOK
    PROVE  scan.stage \in {"page", "values", "heal", "end"} => scan \in ActiveScans
  BY DEF ScanOK, Idle, DoneScans

\* What the scan is when it leaves a page.
LEMMA LeaveType ==
    ASSUME NEW s \in ActiveScans
    PROVE  /\ Leave(s) \in ActiveScans
           /\ Leave(s).stage = IF s.last THEN "end" ELSE "page"
           /\ Leave(s).batch = {} /\ Leave(s).last = FALSE
           /\ Leave(s).start = s.start /\ Leave(s).seen = s.seen /\ Leave(s).kvs = s.kvs
           /\ Leave(s).complete = s.complete
<1>1. {} \in SUBSET Blocks /\ FALSE \in BOOLEAN
      /\ (IF s.last THEN "end" ELSE "page") \in {"page", "values", "heal", "end"}
  OBVIOUS
<1> QED BY <1>1 DEF Leave, ActiveScans

\* Preparing the index leaves every variable its type.
LEMMA TypePrepare ==
    ASSUME TypeOK, Prepare
    PROVE  TypeOK'
<1> DEFINE dead == {k \in DOMAIN index : index[k] <= now}
<1>1. index' = Keep(DOMAIN index \ dead) /\ gen' = IF dead = {} THEN gen ELSE gen + 1
  BY DEF Prepare
<1>2. ServerOK'
  <2>1. Keep(DOMAIN index \ dead) \in Partial(Blocks, Int)
    BY KeepType DEF TypeOK
  <2> QED BY <1>1, <2>1 DEF TypeOK, ServerOK, Prepare, scanStep
<1>3. ScanOK'
  <2>1. PICK limit \in Limits :
           scan' = [stage |-> "page", limit |-> limit, start |-> gen', seen |-> 0,
                    kvs |-> Empty, complete |-> TRUE, batch |-> {}, last |-> FALSE]
    BY DEF Prepare
  <2>2. limit \in Nat /\ gen' \in Nat
    BY <1>2, RedisAssumption DEF ServerOK
  <2>3. Empty \in Partial(Blocks, Nat)
    <3>1. Empty \in [{} -> Nat]
      BY DEF Empty
    <3> QED BY <3>1, PartialIntro
  <2>4. scan' \in ActiveScans
    BY <2>1, <2>2, <2>3 DEF ActiveScans
  <2> QED BY <2>4 DEF ScanOK, Prepare, TypeOK
<1>4. ClientOK' /\ VotesOK'
  BY DEF TypeOK, Prepare, ClientOK, VotesOK, scanStep, voteVars, askVars
<1> QED BY <1>2, <1>3, <1>4 DEF TypeOK

\* The size of a page.
LEMMA PageType ==
    ASSUME NEW s \in ActiveScans
    PROVE  PageOf(s) \in Int /\ PageOf(s) <= PageSize
  BY RedisAssumption DEF PageOf, ActiveScans

\* What Page makes of the scan.
LEMMA PageEffect ==
    ASSUME TypeOK, Page
    PROVE  LET n    == PageOf(scan)
               rest == ZRange(scan.seen, n)
           IN /\ scan \in ActiveScans /\ scan' \in ActiveScans
              /\ n \in Int /\ rest \in SUBSET DOMAIN index
              /\ scan'.start = scan.start /\ scan'.kvs = scan.kvs
              /\ \/ /\ n <= 0 /\ scan'.stage = "end" /\ scan'.complete = FALSE
                    /\ scan'.batch = scan.batch
                 \/ /\ n > 0 /\ rest = {} /\ scan'.stage = "end" /\ scan'.complete = scan.complete
                    /\ scan'.batch = scan.batch
                 \/ /\ n > 0 /\ rest # {} /\ scan'.stage = "values" /\ scan'.batch = rest
                    /\ scan'.complete = scan.complete
                    /\ scan'.last = (Cardinality(rest) < n)
                    /\ scan'.seen = scan.seen + Cardinality(rest)
<1> DEFINE n    == PageOf(scan)
           rest == ZRange(scan.seen, n)
<1>1. scan \in ActiveScans
  BY ScanType DEF TypeOK, Page
<1>2. n \in Int
  BY <1>1, PageType
<1>3. rest \in SUBSET DOMAIN index
  BY DEF ZRange
<1>4. rest \in SUBSET Blocks /\ Cardinality(rest) \in Nat
  BY <1>3, IndexFinite DEF TypeOK
<1>5. scan' = IF n <= 0 THEN [scan EXCEPT !.stage = "end", !.complete = FALSE]
              ELSE IF rest = {} THEN [scan EXCEPT !.stage = "end"]
              ELSE [scan EXCEPT !.stage = "values", !.batch = rest,
                                !.last = Cardinality(rest) < n,
                                !.seen = @ + Cardinality(rest)]
  BY DEF Page
<1> HIDE DEF n, rest
<1>6. CASE n <= 0
  BY <1>1, <1>2, <1>3, <1>5, <1>6 DEF ActiveScans, n, rest
<1>7. CASE ~(n <= 0) /\ rest = {}
  BY <1>1, <1>2, <1>3, <1>5, <1>7 DEF ActiveScans, n, rest
<1>8. CASE ~(n <= 0) /\ rest # {}
  <2> DEFINE b == Cardinality(rest) < n
             m == scan.seen + Cardinality(rest)
  <2>1. b \in BOOLEAN /\ m \in Nat
    BY <1>1, <1>4 DEF ActiveScans
  <2>2. scan' = [scan EXCEPT !.stage = "values", !.batch = rest, !.last = b, !.seen = m]
    BY <1>1, <1>5, <1>8 DEF ActiveScans
  <2> HIDE DEF b, m
  <2>3. /\ scan' \in ActiveScans /\ scan'.stage = "values" /\ scan'.batch = rest
        /\ scan'.last = b /\ scan'.seen = m
        /\ scan'.complete = scan.complete /\ scan'.start = scan.start /\ scan'.kvs = scan.kvs
    BY <1>1, <1>4, <2>1, <2>2 DEF ActiveScans
  <2>4. n > 0
    BY <1>2, <1>8
  <2> QED BY <1>1, <1>2, <1>3, <1>8, <2>3, <2>4 DEF b, m, n, rest
<1> QED BY <1>2, <1>6, <1>7, <1>8

\* So does reading a page,
LEMMA TypePage ==
    ASSUME TypeOK, Page
    PROVE  TypeOK'
<1>1. ScanOK'
  BY PageEffect DEF ScanOK, TypeOK, Page
<1>2. ServerOK' /\ ClientOK' /\ VotesOK'
  BY DEF TypeOK, Page, ServerOK, ClientOK, VotesOK, scanStep, voteVars, askVars
<1> QED BY <1>1, <1>2 DEF TypeOK

\* What Values makes of the scan.
LEMMA ValuesEffect ==
    ASSUME TypeOK, Values
    PROVE  /\ scan \in ActiveScans /\ scan' \in ActiveScans /\ scan'.start = scan.start
           /\ scan'.seen = scan.seen
           /\ \/ scan'.complete = FALSE
              \/ /\ scan'.complete = scan.complete /\ scan'.batch = {} /\ scan'.last = FALSE
                 /\ scan'.stage = IF scan.last THEN "end" ELSE "page"
                 /\ \A k \in scan.batch : k \in DOMAIN scan'.kvs /\ scan'.kvs[k] = GET(k).val
                 /\ \A k \in DOMAIN scan.kvs \ scan.batch :
                       k \in DOMAIN scan'.kvs /\ scan'.kvs[k] = scan.kvs[k]
           /\ scan'.stage \in {"page", "end"} => scan'.batch = {}
<1> DEFINE hit == {k \in scan.batch : GET(k) # None}
           m   == [k \in hit \cup DOMAIN scan.kvs |->
                      IF k \in hit THEN GET(k).val ELSE scan.kvs[k]]
           s   == [scan EXCEPT !.kvs = m]
<1>1. scan \in ActiveScans
  BY ScanType DEF TypeOK, Values
<1>2. scan.batch \in SUBSET Blocks /\ scan.kvs \in Partial(Blocks, Nat)
  BY <1>1 DEF ActiveScans
<1>3. DOMAIN scan.kvs \in SUBSET Blocks /\ scan.kvs \in [DOMAIN scan.kvs -> Nat]
  BY <1>2, PartialElim
<1>4. \A k \in hit : GET(k).val \in Nat
  BY <1>2, EntryType DEF TypeOK, Keys, Entries
<1>5. m \in [hit \cup DOMAIN scan.kvs -> Nat] /\ hit \cup DOMAIN scan.kvs \in SUBSET Blocks
  BY <1>2, <1>3, <1>4
<1>6. m \in Partial(Blocks, Nat)
  <2> HIDE DEF m, hit
  <2> QED BY <1>5, PartialIntro
<1>7. /\ \A k \in hit : k \in DOMAIN m /\ m[k] = GET(k).val
      /\ \A k \in DOMAIN scan.kvs \ scan.batch : k \in DOMAIN m /\ m[k] = scan.kvs[k]
  OBVIOUS
<1>8. scan' = IF hit = s.batch THEN Leave(s)
              ELSE [s EXCEPT !.stage = "heal", !.complete = FALSE, !.batch = @ \ hit]
  BY DEF Values
<1> HIDE DEF m
<1>9. /\ s \in ActiveScans /\ s.kvs = m /\ s.batch = scan.batch /\ s.last = scan.last
      /\ s.start = scan.start /\ s.seen = scan.seen /\ s.complete = scan.complete
  BY <1>1, <1>6 DEF ActiveScans
<1> HIDE DEF s
<1>10. CASE hit = s.batch
  <2>1. scan' = Leave(s)
    BY <1>8, <1>10
  <2>2. hit = scan.batch
    BY <1>9, <1>10
  <2> HIDE DEF hit
  <2> QED BY <1>1, <1>7, <1>9, <2>1, <2>2, LeaveType
<1>11. CASE hit # s.batch
  <2>1. scan' = [s EXCEPT !.stage = "heal", !.complete = FALSE, !.batch = @ \ hit]
    BY <1>8, <1>11
  <2>2. s.batch \ hit \in SUBSET Blocks
    BY <1>9 DEF ActiveScans
  <2> HIDE DEF hit
  <2>3. scan' \in ActiveScans /\ scan'.complete = FALSE /\ scan'.stage = "heal"
        /\ scan'.start = s.start /\ scan'.seen = s.seen
    BY <1>9, <2>1, <2>2 DEF ActiveScans
  <2> QED BY <1>1, <1>9, <2>3
<1> QED BY <1>10, <1>11

\* its values,
LEMMA TypeValues ==
    ASSUME TypeOK, Values
    PROVE  TypeOK'
<1>1. ScanOK'
  BY ValuesEffect DEF ScanOK, TypeOK, Values
<1>2. ServerOK' /\ ClientOK' /\ VotesOK'
  BY DEF TypeOK, Values, ServerOK, ClientOK, VotesOK, scanStep, voteVars, askVars
<1> QED BY <1>1, <1>2 DEF TypeOK

\* healing,
LEMMA TypeHeal ==
    ASSUME TypeOK, Heal
    PROVE  TypeOK'
<1>1. ServerOK'
  <2> DEFINE gone == Healed(scan.batch) \cap DOMAIN index
  <2>1. \/ index' = index /\ gen' = gen
        \/ index' = Keep(DOMAIN index \ gone) /\ gen' = gen + 1
    BY DEF Heal
  <2>2. Keep(DOMAIN index \ gone) \in Partial(Blocks, Int)
    BY KeepType DEF TypeOK
  <2> HIDE DEF gone
  <2> QED BY <2>1, <2>2 DEF TypeOK, ServerOK, Heal, scanStep
<1>2. ScanOK'
  <2>1. scan \in ActiveScans
    BY ScanType DEF TypeOK, Heal
  <2>2. scan' \in ActiveScans
    BY <2>1, LeaveType DEF Heal
  <2> QED BY <2>2 DEF ScanOK, TypeOK, Heal
<1>3. ClientOK' /\ VotesOK'
  BY DEF TypeOK, Heal, ClientOK, VotesOK, scanStep, voteVars, askVars
<1> QED BY <1>1, <1>2, <1>3 DEF TypeOK

\* the end of the scan
LEMMA TypeEndScan ==
    ASSUME TypeOK, EndScan
    PROVE  TypeOK'
<1>1. ScanOK'
  <2>1. PICK b, m : scan' = [stage |-> "done", complete |-> b, missed |-> m]
                    /\ b \in BOOLEAN /\ m \in SUBSET Blocks
    <3> DEFINE b == /\ scan.complete /\ Unchanged(scan)
                    /\ ~(scan.limit > 0 /\ scan.seen > scan.limit)
               m == {k \in Blocks :
                              /\ GET(k) # None /\ PTTL(GET(k)) # 0
                              /\ ~(k \in DOMAIN scan.kvs /\ scan.kvs[k] = GET(k).val)}
    <3>1. scan' = [stage |-> "done", complete |-> b, missed |-> m]
      BY DEF EndScan
    <3>2. b \in BOOLEAN /\ m \in SUBSET Blocks
      OBVIOUS
    <3> QED BY <3>1, <3>2
  <2>2. scan' \in DoneScans
    BY <2>1 DEF DoneScans
  <2> QED BY <2>2 DEF ScanOK, TypeOK, EndScan
<1>2. ServerOK' /\ ClientOK' /\ VotesOK'
  BY DEF TypeOK, EndScan, ServerOK, ClientOK, VotesOK, scanStep, voteVars, askVars
<1> QED BY <1>1, <1>2 DEF TypeOK

\* and an error in it.
LEMMA TypeAbortScan ==
    ASSUME TypeOK, AbortScan
    PROVE  TypeOK'
<1>1. ScanOK'
  BY DEF ScanOK, TypeOK, AbortScan
<1>2. ServerOK' /\ ClientOK' /\ VotesOK'
  BY DEF TypeOK, AbortScan, ServerOK, ClientOK, VotesOK, scanStep, voteVars, askVars
<1> QED BY <1>1, <1>2 DEF TypeOK

\* The sorted sets of votes, as the server has them.
LEMMA ZSetType ==
    ASSUME VotesOK, now \in Nat, NEW l \in 1..2
    PROVE  /\ ZSet(l) \in Partial(Insts, Nat)
           /\ ZSet(l) = zset[l] \/ (ZSet(l) = Empty /\ now > zexp[l])
           /\ DOMAIN Empty = {}
<1>1. zset[l] \in Partial(Insts, Nat)
  BY DEF VotesOK
<1>2. Empty \in [{} -> Nat] /\ DOMAIN Empty = {}
  BY DEF Empty
<1>3. Empty \in Partial(Insts, Nat)
  BY <1>2, PartialIntro
<1> QED BY <1>1, <1>2, <1>3 DEF ZSet

\* A sorted set with a vote put.
LEMMA VotePut ==
    ASSUME NEW z \in Partial(Insts, Nat), NEW i \in Insts, NEW v \in Nat
    PROVE  /\ Put(z, i, v) \in Partial(Insts, Nat)
           /\ DOMAIN Put(z, i, v) = DOMAIN z \cup {i}
           /\ Put(z, i, v)[i] = v
           /\ \A j \in DOMAIN z \ {i} : Put(z, i, v)[j] = z[j]
<1>1. DOMAIN z \in SUBSET Insts /\ z \in [DOMAIN z -> Nat]
  BY PartialElim
<1>2. DOMAIN z \cup {i} \in SUBSET Insts /\ Put(z, i, v) \in [DOMAIN z \cup {i} -> Nat]
  BY <1>1 DEF Put
<1>3. Put(z, i, v) \in Partial(Insts, Nat)
  BY <1>2, PartialIntro
<1> QED BY <1>2, <1>3 DEF Put

\* A sorted set without an instance's vote.
LEMMA WithoutType ==
    ASSUME NEW z \in Partial(Insts, Nat), NEW i
    PROVE  /\ Without(z, i) \in Partial(Insts, Nat)
           /\ DOMAIN Without(z, i) = DOMAIN z \ {i}
           /\ \A j \in DOMAIN z \ {i} : Without(z, i)[j] = z[j]
<1>1. DOMAIN z \in SUBSET Insts /\ z \in [DOMAIN z -> Nat]
  BY PartialElim
<1>2. DOMAIN z \ {i} \in SUBSET Insts /\ Without(z, i) \in [DOMAIN z \ {i} -> Nat]
  BY <1>1 DEF Without
<1>3. Without(z, i) \in Partial(Insts, Nat)
  BY <1>2, PartialIntro
<1> QED BY <1>2, <1>3 DEF Without

\* What a vote makes of the sorted sets.
LEMMA VoteEffect ==
    ASSUME TypeOK, NEW i \in Insts, NEW l \in 1..2, NEW ttl \in Nat, redisSetPostureScript(i, l, ttl)
    PROVE  /\ zset' \in [1..2 -> Partial(Insts, Nat)] /\ zexp' \in [1..2 -> Nat]
           /\ mine' \in [Insts -> [level : 0..2, dl : Nat]]
           /\ \A m \in 1..2 : /\ DOMAIN zset'[m] = (DOMAIN ZSet(m) \ {i}) \cup (IF m = l THEN {i} ELSE {})
                              /\ \A j \in DOMAIN ZSet(m) \ {i} : zset'[m][j] = ZSet(m)[j]
           /\ zset'[l][i] = now + ttl
           /\ zexp'[l] >= now + ttl
           /\ \A m \in 1..2 : DOMAIN ZSet(m) \ {i} # {} => zexp'[m] >= zexp[m]
           /\ mine'[i].level = l /\ mine'[i].dl = now + ttl
           /\ \A j \in Insts \ {i} : mine'[j] = mine[j]
<1> DEFINE P(m) == Put(ZSet(m), i, now + ttl)
           W(m) == Without(ZSet(m), i)
<1>1. now \in Nat /\ ttl \in Nat /\ now + ttl \in Nat
  BY DEF TypeOK, ServerOK
<1>2. zset' = [m \in 1..2 |-> IF m = l THEN P(m) ELSE W(m)]
  BY DEF redisSetPostureScript
<1>3. ASSUME NEW m \in 1..2
      PROVE /\ P(m) \in Partial(Insts, Nat) /\ DOMAIN P(m) = DOMAIN ZSet(m) \cup {i}
            /\ P(m)[i] = now + ttl
            /\ \A j \in DOMAIN ZSet(m) \ {i} : P(m)[j] = ZSet(m)[j]
            /\ W(m) \in Partial(Insts, Nat) /\ DOMAIN W(m) = DOMAIN ZSet(m) \ {i}
            /\ \A j \in DOMAIN ZSet(m) \ {i} : W(m)[j] = ZSet(m)[j]
  <2>1. ZSet(m) \in Partial(Insts, Nat)
    BY <1>1, ZSetType DEF TypeOK
  <2>2. /\ P(m) \in Partial(Insts, Nat) /\ DOMAIN P(m) = DOMAIN ZSet(m) \cup {i}
        /\ P(m)[i] = now + ttl
        /\ \A j \in DOMAIN ZSet(m) \ {i} : P(m)[j] = ZSet(m)[j]
    <3>1. ZSet(m) \in Partial(Insts, Nat) /\ i \in Insts /\ now + ttl \in Nat
      BY <1>1, <2>1
    <3>2. \A z \in Partial(Insts, Nat), v \in Nat :
             /\ Put(z, i, v) \in Partial(Insts, Nat) /\ DOMAIN Put(z, i, v) = DOMAIN z \cup {i}
             /\ Put(z, i, v)[i] = v
             /\ \A j \in DOMAIN z \ {i} : Put(z, i, v)[j] = z[j]
      BY VotePut
    <3> QED BY <3>1, <3>2
  <2>3. /\ W(m) \in Partial(Insts, Nat) /\ DOMAIN W(m) = DOMAIN ZSet(m) \ {i}
        /\ \A j \in DOMAIN ZSet(m) \ {i} : W(m)[j] = ZSet(m)[j]
    BY <2>1, WithoutType
  <2> QED BY <2>2, <2>3
<1>4. zexp \in [1..2 -> Nat] /\ mine \in [Insts -> [level : 0..2, dl : Nat]]
  BY DEF TypeOK, VotesOK
<1> DEFINE x == ExpireNoEarlier(ttl, zexp[l], W(l) = Empty)
<1>5. zexp' = [zexp EXCEPT ![l] = x]
  BY DEF redisSetPostureScript
<1>6. x \in Nat /\ x >= now + ttl /\ (W(l) # Empty => x >= zexp[l])
  <2>1. zexp[l] \in Nat
    BY <1>4
  <2> HIDE DEF W
  <2> QED BY <1>1, <2>1 DEF ExpireNoEarlier
<1>7. DOMAIN ZSet(l) \ {i} # {} => W(l) # Empty
  <2>1. DOMAIN Empty = {}
    BY DEF Empty
  <2> HIDE DEF W
  <2> QED BY <2>1, <1>3
<1>8. mine' = [mine EXCEPT ![i] = [level |-> l, dl |-> now + ttl]]
  BY DEF redisSetPostureScript
<1> HIDE DEF P, W, x
<1>9. zset' \in [1..2 -> Partial(Insts, Nat)] /\ zset'[l][i] = now + ttl
  BY <1>2, <1>3
<1>10. ASSUME NEW m \in 1..2
       PROVE /\ DOMAIN zset'[m] = (DOMAIN ZSet(m) \ {i}) \cup (IF m = l THEN {i} ELSE {})
             /\ \A j \in DOMAIN ZSet(m) \ {i} : zset'[m][j] = ZSet(m)[j]
  <2>1. CASE m = l
    <3>1. zset'[m] = P(m)
      BY <1>2, <2>1
    <3> QED BY <1>3, <2>1, <3>1
  <2>2. CASE m # l
    <3>1. zset'[m] = W(m)
      BY <1>2, <2>2
    <3> QED BY <1>3, <2>2, <3>1
  <2> QED BY <2>1, <2>2
<1>11. zexp' \in [1..2 -> Nat] /\ zexp'[l] >= now + ttl
       /\ \A m \in 1..2 : DOMAIN ZSet(m) \ {i} # {} => zexp'[m] >= zexp[m]
  BY <1>4, <1>5, <1>6, <1>7
<1>12. /\ mine' \in [Insts -> [level : 0..2, dl : Nat]]
       /\ mine'[i].level = l /\ mine'[i].dl = now + ttl
       /\ \A j \in Insts \ {i} : mine'[j] = mine[j]
  <2>1. [level |-> l, dl |-> now + ttl] \in [level : 0..2, dl : Nat]
    BY <1>1
  <2> QED BY <1>4, <1>8, <2>1
<1> QED BY <1>1, <1>9, <1>10, <1>11, <1>12

\* What a withdrawal makes of the sorted sets.
LEMMA UnvoteEffect ==
    ASSUME TypeOK, NEW i \in Insts, redisDeletePostureScript(i)
    PROVE  /\ zset' \in [1..2 -> Partial(Insts, Nat)] /\ zexp' = zexp
           /\ mine' \in [Insts -> [level : 0..2, dl : Nat]]
           /\ \A m \in 1..2 : /\ DOMAIN zset'[m] = DOMAIN ZSet(m) \ {i}
                              /\ \A j \in DOMAIN ZSet(m) \ {i} : zset'[m][j] = ZSet(m)[j]
           /\ mine'[i].level = 0 /\ mine'[i].dl = 0
           /\ \A j \in Insts \ {i} : mine'[j] = mine[j]
<1>1. zset' = [m \in 1..2 |-> Without(ZSet(m), i)] /\ zexp' = zexp
  BY DEF redisDeletePostureScript
<1>2. ASSUME NEW m \in 1..2
      PROVE /\ Without(ZSet(m), i) \in Partial(Insts, Nat)
            /\ DOMAIN Without(ZSet(m), i) = DOMAIN ZSet(m) \ {i}
            /\ \A j \in DOMAIN ZSet(m) \ {i} : Without(ZSet(m), i)[j] = ZSet(m)[j]
  <2>1. ZSet(m) \in Partial(Insts, Nat)
    BY ZSetType DEF TypeOK, ServerOK
  <2> QED BY <2>1, WithoutType
<1>3. mine' = [mine EXCEPT ![i] = [level |-> 0, dl |-> 0]]
  BY DEF redisDeletePostureScript
<1>4. mine' \in [Insts -> [level : 0..2, dl : Nat]] /\ mine'[i].level = 0 /\ mine'[i].dl = 0
      /\ \A j \in Insts \ {i} : mine'[j] = mine[j]
  BY <1>3 DEF TypeOK, VotesOK
<1> QED BY <1>1, <1>2, <1>4

\* A command for a vote is not the absence of one.
LEMMA PostNotIdle ==
    ASSUME NEW p \in Posts
    PROVE  p # Idle
  BY DEF Posts, Idle

\* A call for a vote leaves every variable its type,
LEMMA TypePost ==
    ASSUME TypeOK, NEW i \in Insts, NEW l \in 0..2, NEW ttl \in Nat, Post(i, l, ttl)
    PROVE  TypeOK'
<1> DEFINE p == [id |-> votes + 1, try |-> 0, since |-> now, inst |-> i, level |-> l, ttl |-> ttl]
<1>1. votes' = votes + 1 /\ calls' = calls /\ calls + votes < MaxCalls
  BY DEF Post, voteStep
<1>2. calls' \in Nat /\ votes' \in Nat /\ calls' + votes' <= MaxCalls
  BY <1>1, RedisAssumption DEF TypeOK, ClientOK
<1>3. ClientOK'
  BY <1>2 DEF TypeOK, ClientOK, Post, voteStep
<1>4. ServerOK' /\ ScanOK'
  BY DEF TypeOK, Post, ServerOK, ScanOK, serverVars, voteStep
<1>5. p \in Posts
  BY DEF Posts, TypeOK, ServerOK, ClientOK
<1>6. posts' = posts \cup {p} /\ asking' = [asking EXCEPT ![i] = p]
  BY DEF Post
<1>7. doubt' \in [Insts -> BOOLEAN]
  <2> DEFINE x == \E q \in posts : q.inst = i
  <2>1. doubt' = [doubt EXCEPT ![i] = x] /\ doubt \in [Insts -> BOOLEAN]
    BY DEF TypeOK, VotesOK, Post
  <2>2. x \in BOOLEAN
    OBVIOUS
  <2> HIDE DEF x
  <2> QED BY <2>1, <2>2
<1> HIDE DEF p
<1>8. VotesOK'
  BY <1>5, <1>6, <1>7 DEF TypeOK, VotesOK, Post
<1> QED BY <1>3, <1>4, <1>8 DEF TypeOK

\* as does the server that runs one,
LEMMA TypeRunPost ==
    ASSUME TypeOK, NEW p \in posts, RunPost(p)
    PROVE  TypeOK'
<1>1. p \in Posts /\ p.inst \in Insts /\ p.level \in 0..2 /\ p.ttl \in Nat
  BY DEF TypeOK, VotesOK, Posts
<1>2. ServerOK' /\ ScanOK' /\ ClientOK'
  BY DEF TypeOK, RunPost, ServerOK, ScanOK, ClientOK, serverVars, voteStep
<1>3. posts' \in SUBSET Posts /\ asking' \in [Insts -> {Idle} \cup Posts]
      /\ wish' = wish /\ doubt' = doubt
  BY DEF TypeOK, VotesOK, RunPost
<1>4. CASE p.level # 0 /\ redisSetPostureScript(p.inst, p.level, p.ttl)
  <2>1. p.level \in 1..2
    BY <1>1, <1>4
  <2>2. /\ zset' \in [1..2 -> Partial(Insts, Nat)] /\ zexp' \in [1..2 -> Nat]
        /\ mine' \in [Insts -> [level : 0..2, dl : Nat]]
    BY <1>1, <1>4, <2>1, VoteEffect
  <2> QED BY <1>2, <1>3, <2>2 DEF TypeOK, VotesOK
<1>5. CASE redisDeletePostureScript(p.inst)
  <2>1. /\ zset' \in [1..2 -> Partial(Insts, Nat)] /\ zexp' = zexp
        /\ mine' \in [Insts -> [level : 0..2, dl : Nat]]
    BY <1>1, <1>5, UnvoteEffect
  <2> QED BY <1>2, <1>3, <2>1 DEF TypeOK, VotesOK
<1> QED BY <1>4, <1>5 DEF RunPost

\* What giving up on an attempt makes of the calls for votes.
LEMMA PostTimeoutEffect ==
    ASSUME TypeOK, NEW i \in Insts, PostTimeout(i)
    PROVE  /\ asking[i] \in Posts /\ asking[i] # Idle
           /\ \/ \E a \in Posts : /\ a.inst = asking[i].inst /\ a.level = asking[i].level
                                  /\ asking' = [asking EXCEPT ![i] = a]
                                  /\ posts' = posts \cup {a} /\ doubt' = doubt
              \/ /\ asking' = [asking EXCEPT ![i] = Idle] /\ posts' = posts
                 /\ doubt' = [doubt EXCEPT ![i] = TRUE]
           /\ UNCHANGED <<voteStep, zset, zexp, mine, votes, wish>> /\ timeouts' = timeouts + 1
<1> DEFINE a == [asking[i] EXCEPT !.try = @ + 1]
<1>1. asking[i] \in Posts /\ asking[i] # Idle
  BY DEF PostTimeout, TypeOK, VotesOK
<1>2. a \in Posts /\ a.inst = asking[i].inst /\ a.level = asking[i].level
  BY <1>1 DEF Posts
<1> HIDE DEF a
<1>3. \/ /\ asking' = [asking EXCEPT ![i] = a] /\ posts' = posts \cup {a} /\ doubt' = doubt
      \/ /\ asking' = [asking EXCEPT ![i] = Idle] /\ posts' = posts
         /\ doubt' = [doubt EXCEPT ![i] = TRUE]
  BY DEF PostTimeout, a
<1>4. UNCHANGED <<voteStep, zset, zexp, mine, votes, wish>> /\ timeouts' = timeouts + 1
  BY DEF PostTimeout
<1> QED BY <1>1, <1>2, <1>3, <1>4

\* the client that gives up on an attempt,
LEMMA TypePostTimeout ==
    ASSUME TypeOK, NEW i \in Insts, PostTimeout(i)
    PROVE  TypeOK'
<1>1. UNCHANGED <<voteStep, zset, zexp, mine, votes, wish>> /\ timeouts' = timeouts + 1
  BY PostTimeoutEffect
<1>2. ServerOK' /\ ScanOK' /\ ClientOK'
  BY <1>1 DEF TypeOK, ServerOK, ScanOK, ClientOK, serverVars, voteStep
<1>3. posts' \in SUBSET Posts /\ asking' \in [Insts -> {Idle} \cup Posts] /\ doubt' \in [Insts -> BOOLEAN]
  <2>1. /\ posts \in SUBSET Posts /\ asking \in [Insts -> {Idle} \cup Posts]
        /\ doubt \in [Insts -> BOOLEAN]
    BY DEF TypeOK, VotesOK
  <2> QED BY <2>1, PostTimeoutEffect
<1> QED BY <1>1, <1>2, <1>3 DEF TypeOK, VotesOK

\* What TrimVotes makes of the sorted sets.
LEMMA TrimEffect ==
    ASSUME TypeOK, TrimVotes
    PROVE  /\ zset' \in [1..2 -> Partial(Insts, Nat)]
           /\ zexp' = zexp /\ mine' = mine /\ now' = now
           /\ \A l \in 1..2 : /\ DOMAIN zset'[l] = {i \in DOMAIN ZSet(l) : zset[l][i] > now}
                              /\ \A j \in DOMAIN zset'[l] : zset'[l][j] = zset[l][j]
<1> DEFINE D(l) == {i \in DOMAIN ZSet(l) : zset[l][i] > now}
           T(l) == [j \in D(l) |-> zset[l][j]]
<1>1. zset' = [l \in 1..2 |-> T(l)] /\ zexp' = zexp /\ mine' = mine /\ now' = now
  BY DEF TrimVotes, voteStep
<1>2. ASSUME NEW l \in 1..2
      PROVE T(l) \in Partial(Insts, Nat)
  <2>1. zset[l] \in Partial(Insts, Nat)
    BY DEF TypeOK, VotesOK
  <2>2. DOMAIN zset[l] \in SUBSET Insts /\ zset[l] \in [DOMAIN zset[l] -> Nat]
    BY <2>1, PartialElim
  <2>3. DOMAIN ZSet(l) \in SUBSET DOMAIN zset[l]
    BY ZSetType DEF TypeOK, ServerOK
  <2>4. D(l) \in SUBSET Insts /\ T(l) \in [D(l) -> Nat]
    BY <2>2, <2>3
  <2> HIDE DEF T, D
  <2> QED BY <2>4, PartialIntro
<1>3. ASSUME NEW l \in 1..2
      PROVE zset'[l] = T(l)
  BY <1>1
<1>4. zset' \in [1..2 -> Partial(Insts, Nat)]
  <2> HIDE DEF T
  <2> QED BY <1>1, <1>2
<1> QED BY <1>1, <1>3, <1>4

\* and trimming the expired.
LEMMA TypeTrim ==
    ASSUME TypeOK, TrimVotes
    PROVE  TypeOK'
<1>1. VotesOK'
  BY TrimEffect DEF VotesOK, TypeOK, TrimVotes, askVars
<1>2. ServerOK' /\ ScanOK' /\ ClientOK'
  BY DEF TypeOK, TrimVotes, ServerOK, ScanOK, ClientOK, serverVars, voteStep, askVars
<1> QED BY <1>1, <1>2 DEF TypeOK

\* That is every step of the votes.
LEMMA TypeVoteSteps ==
    ASSUME TypeOK, VoteSteps
    PROVE  TypeOK'
<1>1. ASSUME NEW i \in Insts, NEW l \in 1..2, NEW ttl \in VoteTTLs, SetPostureVote(i, l, ttl)
      PROVE  TypeOK'
  BY <1>1, TypePost, RedisAssumption DEF SetPostureVote
<1>2. ASSUME NEW i \in Insts, DeletePostureVote(i) PROVE TypeOK'
  BY <1>2, TypePost DEF DeletePostureVote
<1> QED BY <1>1, <1>2, TypePostTimeout, TypeRunPost, TypeTrim DEF VoteSteps

\* They leave the rest of the system alone.
LEMMA VotesElsewhere ==
    ASSUME VoteSteps
    PROVE  UNCHANGED voteStep
  BY DEF VoteSteps, SetPostureVote, DeletePostureVote, Post, PostTimeout, RunPost, TrimVotes

\* Every step leaves every variable its type.
LEMMA TypeNext ==
    ASSUME TypeOK, [Next]_vars
    PROVE  TypeOK'
<1>1. CASE UNCHANGED vars
  BY <1>1 DEF vars, serverVars, voteVars, askVars, TypeOK, ServerOK, ClientOK, ScanOK, VotesOK
<1>2. CASE Next
  BY <1>2, TypeCall, TypeTimeout, TypeTakeReply, TypeExec, TypePoke, TypePrepare, TypePage,
     TypeValues, TypeHeal, TypeEndScan, TypeAbortScan, TypeVoteSteps, TypeTick DEF Next
<1> QED BY <1>1, <1>2

\* Type correctness: entries, index scores, commands in flight and at their
\* callers, the scan's record and the votes keep their shapes in every behaviour.
THEOREM TypeCorrect == Spec => []TypeOK
  BY TypeInit, TypeNext, PTL DEF Spec

----------------------------------------------------------------------------

\* A call, and every command it has sent, is over within CallBudget.
Lasts(t) == t <= now /\ now <= t + CallBudget

\* Every command in flight is a call's that is not over yet; a caller waits for
\* its own command; a remaining TTL, counted from when the caller asked, ends no
\* later than the key.
ClockInv ==
    /\ \A r \in wire : Lasts(r.since) /\ r.id <= calls
    /\ \A i \in 1..MaxCalls :
         /\ client[i].stage = "wait" =>
                /\ client[i].cmd.id = i /\ i <= calls
                /\ client[i].cmd.since = client[i].since /\ Lasts(client[i].since)
         /\ client[i].stage = "got" => client[i].since + client[i].ttl <= client[i].dl
    /\ slack = FALSE

\* No call has been made.
LEMMA ClockInit ==
    ASSUME Init
    PROVE  ClockInv
<1>1. \A i \in 1..MaxCalls : client[i].stage = "idle"
  BY DEF Init, Idle
<1> QED BY <1>1 DEF Init, ClockInv

\* A new call starts now.
LEMMA ClockCall ==
    ASSUME TypeOK, ClockInv, Call
    PROVE  ClockInv'
<1>1. PICK r : /\ r.id = calls + 1 /\ r.since = now
               /\ client' = [client EXCEPT ![calls + 1] = Waiting(r)] /\ wire' = wire \cup {r}
  <2>1. PICK c \in Calls :
         LET r == [id |-> calls + 1, try |-> 0, since |-> now, c |-> c,
                   old |-> GET(c.key).val, guard |-> GET("gen").val]
         IN client' = [client EXCEPT ![r.id] = Waiting(r)] /\ wire' = wire \cup {r}
    BY DEF Call
  <2> QED BY <2>1
<1>2. /\ Waiting(r).stage = "wait" /\ Waiting(r).cmd = r /\ Waiting(r).since = now
  BY <1>1 DEF Waiting
<1>3. calls' = calls + 1 /\ now' = now /\ slack' = slack
  BY DEF Call
<1>4. calls \in Nat /\ now \in Nat /\ CallBudget \in Nat
      /\ client \in [1..MaxCalls -> {Idle} \cup Waits \cup Replies] /\ wire \subseteq Commands
  BY RedisAssumption DEF TypeOK, ServerOK, ClientOK
<1>5. Lasts(now)' /\ \A t : Lasts(t) => Lasts(t)'
  BY <1>3, <1>4 DEF Lasts
<1>6. \A q \in wire' : Lasts(q.since)' /\ q.id <= calls'
  <2>1. \A q \in wire : q.id \in Nat
    BY <1>4 DEF Commands
  <2> QED BY <1>1, <1>3, <1>4, <1>5, <2>1 DEF ClockInv
<1>7. ASSUME NEW i \in 1..MaxCalls
      PROVE  /\ client'[i].stage = "wait" =>
                  /\ client'[i].cmd.id = i /\ i <= calls'
                  /\ client'[i].cmd.since = client'[i].since /\ Lasts(client[i].since)'
             /\ client'[i].stage = "got" => client'[i].since + client'[i].ttl <= client'[i].dl
  <2>1. CASE i = calls + 1
    <3>1. client'[i] = Waiting(r)
      BY <1>1, <1>4, <2>1
    <3> QED BY <1>1, <1>2, <1>3, <1>5, <2>1, <3>1
  <2>2. CASE i # calls + 1
    <3>1. client'[i] = client[i]
      BY <1>1, <1>4, <2>2
    <3> QED BY <1>3, <1>4, <1>5, <3>1 DEF ClockInv
  <2> QED BY <2>1, <2>2
<1> QED BY <1>3, <1>6, <1>7 DEF ClockInv

\* A reply carries the remaining TTL of now, and the call was made before.
LEMMA ClockExec ==
    ASSUME TypeOK, ClockInv, NEW r \in wire, Exec(r)
    PROVE  ClockInv'
<1> DEFINE e == GET(r.c.key)
           g == [stage |-> "got", since |-> r.since, ttl |-> PTTL(e), dl |-> e.dl]
<1>1. \/ client' = client
      \/ e # None /\ PTTL(e) > 0 /\ client' = [client EXCEPT ![r.id] = g]
      \/ client' = [client EXCEPT ![r.id] = Idle]
  BY DEF Exec
<1>2. r \in Commands /\ r.id \in 1..MaxCalls /\ r.since \in Nat /\ r.since <= now /\ now \in Nat
  BY DEF TypeOK, ServerOK, ClientOK, Commands, ClockInv, Lasts
<1>3. e \in Entries
  <2>1. r.c.key \in Keys
    BY <1>2, RedisAssumption DEF Commands
  <2> QED BY <2>1, EntryType DEF TypeOK
<1>4. PTTL(e) > 0 => g.stage = "got" /\ g.since + g.ttl <= g.dl
  BY <1>2, <1>3 DEF PTTL, Entries
<1>5. wire' \subseteq wire /\ now' = now /\ calls' = calls /\ slack' = slack
  BY DEF Exec
<1>6. client \in [1..MaxCalls -> {Idle} \cup Waits \cup Replies]
  BY DEF TypeOK, ClientOK
<1>7. PTTL(e) > 0 => g.stage # "wait"
  OBVIOUS
<1>8. Idle.stage = "idle"
  BY DEF Idle
<1> HIDE DEF e, g
<1>9. ASSUME NEW i \in 1..MaxCalls
      PROVE \/ client'[i] = client[i]
            \/ client'[i].stage = "idle"
            \/ client'[i].stage = "got" /\ client'[i].since + client'[i].ttl <= client'[i].dl
  BY <1>1, <1>2, <1>4, <1>6, <1>8
<1> QED BY <1>5, <1>9 DEF ClockInv, Lasts

\* A reply is used as it was given.
LEMMA ClockTakeReply ==
    ASSUME TypeOK, ClockInv, NEW i \in 1..MaxCalls, TakeReply(i)
    PROVE  ClockInv'
<1>1. client[i] \in Replies /\ client[i].stage = "got"
  BY WaitType DEF TypeOK, TakeReply
<1>2. client[i].since + client[i].ttl <= client[i].dl
  BY <1>1 DEF ClockInv
<1>3. ~(Anchor(client[i]) + client[i].ttl > client[i].dl)
  BY <1>1, <1>2 DEF Anchor, Replies
<1>4. slack = FALSE
  BY DEF ClockInv
<1>5. slack' = FALSE
  BY <1>3, <1>4 DEF TakeReply
<1>6. wire' = wire /\ now' = now /\ calls' = calls /\ client' = [client EXCEPT ![i] = Idle]
  BY DEF TakeReply
<1>7. client \in [1..MaxCalls -> {Idle} \cup Waits \cup Replies] /\ Idle.stage = "idle"
  BY DEF TypeOK, ClientOK, Idle
<1>8. \A j \in 1..MaxCalls : client'[j] = client[j] \/ client'[j].stage = "idle"
  BY <1>6, <1>7
<1> QED BY <1>5, <1>6, <1>8 DEF ClockInv, Lasts

\* A retry starts when its call did.
LEMMA ClockTimeout ==
    ASSUME TypeOK, ClockInv, NEW i \in 1..MaxCalls, Timeout(i)
    PROVE  ClockInv'
<1> DEFINE r == client[i].cmd
           again == [r EXCEPT !.try = @ + 1]
<1>1. r \in Commands /\ client[i].stage = "wait"
  BY WaitType DEF TypeOK, Timeout
<1>2. again.id = i /\ again.since = client[i].since /\ i <= calls /\ Lasts(client[i].since)
  BY <1>1 DEF ClockInv, Commands
<1>3. \/ client' = [client EXCEPT ![i] = Waiting(again)] /\ wire' = wire \cup {again}
      \/ client' = [client EXCEPT ![i] = Idle] /\ wire' = wire
  BY DEF Timeout
<1> HIDE DEF again
<1>4. Waiting(again).stage = "wait" /\ Waiting(again).cmd = again /\ Waiting(again).since = again.since
  BY DEF Waiting
<1>5. client \in [1..MaxCalls -> {Idle} \cup Waits \cup Replies] /\ Idle.stage = "idle"
  BY DEF TypeOK, ClientOK, Idle
<1>6. now' = now /\ calls' = calls /\ slack' = slack
  BY DEF Timeout
<1>7. \A q \in wire' : Lasts(q.since)' /\ q.id <= calls'
  BY <1>2, <1>3, <1>6 DEF ClockInv, Lasts
<1>8. ASSUME NEW j \in 1..MaxCalls
      PROVE  /\ client'[j].stage = "wait" =>
                  /\ client'[j].cmd.id = j /\ j <= calls'
                  /\ client'[j].cmd.since = client'[j].since /\ Lasts(client[j].since)'
             /\ client'[j].stage = "got" => client'[j].since + client'[j].ttl <= client'[j].dl
  <2>1. CASE j = i
    <3>1. client'[j] = Waiting(again) \/ client'[j].stage = "idle"
      BY <1>3, <1>5, <2>1
    <3> QED BY <1>2, <1>4, <1>6, <2>1, <3>1 DEF Lasts
  <2>2. CASE j # i
    <3>1. client'[j] = client[j]
      BY <1>3, <1>5, <2>2
    <3> QED BY <1>6, <3>1 DEF ClockInv, Lasts
  <2> QED BY <2>1, <2>2
<1> QED BY <1>6, <1>7, <1>8 DEF ClockInv

\* What is over is dropped as the clock moves.
LEMMA ClockTick ==
    ASSUME TypeOK, ClockInv, Tick
    PROVE  ClockInv'
<1>1. now' = now + 1 /\ calls' = calls /\ slack' = slack
      /\ wire' = {r \in wire : now < r.since + CallBudget}
      /\ client' = [i \in 1..MaxCalls |->
                    IF client[i] # Idle /\ now < client[i].since + CallBudget THEN client[i] ELSE Idle]
  BY DEF Tick
<1>2. ASSUME NEW t \in Nat, Lasts(t), now < t + CallBudget PROVE Lasts(t)'
  BY <1>1, <1>2, RedisAssumption DEF Lasts, TypeOK, ServerOK
<1>3. \A q \in wire' : Lasts(q.since)' /\ q.id <= calls'
  <2>1. \A q \in wire : q.since \in Nat
    BY DEF TypeOK, ClientOK, Commands
  <2> QED BY <1>1, <1>2, <2>1 DEF ClockInv
<1>4. Idle.stage = "idle"
  BY DEF Idle
<1>5. ASSUME NEW j \in 1..MaxCalls
      PROVE  /\ client'[j].stage = "wait" =>
                  /\ client'[j].cmd.id = j /\ j <= calls'
                  /\ client'[j].cmd.since = client'[j].since /\ Lasts(client[j].since)'
             /\ client'[j].stage = "got" => client'[j].since + client'[j].ttl <= client'[j].dl
  <2>1. \/ client'[j] = client[j] /\ now < client[j].since + CallBudget
        \/ client'[j].stage = "idle"
    BY <1>1, <1>4
  <2>2. client[j].stage = "wait" => client[j].since \in Nat
    BY WaitType DEF TypeOK, Waits
  <2> QED BY <1>1, <1>2, <2>1, <2>2 DEF ClockInv
<1> QED BY <1>1, <1>3, <1>5 DEF ClockInv

\* Every step keeps the clocks of the calls.
LEMMA ClockNext ==
    ASSUME TypeOK, ClockInv, [Next]_vars
    PROVE  ClockInv'
<1>1. CASE UNCHANGED <<now, wire, client, calls, slack>>
  BY <1>1 DEF ClockInv, Lasts
<1>2. CASE UNCHANGED vars
  BY <1>1, <1>2 DEF vars, serverVars, voteVars, askVars
<1>3. CASE \E k \in Poked : Poke(k)
  BY <1>1, <1>3 DEF Poke
<1>4. CASE Prepare \/ Page \/ Values \/ Heal \/ EndScan \/ AbortScan
  BY <1>1, <1>4 DEF Prepare, Page, Values, Heal, EndScan, AbortScan, scanStep
<1>5. CASE VoteSteps
  BY <1>1, <1>5, VotesElsewhere DEF voteStep, serverVars
<1> QED BY <1>2, <1>3, <1>4, <1>5, ClockCall, ClockTimeout, ClockTakeReply, ClockExec, ClockTick
     DEF Next

\* The clocks of the calls, in every behaviour.
LEMMA ClockCorrect == Spec => []ClockInv
<1>1. Init => ClockInv
  BY ClockInit
<1>2. TypeOK /\ ClockInv /\ [Next]_vars => ClockInv'
  BY ClockNext
<1> QED BY <1>1, <1>2, TypeCorrect, PTL DEF Spec

\* The expiry GetWithExpiry reports is never later than the key's, whatever time
\* the command and its reply took (redisStore.GetWithExpiry, expiry.go).
THEOREM ReadExpiry == Spec => []ReadExpiryIsSafe
<1>1. ClockInv => ReadExpiryIsSafe
  BY DEF ClockInv, ReadExpiryIsSafe
<1> QED BY <1>1, ClockCorrect, PTL

----------------------------------------------------------------------------

\* A block has time left.
Alive(k) == kv[k] # None /\ (kv[k].dl = 0 \/ now < kv[k].dl)

\* A block with time left is one that EXISTS with a PTTL other than zero.
LEMMA AliveMeans ==
    ASSUME ServerOK, NEW k \in Keys
    PROVE  /\ Alive(k) <=> Exists(kv[k]) /\ PTTL(kv[k]) # 0
           /\ Alive(k) <=> GET(k) # None /\ PTTL(GET(k)) # 0
<1>1. kv[k] \in Entries /\ now \in Nat
  BY DEF ServerOK
<1>2. Alive(k) <=> Exists(kv[k]) /\ PTTL(kv[k]) # 0
  BY <1>1 DEF Alive, Exists, PTTL, Entries
<1> QED BY <1>2, EntryType

\* IndexCoversBlocks in those words,
LEMMA IndexCovers ==
    ASSUME ServerOK
    PROVE  IndexCoversBlocks <=>
             \A k \in Blocks : Alive(k) => k \in DOMAIN index /\ index[k] = Score(kv[k])
<1>1. \A k \in Blocks : Alive(k) <=> Exists(kv[k]) /\ PTTL(kv[k]) # 0
  BY AliveMeans DEF Keys
<1> QED BY <1>1 DEF IndexCoversBlocks

\* and after a step.
LEMMA IndexCoversPrimed ==
    ASSUME ServerOK', \A k \in Blocks : Alive(k)' => k \in DOMAIN index' /\ index'[k] = Score(kv'[k])
    PROVE  IndexCoversBlocks'
<1>1. ASSUME NEW k \in Blocks, Exists(kv[k])', PTTL(kv[k])' # 0
      PROVE  Alive(k)'
  <2>1. kv'[k] \in Entries /\ now' \in Nat
    BY DEF ServerOK, Keys
  <2> QED BY <1>1, <2>1 DEF Alive, Exists, PTTL, Entries
<1>2. ASSUME NEW k \in Blocks, Exists(kv[k])', PTTL(kv[k])' # 0
      PROVE  k \in DOMAIN index' /\ index'[k] = Score(kv'[k])
  BY <1>1, <1>2
<1> QED BY <1>2 DEF IndexCoversBlocks

\* The blocks at start are indexed.
LEMMA IndexInit ==
    ASSUME Init
    PROVE  IndexCoversBlocks
<1>1. ServerOK
  BY TypeInit DEF TypeOK
<1>2. \A k \in Blocks : Alive(k) => k \in DOMAIN index /\ index[k] = Score(kv[k])
  BY DEF Init, Alive
<1> QED BY <1>1, <1>2, IndexCovers

\* What the last part of a script makes of the index.
LEMMA IndexAfterEffect ==
    ASSUME ServerOK, NEW r \in Commands
    PROVE  LET x == IndexAfter(r.c, Run(r)) IN
           /\ \A k \in DOMAIN index \ {r.c.key} : k \in DOMAIN x /\ x[k] = index[k]
           /\ DOMAIN x \subseteq DOMAIN index \cup {r.c.key}
           /\ Indexes(r.c, Run(r)) => /\ r.c.key \in Blocks /\ r.c.key \in DOMAIN x
                                      /\ x[r.c.key] = Score(Run(r).kv[r.c.key])
           /\ ~Indexes(r.c, Run(r)) /\ ~Drops(r.c, Run(r)) => x = index
<1>1. CASE Indexes(r.c, Run(r))
  BY <1>1 DEF IndexAfter, Indexes, WritesBlock, Put
<1>2. CASE ~Indexes(r.c, Run(r)) /\ Drops(r.c, Run(r))
  BY <1>2 DEF IndexAfter, Keep
<1>3. CASE ~Indexes(r.c, Run(r)) /\ ~Drops(r.c, Run(r))
  BY <1>3 DEF IndexAfter
<1> QED BY <1>1, <1>2, <1>3

\* A script that writes a block indexes it under its deadline, one that removes a
\* block leaves none to index, and no script touches a second block.
LEMMA IndexExec ==
    ASSUME TypeOK, TypeOK', IndexCoversBlocks, NEW r \in wire, Exec(r)
    PROVE  IndexCoversBlocks'
<1>1. r \in Commands /\ ServerOK
  BY DEF TypeOK, ClientOK
<1>2. kv' = Run(r).kv /\ index' = IndexAfter(r.c, Run(r)) /\ now' = now
  BY DEF Exec
<1>3. ASSUME NEW k \in Blocks, Alive(k)'
      PROVE k \in DOMAIN index' /\ index'[k] = Score(kv'[k])
  <2>1. CASE kv'[k] = kv[k] /\ (k # r.c.key \/ index' = index)
    <3>1. Alive(k)
      BY <1>2, <1>3, <2>1 DEF Alive
    <3>2. k \in DOMAIN index /\ index[k] = Score(kv[k])
      BY <1>1, <3>1, IndexCovers
    <3>3. k \in DOMAIN index' /\ index'[k] = index[k]
      BY <1>1, <1>2, <2>1, <3>2, IndexAfterEffect
    <3> QED BY <2>1, <3>2, <3>3
  <2>2. CASE k # r.c.key
    BY <1>1, <1>2, <2>1, <2>2, RunEffect
  <2>3. CASE k = r.c.key /\ Indexes(r.c, Run(r))
    BY <1>1, <1>2, <2>3, IndexAfterEffect
  <2>4. CASE k = r.c.key /\ Drops(r.c, Run(r))
    <3>1. kv'[k] = None
      BY <1>1, <1>2, <2>4, RunEffect
    <3> QED BY <1>3, <3>1 DEF Alive
  <2>5. CASE k = r.c.key /\ ~Indexes(r.c, Run(r)) /\ ~Drops(r.c, Run(r))
    <3>1. kv'[k] = kv[k] /\ index' = index
      BY <1>1, <1>2, <2>5, RunEffect, IndexAfterEffect
    <3> QED BY <2>1, <3>1
  <2> QED BY <2>2, <2>3, <2>4, <2>5
<1> QED BY <1>3, IndexCoversPrimed DEF TypeOK

\* A deletion leaves one block less to cover.
LEMMA IndexPoke ==
    ASSUME TypeOK, TypeOK', IndexCoversBlocks, NEW k \in Poked, Poke(k)
    PROVE  IndexCoversBlocks'
<1>1. kv \in [Keys -> Entries] /\ kv' = [kv EXCEPT ![k] = None] /\ index' = index /\ now' = now
  BY DEF TypeOK, ServerOK, Poke
<1>2. ASSUME NEW j \in Blocks, Alive(j)'
      PROVE j \in DOMAIN index' /\ index'[j] = Score(kv'[j])
  <2>1. kv'[j] = kv[j] \/ kv'[j] = None
    BY <1>1 DEF Keys
  <2>2. kv'[j] = kv[j] /\ Alive(j)
    BY <1>1, <1>2, <2>1 DEF Alive
  <2> QED BY <1>1, <2>2, IndexCovers DEF TypeOK
<1> QED BY <1>2, IndexCoversPrimed DEF TypeOK

\* The clock leaves fewer blocks with time left.
LEMMA IndexTick ==
    ASSUME TypeOK, TypeOK', IndexCoversBlocks, Tick
    PROVE  IndexCoversBlocks'
<1>1. kv' = kv /\ index' = index /\ now' = now + 1 /\ now \in Nat /\ kv \in [Keys -> Entries]
  BY DEF TypeOK, ServerOK, Tick, serverVars
<1>2. ASSUME NEW j \in Blocks, Alive(j)'
      PROVE j \in DOMAIN index' /\ index'[j] = Score(kv'[j])
  <2>1. kv[j] \in Entries
    BY <1>1 DEF Keys
  <2>2. Alive(j)
    BY <1>1, <1>2, <2>1 DEF Alive, Entries
  <2> QED BY <1>1, <2>2, IndexCovers DEF TypeOK
<1> QED BY <1>2, IndexCoversPrimed DEF TypeOK

\* What is dropped from the index is not a block with time left.
LEMMA IndexShrinks ==
    ASSUME TypeOK, TypeOK', IndexCoversBlocks, kv' = kv, now' = now,
           NEW D \in SUBSET DOMAIN index, index' = Keep(D),
           \A k \in Blocks : Alive(k) /\ k \in DOMAIN index => k \in D
    PROVE  IndexCoversBlocks'
<1>1. ASSUME NEW j \in Blocks, Alive(j)'
      PROVE j \in DOMAIN index' /\ index'[j] = Score(kv'[j])
  <2>1. Alive(j)
    BY <1>1 DEF Alive
  <2>2. j \in DOMAIN index /\ index[j] = Score(kv[j]) /\ j \in D
    BY <2>1, IndexCovers DEF TypeOK
  <2> QED BY <2>2 DEF Keep
<1> QED BY <1>1, IndexCoversPrimed DEF TypeOK

\* An entry dropped as expired is not over a block with time left: a permanent
\* block's score is beyond every clock.
LEMMA IndexPrepare ==
    ASSUME TypeOK, TypeOK', IndexCoversBlocks, Prepare
    PROVE  IndexCoversBlocks'
<1> DEFINE dead == {k \in DOMAIN index : index[k] <= now}
<1>1. index' = Keep(DOMAIN index \ dead) /\ kv' = kv /\ now' = now
  BY DEF Prepare, scanStep
<1>2. ASSUME NEW k \in Blocks, Alive(k), k \in DOMAIN index PROVE k \notin dead
  <2>1. index[k] = Score(kv[k])
    BY <1>2, IndexCovers DEF TypeOK
  <2>2. kv[k] \in Entries /\ now \in Nat /\ now < Forever
    BY RedisAssumption DEF TypeOK, ServerOK, Keys, Forever
  <2>3. ~(Score(kv[k]) <= now)
    BY <1>2, <2>2 DEF Alive, Score, Entries, Forever
  <2> QED BY <2>1, <2>3
<1>3. DOMAIN index \ dead \in SUBSET DOMAIN index
      /\ \A k \in Blocks : Alive(k) /\ k \in DOMAIN index => k \in DOMAIN index \ dead
  BY <1>2
<1> HIDE DEF dead
<1> QED BY <1>1, <1>3, IndexShrinks

\* Healing drops only what is absent as the script runs, not what was as the scan
\* read it.
LEMMA IndexHeal ==
    ASSUME TypeOK, TypeOK', IndexCoversBlocks, Heal
    PROVE  IndexCoversBlocks'
<1> DEFINE gone == Healed(scan.batch) \cap DOMAIN index
           D == DOMAIN index \ gone
<1>1. kv' = kv /\ now' = now
  BY DEF Heal, scanStep
<1>2. index' = index \/ index' = Keep(D)
  BY DEF Heal
<1>3. ASSUME NEW k \in Blocks, Alive(k), k \in DOMAIN index PROVE k \in D
  <2>1. Exists(kv[k])
    BY <1>3, AliveMeans DEF TypeOK, Keys
  <2> QED BY <1>3, <2>1 DEF Healed
<1>4. D \in SUBSET DOMAIN index
  OBVIOUS
<1>5. CASE index' = index
  BY <1>1, <1>5 DEF IndexCoversBlocks, Exists, PTTL
<1>6. CASE index' = Keep(D)
  <2> HIDE DEF D
  <2> QED BY <1>1, <1>3, <1>4, <1>6, IndexShrinks
<1> QED BY <1>2, <1>5, <1>6

\* Every step keeps the index over the blocks.
LEMMA IndexNext ==
    ASSUME TypeOK, TypeOK', IndexCoversBlocks, [Next]_vars
    PROVE  IndexCoversBlocks'
<1>1. CASE UNCHANGED <<now, kv, index>>
  BY <1>1 DEF IndexCoversBlocks, Exists, PTTL
<1>2. CASE UNCHANGED vars
  BY <1>1, <1>2 DEF vars, serverVars, voteVars, askVars
<1>3. CASE Call \/ \E i \in 1..MaxCalls : Timeout(i) \/ TakeReply(i)
  BY <1>1, <1>3 DEF Call, Timeout, TakeReply, serverVars
<1>4. CASE Page \/ Values \/ EndScan \/ AbortScan
  BY <1>1, <1>4 DEF Page, Values, EndScan, AbortScan, scanStep
<1>5. CASE VoteSteps
  BY <1>1, <1>5, VotesElsewhere DEF voteStep, serverVars
<1> QED BY <1>2, <1>3, <1>4, <1>5, IndexExec, IndexPoke, IndexPrepare, IndexHeal, IndexTick
     DEF Next

\* Every block with time left is in the index under its own deadline, whatever
\* expiry, deletion by others and a scan that heals under new blocks have done
\* (redisHealBlockIndexScript, redisPrepareBlockIndexScript and the index part of
\* every script that writes or removes a block).
THEOREM IndexCorrect == Spec => []IndexCoversBlocks
<1>1. Init => IndexCoversBlocks
  BY IndexInit
<1>2. TypeOK /\ TypeOK' /\ IndexCoversBlocks /\ [Next]_vars => IndexCoversBlocks'
  BY IndexNext
<1> QED BY <1>1, <1>2, TypeCorrect, PTL DEF Spec

----------------------------------------------------------------------------
\* What a script makes of the window counter.
LEMMA RunWindow ==
    ASSUME ServerOK, WindowsExpire, NEW r \in Commands
    PROVE  Run(r).kv["win"] = None \/ Run(r).kv["win"].dl # 0
<1> DEFINE c == r.c
           key == r.c.key
           Good(e) == e = None \/ e.dl # 0
<1> USE DEF Effect
<1>1. c \in Calls /\ r.id \in Nat /\ key \in Keys /\ "win" \in Keys /\ "win" \notin Blocks
  <2>1. c \in Calls /\ r.id \in Nat
    BY DEF Commands
  <2> QED BY <2>1, RedisAssumption DEF Keys
<1>2. kv \in [Keys -> Entries] /\ Good(kv["win"]) /\ now \in Nat
  BY DEF ServerOK, WindowsExpire
<1>3. ASSUME NEW e, NEW k \in Keys, Good(e) \/ k # "win"
      PROVE Good([kv EXCEPT ![k] = e]["win"])
  BY <1>1, <1>2, <1>3
<1>4. SUFFICES Good(Run(r).kv["win"])
  OBVIOUS
<1>5. CASE Run(r).kv = kv
  BY <1>2, <1>5
<1>6. CASE c.op \in {"Set", "CompareAndSwap"}
  <2>1. c.ttl \in Int /\ (key = "win" => c.ttl > 0)
    BY <1>1, <1>6, RedisAssumption
  <2>2. pexpireArg(c.ttl) \in Nat /\ (key = "win" => pexpireArg(c.ttl) > 0)
    BY <2>1, PexpireType
  <2> DEFINE e == SetPX(r.id, pexpireArg(c.ttl))
  <2>3. key = "win" => e.dl # 0
    <3>1. pexpireArg(c.ttl) \in Int
      BY <2>2
    <3>2. e.dl = IF pexpireArg(c.ttl) > 0 THEN now + pexpireArg(c.ttl) ELSE 0
      BY <1>1, <3>1, SetPXType
    <3> QED BY <1>2, <2>2, <3>2
  <2>4. Run(r).kv = kv \/ Run(r).kv = [kv EXCEPT ![key] = e]
    BY <1>1, <1>6, RunOf DEF SetScript, casScript, Unapplied
  <2> HIDE DEF e
  <2>5. CASE Run(r).kv = [kv EXCEPT ![key] = e]
    BY <1>1, <1>3, <2>3, <2>5
  <2> QED BY <1>5, <2>4, <2>5
<1>7. CASE c.op \in {"Delete", "CompareAndDelete"}
  <2>1. Run(r).kv = kv \/ Run(r).kv = [kv EXCEPT ![key] = None]
    BY <1>1, <1>7, RunOf DEF DelScript, cadScript, Unapplied
  <2> QED BY <1>1, <1>3, <1>5, <2>1
<1>8. CASE c.op = "IncrByDeadline"
  <2> DEFINE d == deadlineMillis(c.deadline)
             g == GET(key)
             e == IF g = None THEN Entry(c.delta, IF d > 0 THEN d ELSE 0)
                  ELSE Entry(g.val + c.delta, g.dl)
  <2>1. c.deadline \in Int /\ (key = "win" => c.deadline # 0)
    BY <1>1, <1>8, RedisAssumption
  <2>2. d \in Int /\ (key = "win" => d > 0 \/ d = -1)
    BY <2>1, DeadlineType
  <2>3. \/ Run(r).kv = kv
        \/ Run(r).kv = [kv EXCEPT ![key] = e] /\ ~(d # 0 /\ now >= d)
    BY <1>1, <1>8, RunOf DEF incrByDeadlineScript, Unapplied
  <2>4. ASSUME key = "win", ~(d # 0 /\ now >= d) PROVE e.dl # 0
    <3> HIDE DEF d
    <3>1. d > 0
      BY <1>2, <2>2, <2>4
    <3>2. g = None \/ g.dl # 0
      BY <1>2, <2>4 DEF GET
    <3> HIDE DEF g
    <3> QED BY <2>2, <3>1, <3>2 DEF Entry
  <2> HIDE DEF e
  <2> QED BY <1>1, <1>3, <1>5, <2>3, <2>4
<1>9. CASE c.op = "CommitBlock"
  <2> DEFINE K == [kv EXCEPT !["ctr"] = Count(c)]
             e == SetPX(r.id, Ladder(c, Count(c).val))
  <2>1. key # "win"
    BY <1>1, <1>9, RedisAssumption
  <2>2. Run(r).kv = kv \/ Run(r).kv = [K EXCEPT ![key] = e]
    BY <1>1, <1>9, RunOf DEF commitBlockScript, Unapplied
  <2>3. DOMAIN K = Keys /\ K["win"] = kv["win"]
    BY <1>1, <1>2
  <2> HIDE DEF K, e
  <2>4. [K EXCEPT ![key] = e]["win"] = kv["win"]
    BY <1>1, <2>1, <2>3
  <2> QED BY <1>2, <1>5, <2>2, <2>4
<1>10. CASE c.op = "CommitEvent"
  <2> DEFINE e == Count(c)
  <2>1. Run(r).kv = kv \/ Run(r).kv = [kv EXCEPT !["ctr"] = e]
    BY <1>1, <1>10, RunOf DEF commitEventScript, Unapplied
  <2>2. "ctr" \in Keys
    BY DEF Keys
  <2> HIDE DEF e
  <2> QED BY <1>3, <1>5, <2>1, <2>2
<1>11. CASE c.op = "CommitUnblock"
  <2> DEFINE K1 == [kv EXCEPT !["hold"] = SetPX(r.id, pexpireArg(c.ttl))]
             K2 == [K1 EXCEPT !["gen"] = SetPX(r.id, pexpireArg(c.genTTL))]
             K3 == [K2 EXCEPT ![key] = None]
             K  == [K3 EXCEPT !["ctr"] = IF c.reset THEN None ELSE K3["ctr"]]
  <2>1. Run(r).kv = K
    BY <1>1, <1>11, RunOf DEF commitUnblockScript
  <2>2. key # "win"
    BY <1>1, <1>11, RedisAssumption
  <2>3. DOMAIN K1 = Keys /\ K1["win"] = kv["win"]
    BY <1>1, <1>2
  <2> HIDE DEF K1
  <2>4. DOMAIN K2 = Keys /\ K2["win"] = kv["win"]
    BY <1>1, <2>3
  <2> HIDE DEF K2
  <2>5. DOMAIN K3 = Keys /\ K3["win"] = kv["win"]
    BY <1>1, <2>4, <2>2
  <2> HIDE DEF K3
  <2>6. K["win"] = kv["win"]
    BY <1>1, <2>5
  <2> QED BY <1>2, <2>1, <2>6
<1>12. CASE c.op = "GetWithExpiry"
  BY <1>1, <1>5, <1>12, RunOf DEF Unapplied
<1> QED BY <1>1, <1>6, <1>7, <1>8, <1>9, <1>10, <1>11, <1>12, RedisAssumption

\* No step leaves a window counter without a deadline.
LEMMA WindowNext ==
    ASSUME TypeOK, WindowsExpire, [Next]_vars
    PROVE  WindowsExpire'
<1>1. CASE kv' = kv
  BY <1>1 DEF WindowsExpire
<1>2. CASE UNCHANGED vars
  BY <1>1, <1>2 DEF vars, serverVars, voteVars, askVars
<1>3. CASE Call \/ Tick \/ \E i \in 1..MaxCalls : Timeout(i) \/ TakeReply(i)
  BY <1>1, <1>3 DEF Call, Tick, Timeout, TakeReply, serverVars
<1>4. CASE Prepare \/ Page \/ Values \/ Heal \/ EndScan \/ AbortScan
  BY <1>1, <1>4 DEF Prepare, Page, Values, Heal, EndScan, AbortScan, scanStep
<1>5. CASE VoteSteps
  BY <1>1, <1>5, VotesElsewhere DEF voteStep, serverVars
<1>7. ASSUME NEW r \in wire, Exec(r) PROVE WindowsExpire'
  <2>1. kv' = Run(r).kv
    BY <1>7 DEF Exec
  <2>2. r \in Commands
    BY <1>7 DEF TypeOK, ClientOK
  <2> QED BY <2>1, <2>2, RunWindow DEF TypeOK, WindowsExpire
<1>8. ASSUME NEW k \in Poked, Poke(k) PROVE WindowsExpire'
  <2>1. kv' = [kv EXCEPT ![k] = None] /\ kv \in [Keys -> Entries] /\ "win" \in Keys
    BY <1>8 DEF Poke, TypeOK, ServerOK, Keys
  <2> QED BY <2>1 DEF WindowsExpire
<1> QED BY <1>2, <1>3, <1>4, <1>5, <1>7, <1>8 DEF Next

\* A window counter never becomes a permanent key: a sub-millisecond deadline is
\* rounded up, a passed one refused, and an increment keeps the one it finds
\* (incrByDeadlineScript, deadlineMillis).
THEOREM WindowsCorrect == Spec => []WindowsExpire
<1>1. Init => WindowsExpire
  BY RedisAssumption DEF Init, WindowsExpire
<1>2. TypeOK /\ WindowsExpire /\ [Next]_vars => WindowsExpire'
  BY WindowNext
<1> QED BY <1>1, <1>2, TypeCorrect, PTL DEF Spec

----------------------------------------------------------------------------

\* A vote in a sorted set is the last the server ran of its instance, at that level, and the
\* set outlives it; a vote still running is in its set.
VoteInv ==
    /\ \A l \in 1..2 : \A i \in DOMAIN zset[l] :
          mine[i].level = l /\ mine[i].dl = zset[l][i] /\ zset[l][i] <= zexp[l]
    /\ \A i \in Insts : mine[i].dl > now => mine[i].level \in 1..2 /\ i \in DOMAIN zset[mine[i].level]

\* A running vote is in a sorted set that has not expired.
LEMMA RunningSet ==
    ASSUME TypeOK, VoteInv
    PROVE  /\ \A l \in 1..2 : DOMAIN zset[l] \in SUBSET Insts
           /\ \A l \in 1..2 : DOMAIN ZSet(l) \in SUBSET DOMAIN zset[l]
           /\ \A l \in 1..2 : \A i \in DOMAIN ZSet(l) : ZSet(l)[i] = zset[l][i]
           /\ \A i \in Insts : mine[i].dl > now => i \in DOMAIN ZSet(mine[i].level)
<1>1. now \in Nat /\ VotesOK /\ mine \in [Insts -> [level : 0..2, dl : Nat]] /\ zexp \in [1..2 -> Nat]
  BY DEF TypeOK, ServerOK, VotesOK
<1>2. \A l \in 1..2 : DOMAIN zset[l] \in SUBSET Insts
  BY <1>1, PartialElim DEF VotesOK
<1>3. \A l \in 1..2 : ZSet(l) = zset[l] \/ (ZSet(l) = Empty /\ now > zexp[l])
  BY <1>1, ZSetType
<1>4. DOMAIN Empty = {}
  BY DEF Empty
<1>5. ASSUME NEW i \in Insts, mine[i].dl > now PROVE i \in DOMAIN ZSet(mine[i].level)
  <2>1. mine[i].level \in 1..2 /\ i \in DOMAIN zset[mine[i].level]
    BY <1>5 DEF VoteInv
  <2>2. mine[i].dl <= zexp[mine[i].level]
    BY <2>1 DEF VoteInv
  <2>3. mine[i].dl \in Nat /\ zexp[mine[i].level] \in Nat
    BY <1>1, <2>1
  <2>4. ZSet(mine[i].level) = zset[mine[i].level]
    BY <1>1, <1>5, <2>2, <2>3 DEF ZSet
  <2> QED BY <2>1, <2>4
<1> QED BY <1>2, <1>3, <1>4, <1>5

\* A vote moves its instance from one set to the other, and extends the expiry of
\* the set to its own if that is later.
LEMMA VoteSet ==
    ASSUME TypeOK, VoteInv, NEW i \in Insts, NEW l \in 1..2, NEW ttl \in Nat,
           redisSetPostureScript(i, l, ttl), now' = now
    PROVE  VoteInv'
<1>1. ASSUME NEW m \in 1..2, NEW j \in DOMAIN zset'[m]
      PROVE  mine'[j].level = m /\ mine'[j].dl = zset'[m][j] /\ zset'[m][j] <= zexp'[m]
  <2>1. CASE j = i
    <3>1. m = l
      BY <1>1, <2>1, VoteEffect
    <3>2. zset'[m][j] = now + ttl /\ zexp'[m] >= now + ttl /\ mine'[j].level = l /\ mine'[j].dl = now + ttl
      BY <2>1, <3>1, VoteEffect
    <3>3. now + ttl \in Int /\ zexp'[m] \in Int
      BY <1>1, VoteEffect, RedisAssumption DEF TypeOK, ServerOK
    <3> QED BY <3>1, <3>2, <3>3
  <2>2. CASE j # i
    <3>1. j \in DOMAIN ZSet(m) \ {i} /\ zset'[m][j] = ZSet(m)[j]
      BY <1>1, <2>2, VoteEffect
    <3>2. j \in DOMAIN zset[m] /\ j \in Insts /\ zset'[m][j] = zset[m][j]
      BY <3>1, RunningSet
    <3>3. mine'[j] = mine[j] /\ zexp'[m] >= zexp[m]
      BY <2>2, <3>1, <3>2, VoteEffect
    <3>4. mine[j].level = m /\ mine[j].dl = zset[m][j] /\ zset[m][j] <= zexp[m]
      BY <3>2 DEF VoteInv
    <3>5. mine[j].dl \in Nat /\ zexp[m] \in Nat /\ zexp'[m] \in Nat
      BY <3>2, VoteEffect DEF TypeOK, VotesOK
    <3> QED BY <3>2, <3>3, <3>4, <3>5
  <2> QED BY <2>1, <2>2
<1>2. ASSUME NEW j \in Insts, mine'[j].dl > now'
      PROVE  mine'[j].level \in 1..2 /\ j \in DOMAIN zset'[mine'[j].level]
  <2>1. CASE j = i
    BY <2>1, VoteEffect
  <2>2. CASE j # i
    <3>1. mine'[j] = mine[j] /\ now' = now
      BY <2>2, VoteEffect
    <3>2. mine[j].level \in 1..2 /\ j \in DOMAIN ZSet(mine[j].level)
      BY <1>2, <3>1, RunningSet DEF VoteInv
    <3> QED BY <2>2, <3>1, <3>2, VoteEffect
  <2> QED BY <2>1, <2>2
<1> QED BY <1>1, <1>2 DEF VoteInv

\* A withdrawn vote leaves the votes of the others.
LEMMA VoteDelete ==
    ASSUME TypeOK, VoteInv, NEW i \in Insts, redisDeletePostureScript(i), now' = now
    PROVE  VoteInv'
<1>1. ASSUME NEW m \in 1..2, NEW j \in DOMAIN zset'[m]
      PROVE  mine'[j].level = m /\ mine'[j].dl = zset'[m][j] /\ zset'[m][j] <= zexp'[m]
  <2>1. j \in DOMAIN ZSet(m) \ {i} /\ zset'[m][j] = ZSet(m)[j] /\ zexp' = zexp
    BY <1>1, UnvoteEffect
  <2>2. j \in DOMAIN zset[m] /\ j \in Insts \ {i} /\ zset'[m][j] = zset[m][j]
    BY <2>1, RunningSet
  <2>3. mine'[j] = mine[j]
    BY <2>2, UnvoteEffect
  <2> QED BY <2>1, <2>2, <2>3 DEF VoteInv
<1>2. ASSUME NEW j \in Insts, mine'[j].dl > now'
      PROVE  mine'[j].level \in 1..2 /\ j \in DOMAIN zset'[mine'[j].level]
  <2>1. now' = now /\ now \in Nat
    BY UnvoteEffect DEF TypeOK, ServerOK
  <2>2. j # i
    BY <1>2, <2>1, UnvoteEffect
  <2>3. mine'[j] = mine[j]
    BY <2>2, UnvoteEffect
  <2>4. mine[j].level \in 1..2 /\ j \in DOMAIN ZSet(mine[j].level)
    BY <1>2, <2>1, <2>3, RunningSet DEF VoteInv
  <2> QED BY <2>2, <2>3, <2>4, UnvoteEffect
<1> QED BY <1>1, <1>2 DEF VoteInv

\* Trimming removes no running vote.
LEMMA VoteTrim ==
    ASSUME TypeOK, VoteInv, TrimVotes
    PROVE  VoteInv'
<1>1. ASSUME NEW m \in 1..2, NEW j \in DOMAIN zset'[m]
      PROVE  mine'[j].level = m /\ mine'[j].dl = zset'[m][j] /\ zset'[m][j] <= zexp'[m]
  <2>1. j \in DOMAIN ZSet(m) /\ zset'[m][j] = zset[m][j] /\ zexp' = zexp /\ mine' = mine
    BY <1>1, TrimEffect
  <2>2. j \in DOMAIN zset[m]
    BY <2>1, RunningSet
  <2> QED BY <2>1, <2>2 DEF VoteInv
<1>2. ASSUME NEW j \in Insts, mine'[j].dl > now'
      PROVE  mine'[j].level \in 1..2 /\ j \in DOMAIN zset'[mine'[j].level]
  <2>1. now' = now /\ mine' = mine
    BY TrimEffect
  <2>2. mine[j].level \in 1..2 /\ j \in DOMAIN ZSet(mine[j].level)
    BY <1>2, <2>1, RunningSet DEF VoteInv
  <2>3. zset[mine[j].level][j] > now
    BY <1>2, <2>1, <2>2, RunningSet DEF VoteInv
  <2> QED BY <2>1, <2>2, <2>3, TrimEffect
<1> QED BY <1>1, <1>2 DEF VoteInv

\* The clock starts no vote.
LEMMA VoteTick ==
    ASSUME TypeOK, VoteInv, Tick
    PROVE  VoteInv'
<1>1. zset' = zset /\ zexp' = zexp /\ mine' = mine /\ now' = now + 1 /\ now \in Nat
  BY DEF Tick, voteVars, askVars, TypeOK, ServerOK
<1>2. \A j \in Insts : mine[j].dl \in Nat
  BY DEF TypeOK, VotesOK
<1> QED BY <1>1, <1>2 DEF VoteInv

\* Every step keeps the votes.
LEMMA VoteNext ==
    ASSUME TypeOK, VoteInv, [Next]_vars
    PROVE  VoteInv'
<1>1. CASE UNCHANGED <<now, zset, zexp, mine>>
  BY <1>1 DEF VoteInv
<1>2. CASE UNCHANGED vars
  BY <1>1, <1>2 DEF vars, voteVars
<1>3. CASE Call \/ \E i \in 1..MaxCalls : Timeout(i) \/ TakeReply(i)
  BY <1>1, <1>3 DEF Call, Timeout, TakeReply, voteVars
<1>4. CASE Prepare \/ Page \/ Values \/ Heal \/ EndScan \/ AbortScan
  BY <1>1, <1>4 DEF Prepare, Page, Values, Heal, EndScan, AbortScan, scanStep, voteVars
<1>5. CASE (\E r \in wire : Exec(r)) \/ (\E k \in Poked : Poke(k))
  BY <1>1, <1>5 DEF Exec, Poke, voteVars
<1>6. CASE \E i \in Insts : \/ \E l \in 1..2, ttl \in VoteTTLs : SetPostureVote(i, l, ttl)
                            \/ DeletePostureVote(i)
                            \/ PostTimeout(i)
  BY <1>1, <1>6 DEF SetPostureVote, DeletePostureVote, Post, PostTimeout, voteStep
<1>7. ASSUME NEW p \in posts, RunPost(p) PROVE VoteInv'
  <2>1. p.inst \in Insts /\ p.level \in 0..2 /\ p.ttl \in Nat /\ now' = now
    BY <1>7 DEF TypeOK, VotesOK, Posts, RunPost, voteStep
  <2>2. CASE p.level # 0 /\ redisSetPostureScript(p.inst, p.level, p.ttl)
    <3>1. p.level \in 1..2
      BY <2>1, <2>2
    <3> QED BY <2>1, <2>2, <3>1, VoteSet
  <2>3. CASE redisDeletePostureScript(p.inst)
    BY <2>1, <2>3, VoteDelete
  <2> QED BY <1>7, <2>2, <2>3 DEF RunPost
<1> QED BY <1>2, <1>3, <1>4, <1>5, <1>6, <1>7, VoteTrim, VoteTick DEF Next, VoteSteps

\* An instance waits for what it last asked for; and unless that is in doubt,
\* everything of it still on the way asks for the same, and so did what the
\* server ran when the call was answered.
AskInv ==
    /\ \A i \in Insts : asking[i] # Idle => asking[i].inst = i /\ asking[i].level = wish[i]
    /\ \A i \in Insts : ~doubt[i] => \A p \in posts : p.inst = i => p.level = wish[i]
    /\ \A i \in Insts : ~doubt[i] /\ asking[i] = Idle => mine[i].level = wish[i]

\* A call is in doubt if a command of an earlier one is on its way.
LEMMA AskPost ==
    ASSUME TypeOK, AskInv, NEW i \in Insts, NEW l \in 0..2, NEW ttl \in Nat, Post(i, l, ttl)
    PROVE  AskInv'
<1> DEFINE p == [id |-> votes + 1, try |-> 0, since |-> now, inst |-> i, level |-> l, ttl |-> ttl]
           x == \E q \in posts : q.inst = i
<1>1. p \in Posts /\ p.inst = i /\ p.level = l
  BY DEF Posts, TypeOK, ServerOK, ClientOK
<1>2. p # Idle
  BY <1>1, PostNotIdle
<1>3. /\ posts' = posts \cup {p} /\ asking' = [asking EXCEPT ![i] = p]
      /\ wish' = [wish EXCEPT ![i] = l] /\ doubt' = [doubt EXCEPT ![i] = x] /\ mine' = mine
  BY DEF Post
<1>4. x <=> \E q \in posts : q.inst = i
  OBVIOUS
<1> HIDE DEF p, x
<1>5. /\ asking'[i] = p /\ wish'[i] = l /\ doubt'[i] = x
      /\ \A j \in Insts \ {i} : asking'[j] = asking[j] /\ wish'[j] = wish[j] /\ doubt'[j] = doubt[j]
  BY <1>3 DEF TypeOK, VotesOK
<1>6. ASSUME NEW j \in Insts
      PROVE  /\ asking'[j] # Idle => asking'[j].inst = j /\ asking'[j].level = wish'[j]
             /\ ~doubt'[j] => \A q \in posts' : q.inst = j => q.level = wish'[j]
             /\ ~doubt'[j] /\ asking'[j] = Idle => mine'[j].level = wish'[j]
  <2>1. CASE j = i
    BY <1>1, <1>2, <1>3, <1>4, <1>5, <2>1
  <2>2. CASE j # i
    BY <1>1, <1>3, <1>5, <2>2 DEF AskInv
  <2> QED BY <2>1, <2>2
<1> QED BY <1>6 DEF AskInv

\* The server runs what its instance last asked for, unless that is in doubt.
LEMMA AskRun ==
    ASSUME TypeOK, AskInv, NEW p \in posts, RunPost(p)
    PROVE  AskInv'
<1>1. p \in Posts /\ p.inst \in Insts /\ p.level \in 0..2 /\ p.ttl \in Nat
  BY DEF TypeOK, VotesOK, Posts
<1>2. /\ posts' = posts \ {p} /\ wish' = wish /\ doubt' = doubt
      /\ asking' = asking \/ asking' = [asking EXCEPT ![p.inst] = Idle]
  BY DEF RunPost
<1>3. mine'[p.inst].level = p.level /\ \A j \in Insts \ {p.inst} : mine'[j] = mine[j]
  <2>1. CASE p.level # 0 /\ redisSetPostureScript(p.inst, p.level, p.ttl)
    <3>1. p.level \in 1..2
      BY <1>1, <2>1
    <3> QED BY <1>1, <2>1, <3>1, VoteEffect
  <2>2. CASE p.level = 0 /\ redisDeletePostureScript(p.inst)
    BY <1>1, <2>2, UnvoteEffect
  <2> QED BY <2>1, <2>2 DEF RunPost
<1>4. \A j \in Insts : asking'[j] = asking[j] \/ (j = p.inst /\ asking'[j] = Idle)
  BY <1>1, <1>2 DEF TypeOK, VotesOK
<1>5. ASSUME NEW j \in Insts
      PROVE  /\ asking'[j] # Idle => asking'[j].inst = j /\ asking'[j].level = wish'[j]
             /\ ~doubt'[j] => \A q \in posts' : q.inst = j => q.level = wish'[j]
             /\ ~doubt'[j] /\ asking'[j] = Idle => mine'[j].level = wish'[j]
  <2>1. CASE j = p.inst
    BY <1>2, <1>3, <1>4, <2>1 DEF AskInv
  <2>2. CASE j # p.inst
    BY <1>2, <1>3, <1>4, <2>2 DEF AskInv
  <2> QED BY <2>1, <2>2
<1> QED BY <1>5 DEF AskInv

\* A second attempt asks for the same; a call given up is in doubt.
LEMMA AskTimeout ==
    ASSUME TypeOK, AskInv, NEW i \in Insts, PostTimeout(i)
    PROVE  AskInv'
<1>1. asking[i] # Idle /\ asking[i].inst = i /\ asking[i].level = wish[i] /\ mine' = mine /\ wish' = wish
  BY PostTimeoutEffect DEF AskInv
<1>2. asking \in [Insts -> {Idle} \cup Posts] /\ doubt \in [Insts -> BOOLEAN]
  BY DEF TypeOK, VotesOK
<1>3. ASSUME NEW a \in Posts, a.inst = i, a.level = wish[i], asking' = [asking EXCEPT ![i] = a],
             posts' = posts \cup {a}, doubt' = doubt
      PROVE  AskInv'
  <2>1. a # Idle
    BY PostNotIdle
  <2>2. asking'[i] = a /\ \A j \in Insts \ {i} : asking'[j] = asking[j]
    BY <1>2, <1>3
  <2> QED BY <1>1, <1>3, <2>1, <2>2 DEF AskInv
<1>4. ASSUME asking' = [asking EXCEPT ![i] = Idle], posts' = posts, doubt' = [doubt EXCEPT ![i] = TRUE]
      PROVE  AskInv'
  <2>1. /\ asking'[i] = Idle /\ doubt'[i]
        /\ \A j \in Insts \ {i} : asking'[j] = asking[j] /\ doubt'[j] = doubt[j]
    BY <1>2, <1>4
  <2> QED BY <1>1, <1>4, <2>1 DEF AskInv
<1> QED BY <1>1, <1>3, <1>4, PostTimeoutEffect

\* So is a call that is over without an answer.
LEMMA AskTick ==
    ASSUME TypeOK, AskInv, Tick
    PROVE  AskInv'
<1>1. posts' \in SUBSET posts /\ mine' = mine /\ wish' = wish
  BY DEF Tick
<1>2. ASSUME NEW j \in Insts
      PROVE  \/ asking'[j] = asking[j] /\ doubt'[j] = doubt[j]
             \/ asking'[j] = Idle /\ doubt'[j]
  <2>1. /\ asking'[j] = IF OutOfTime(j) THEN Idle ELSE asking[j]
        /\ doubt'[j] = (doubt[j] \/ OutOfTime(j)) /\ doubt[j] \in BOOLEAN
    BY DEF Tick, TypeOK, VotesOK
  <2> QED BY <2>1
<1> QED BY <1>1, <1>2 DEF AskInv

\* Every step keeps it.
LEMMA AskNext ==
    ASSUME TypeOK, AskInv, [Next]_vars
    PROVE  AskInv'
<1>1. CASE UNCHANGED <<mine, askVars>>
  BY <1>1 DEF AskInv, askVars
<1>2. CASE UNCHANGED vars
  BY <1>1, <1>2 DEF vars, voteVars
<1>3. CASE Call \/ \E i \in 1..MaxCalls : Timeout(i) \/ TakeReply(i)
  BY <1>1, <1>3 DEF Call, Timeout, TakeReply, voteVars
<1>4. CASE Prepare \/ Page \/ Values \/ Heal \/ EndScan \/ AbortScan
  BY <1>1, <1>4 DEF Prepare, Page, Values, Heal, EndScan, AbortScan, scanStep, voteVars
<1>5. CASE (\E r \in wire : Exec(r)) \/ (\E k \in Poked : Poke(k)) \/ TrimVotes
  BY <1>1, <1>5 DEF Exec, Poke, TrimVotes, voteVars
<1>6. ASSUME NEW i \in Insts, NEW l \in 1..2, NEW ttl \in VoteTTLs, SetPostureVote(i, l, ttl)
      PROVE  AskInv'
  BY <1>6, AskPost, RedisAssumption DEF SetPostureVote
<1>7. ASSUME NEW i \in Insts, DeletePostureVote(i) PROVE AskInv'
  BY <1>7, AskPost DEF DeletePostureVote
<1> QED BY <1>2, <1>3, <1>4, <1>5, <1>6, <1>7, AskTimeout, AskRun, AskTick DEF Next, VoteSteps

\* There are no votes at start.
LEMMA VoteInit ==
    ASSUME Init
    PROVE  VoteInv
<1>1. DOMAIN Empty = {}
  BY DEF Empty
<1>2. now = 0 /\ zset = [l \in 1..2 |-> Empty] /\ mine = [i \in Insts |-> [level |-> 0, dl |-> 0]]
  BY DEF Init
<1>3. \A i \in Insts : ~(mine[i].dl > now)
  BY <1>2
<1> QED BY <1>1, <1>2, <1>3 DEF VoteInv

\* So MaxPostureVote sees exactly the running votes of the others.
LEMMA VotesSeen ==
    ASSUME TypeOK, VoteInv, AskInv
    PROVE  VotesAreSeen
<1> SUFFICES ASSUME NEW i \in Insts
             PROVE  LET running == {mine[j].level : j \in {j \in Insts \ {i} : mine[j].dl > now}}
                    IN MaxPostureVote(i) = IF 2 \in running THEN 2 ELSE IF 1 \in running THEN 1 ELSE 0
  BY DEF VotesAreSeen, AskInv
<1> DEFINE running == {mine[j].level : j \in {j \in Insts \ {i} : mine[j].dl > now}}
           others(l) == {j \in DOMAIN ZSet(l) : zset[l][j] > now} \ {i}
<1>1. ASSUME NEW l \in 1..2 PROVE others(l) # {} <=> l \in running
  <2>1. ASSUME NEW j \in others(l) PROVE l \in running
    <3>1. j \in DOMAIN zset[l] /\ j \in Insts \ {i} /\ zset[l][j] > now
      BY <2>1, RunningSet
    <3>2. mine[j].level = l /\ mine[j].dl > now
      BY <3>1 DEF VoteInv
    <3> QED BY <3>1, <3>2
  <2>2. ASSUME l \in running PROVE others(l) # {}
    <3>1. PICK j \in Insts \ {i} : mine[j].dl > now /\ mine[j].level = l
      BY <2>2
    <3>2. j \in DOMAIN ZSet(l) /\ j \in DOMAIN zset[l]
      BY <3>1, RunningSet
    <3>3. zset[l][j] > now
      BY <3>1, <3>2 DEF VoteInv
    <3> QED BY <3>1, <3>2, <3>3
  <2> HIDE DEF others, running
  <2> QED BY <2>1, <2>2
<1>2. MaxPostureVote(i) = IF others(2) # {} THEN 2 ELSE IF others(1) # {} THEN 1 ELSE 0
  BY DEF MaxPostureVote
<1> HIDE DEF others
<1> QED BY <1>1, <1>2

\* The fleet posture an instance computes comes from exactly the votes of the
\* others that are still running, and the vote the server has of an instance is
\* the one its last call asked for, a withdrawal included, unless that call
\* failed or was made while a command of an earlier one was on its way: for any
\* number of retries, with any delay (redisSetPostureScript,
\* redisDeletePostureScript, redisMaxPostureScript, MaxRetries).
THEOREM VotesCorrect == Spec => []VotesAreSeen
<1>1. Init => VoteInv /\ AskInv
  <2>1. Init => AskInv
    BY DEF Init, AskInv
  <2> QED BY <2>1, VoteInit
<1>2. TypeOK /\ VoteInv /\ AskInv /\ [Next]_vars => VoteInv' /\ AskInv'
  BY VoteNext, AskNext
<1>3. TypeOK /\ VoteInv /\ AskInv => VotesAreSeen
  BY VotesSeen
<1> QED BY <1>1, <1>2, <1>3, TypeCorrect, PTL DEF Spec

----------------------------------------------------------------------------

\* The order of the index is a strict total order.
LEMMA BeforeOrders ==
    ASSUME ServerOK
    PROVE  /\ \A a \in DOMAIN index : ~Before(a, a)
           /\ \A a, b, c \in DOMAIN index : Before(a, b) /\ Before(b, c) => Before(a, c)
           /\ \A a, b \in DOMAIN index : a # b => Before(a, b) \/ Before(b, a)
<1>1. DOMAIN index \in SUBSET Blocks /\ index \in [DOMAIN index -> Int]
  BY IndexFinite
<1>2. \A a \in DOMAIN index : index[a] \in Int
  BY <1>1
<1>3. ASSUME NEW a \in DOMAIN index
      PROVE  Position(a) \in Nat /\ BlockKeys[Position(a)] = a
  <2>1. \E i \in 1..Len(BlockKeys) : BlockKeys[i] = a
    BY <1>1 DEF Blocks
  <2>2. Position(a) \in 1..Len(BlockKeys) /\ BlockKeys[Position(a)] = a
    BY <2>1 DEF Position
  <2>3. Len(BlockKeys) \in Nat
    BY RedisAssumption
  <2> QED BY <2>2, <2>3
<1>4. \A a, b \in DOMAIN index : a # b => Position(a) # Position(b)
  BY <1>3
<1>5. \A a \in DOMAIN index : Position(a) \in Int
  BY <1>3
<1> QED BY <1>2, <1>4, <1>5 DEF Before

\* Ranks number the index from 1 without gaps.
LEMMA RankType ==
    ASSUME ServerOK
    PROVE  /\ Cardinality(DOMAIN index) \in Nat
           /\ \A k \in DOMAIN index : Rank(k) \in 1..Cardinality(DOMAIN index)
           /\ \A a, b \in DOMAIN index : Before(a, b) => Rank(a) < Rank(b)
           /\ \A a, b \in DOMAIN index : Rank(a) = Rank(b) => a = b
<1> DEFINE S(k) == {j \in DOMAIN index : Before(j, k)}
<1>1. \A D \in SUBSET DOMAIN index : IsFiniteSet(D) /\ Cardinality(D) \in Nat
  BY IndexFinite
<1>2. ASSUME NEW k \in DOMAIN index
      PROVE  /\ IsFiniteSet(S(k)) /\ Cardinality(S(k)) \in Nat /\ k \notin S(k)
             /\ IsFiniteSet(S(k) \cup {k})
             /\ Cardinality(S(k) \cup {k}) = Cardinality(S(k)) + 1
             /\ Rank(k) = Cardinality(S(k)) + 1
  <2>1. S(k) \in SUBSET DOMAIN index /\ k \notin S(k)
    BY BeforeOrders
  <2>2. Rank(k) = 1 + Cardinality(S(k))
    BY DEF Rank
  <2> HIDE DEF S
  <2>3. IsFiniteSet(S(k)) /\ Cardinality(S(k)) \in Nat
    BY <1>1, <2>1
  <2> QED BY <2>1, <2>2, <2>3, FS_AddElement
<1>3. ASSUME NEW k \in DOMAIN index
      PROVE  Rank(k) \in 1..Cardinality(DOMAIN index)
  <2>1. S(k) \cup {k} \in SUBSET DOMAIN index
    OBVIOUS
  <2>2. IsFiniteSet(DOMAIN index) /\ Cardinality(DOMAIN index) \in Nat
    BY <1>1
  <2> HIDE DEF S
  <2>3. Cardinality(S(k) \cup {k}) <= Cardinality(DOMAIN index)
    BY <2>1, <2>2, FS_Subset
  <2> QED BY <1>2, <2>2, <2>3
<1>4. ASSUME NEW a \in DOMAIN index, NEW b \in DOMAIN index, Before(a, b)
      PROVE  Rank(a) < Rank(b)
  <2>1. S(a) \cup {a} \in SUBSET S(b)
    BY <1>4, BeforeOrders
  <2> HIDE DEF S
  <2>2. Cardinality(S(a) \cup {a}) <= Cardinality(S(b))
    BY <1>2, <2>1, FS_Subset
  <2>3. Rank(a) = Cardinality(S(a) \cup {a}) /\ Rank(a) \in Nat
    BY <1>2
  <2>4. Rank(b) = Cardinality(S(b)) + 1 /\ Cardinality(S(b)) \in Nat
    BY <1>2
  <2> QED BY <2>2, <2>3, <2>4
<1>5. ASSUME NEW a \in DOMAIN index, NEW b \in DOMAIN index, Rank(a) = Rank(b)
      PROVE  a = b
  <2>1. SUFFICES ASSUME a # b PROVE FALSE
    OBVIOUS
  <2>2. Rank(a) \in Int /\ Rank(b) \in Int
    BY <1>1, <1>3
  <2>3. Before(a, b) \/ Before(b, a)
    BY <2>1, BeforeOrders
  <2> QED BY <1>4, <1>5, <2>2, <2>3
<1> HIDE DEF S
<1> QED BY <1>1, <1>3, <1>4, <1>5

\* Some entry has every rank.
LEMMA RankOnto ==
    ASSUME ServerOK, NEW n \in 1..Cardinality(DOMAIN index)
    PROVE  \E k \in DOMAIN index : Rank(k) = n
<1> DEFINE N == Cardinality(DOMAIN index)
           f == [k \in DOMAIN index |-> Rank(k)]
<1>1. N \in Nat /\ f \in [DOMAIN index -> 1..N]
  BY RankType
<1>2. \A a, b \in DOMAIN f : f[a] = f[b] => a = b
  BY RankType
<1>3. f \in Injection(DOMAIN index, 1..N)
  <2> HIDE DEF f, N
  <2> QED BY <1>1, <1>2 DEF Injection, IsInjective
<1>4. IsFiniteSet(1..N) /\ Cardinality(1..N) = N
  <2> HIDE DEF N
  <2> QED BY <1>1, FS_Interval
<1>5. f \in Surjection(DOMAIN index, 1..N)
  <2> HIDE DEF f
  <2> QED BY <1>3, <1>4, FS_Injection
<1>6. PICK k \in DOMAIN index : f[k] = n
  BY <1>5 DEF Surjection
<1> QED BY <1>6

\* A page of n entries has at most n, and fewer only if nothing follows it.
LEMMA PageSound ==
    ASSUME ServerOK, NEW s \in Nat, NEW n \in Nat
    PROVE  /\ Cardinality(ZRange(s, n)) <= n
           /\ \A k \in DOMAIN index : Rank(k) > s + n => Cardinality(ZRange(s, n)) = n
           /\ \A k \in DOMAIN index : n > 0 /\ Rank(k) > s => ZRange(s, n) # {}
<1> DEFINE Z == ZRange(s, n)
           I == s + 1 .. s + n
           f == [k \in Z |-> Rank(k)]
           N == Cardinality(DOMAIN index)
<1>N. N \in Nat /\ \A k \in DOMAIN index : Rank(k) \in 1..N
  BY RankType
<1>1. Z \in SUBSET DOMAIN index /\ \A k \in DOMAIN index : k \in Z <=> Rank(k) \in I
  BY DEF ZRange
<1>2. IsFiniteSet(I) /\ Cardinality(I) = n
  <2>1. s + 1 \in Int /\ s + n \in Int
    OBVIOUS
  <2>2. IsFiniteSet(I) /\ Cardinality(I) = IF s + 1 > s + n THEN 0 ELSE s + n - (s + 1) + 1
    BY <2>1, FS_Interval
  <2>3. (IF s + 1 > s + n THEN 0 ELSE s + n - (s + 1) + 1) = n
    OBVIOUS
  <2> QED BY <2>2, <2>3
<1> HIDE DEF Z, I
<1>3. f \in Injection(Z, I)
  <2>1. f \in [Z -> I]
    BY <1>1
  <2>2. \A a, b \in DOMAIN f : f[a] = f[b] => a = b
    BY <1>1, RankType
  <2> HIDE DEF f
  <2> QED BY <2>1, <2>2 DEF Injection, IsInjective
<1>4. /\ Cardinality(Z) <= Cardinality(I)
      /\ f \in Surjection(Z, I) => Cardinality(Z) = Cardinality(I)
  <2> HIDE DEF f
  <2> QED BY <1>2, <1>3, FS_Injection
<1>5. ASSUME NEW m \in I, m <= N PROVE \E k \in Z : Rank(k) = m
  <2>1. m \in 1..N
    BY <1>N, <1>5 DEF I
  <2>2. PICK k \in DOMAIN index : Rank(k) = m
    BY <2>1, RankOnto
  <2> QED BY <1>1, <1>5, <2>2
<1>6. ASSUME NEW k \in DOMAIN index, Rank(k) > s + n PROVE Cardinality(Z) = n
  <2>1. s + n < N
    BY <1>N, <1>6
  <2>2. \A m \in I : m <= N
    BY <1>N, <2>1 DEF I
  <2>3. \A m \in I : \E j \in Z : f[j] = m
    BY <1>5, <2>2
  <2>4. f \in Surjection(Z, I)
    <3>1. f \in [Z -> I]
      BY <1>1
    <3> HIDE DEF f
    <3> QED BY <2>3, <3>1 DEF Surjection
  <2> QED BY <1>2, <1>4, <2>4
<1>7. ASSUME NEW k \in DOMAIN index, n > 0, Rank(k) > s PROVE Z # {}
  <2>1. s + 1 <= N /\ s + 1 \in I
    BY <1>N, <1>7 DEF I
  <2> QED BY <1>5, <2>1
<1> HIDE DEF f, N
<1> QED BY <1>2, <1>4, <1>6, <1>7 DEF Z

----------------------------------------------------------------------------

\* A scan is between Prepare and its end.
Scanning == scan.stage \in {"page", "values", "heal", "end"}

\* The scan has been past k, or will not go further.
Reached(k) == scan.stage = "end" \/ scan.last = TRUE \/ Rank(k) <= scan.seen

\* The scan's result so far is still vouched for.
Vouched == Scanning /\ scan.complete = TRUE /\ gen = scan.start

\* The record of a scan: its generation is not ahead of the index, only a scan
\* that has given up its claim heals, and while generation and claim stand, every
\* entry the scan has been past that is not in the page at hand and whose block is
\* there is in the result, with the block's value.
ScanInv ==
    /\ Scanning =>
         /\ scan.start <= gen
         /\ scan.stage \in {"page", "end"} => scan.batch = {}
         /\ scan.stage = "heal" => scan.complete = FALSE
    /\ Vouched =>
         \A k \in DOMAIN index : Reached(k) /\ k \notin scan.batch /\ Exists(kv[k]) =>
             k \in DOMAIN scan.kvs /\ scan.kvs[k] = kv[k].val

\* A generation that has not moved stands for an index that has not moved, over
\* blocks that are as they were or gone.
Settled ==
    /\ gen' >= gen
    /\ gen' = gen =>
         /\ index' = index
         /\ \A k \in Blocks : Exists(kv[k])' => Exists(kv[k]) /\ kv'[k].val = kv[k].val

\* A rank depends on the index alone.
LEMMA RankUnchanged ==
    ASSUME index' = index, NEW k
    PROVE  Rank(k)' = Rank(k)
  BY DEF Rank, Before

\* Such a step leaves the record of a scan true.
LEMMA ScanSettled ==
    ASSUME TypeOK, TypeOK', ScanInv, scan' = scan, Settled
    PROVE  ScanInv'
<1>1. gen \in Nat /\ gen' \in Nat
  BY DEF TypeOK, ServerOK
<1>2. Scanning' = Scanning
  BY DEF Scanning
<1>3. Scanning => scan.start \in Nat
  BY ScanType DEF TypeOK, Scanning, ActiveScans
<1>4. ASSUME Scanning' PROVE /\ scan'.start <= gen'
                             /\ scan'.stage \in {"page", "end"} => scan'.batch = {}
                             /\ scan'.stage = "heal" => scan'.complete = FALSE
  BY <1>1, <1>2, <1>3, <1>4 DEF ScanInv, Settled
<1>5. ASSUME Vouched', NEW k \in DOMAIN index', Reached(k)', k \notin scan'.batch, Exists(kv[k])'
      PROVE  k \in DOMAIN scan'.kvs /\ scan'.kvs[k] = kv'[k].val
  <2>1. gen' = scan.start /\ Scanning /\ scan.complete = TRUE
    BY <1>2, <1>5 DEF Vouched
  <2>2. gen' = gen
    BY <1>1, <1>3, <2>1 DEF ScanInv, Settled
  <2>3. Vouched
    BY <2>1, <2>2 DEF Vouched
  <2>4. index' = index
    BY <2>2 DEF Settled
  <2>5. Reached(k)
    BY <1>5, <2>4, RankUnchanged DEF Reached
  <2>6. k \in DOMAIN index /\ k \in Blocks
    BY <1>5, <2>4, IndexFinite DEF TypeOK
  <2>7. Exists(kv[k]) /\ kv'[k].val = kv[k].val
    BY <1>5, <2>2, <2>6 DEF Settled
  <2> QED BY <1>5, <2>3, <2>5, <2>6, <2>7 DEF ScanInv
<1> QED BY <1>4, <1>5 DEF ScanInv

\* Every script is such a step: it leaves the generation alone only if it leaves
\* the index alone.
LEMMA ExecSettles ==
    ASSUME TypeOK, NEW r \in wire, Exec(r)
    PROVE  Settled
<1>1. r \in Commands /\ ServerOK /\ gen \in Nat /\ kv \in [Keys -> Entries]
  BY DEF TypeOK, ClientOK, ServerOK
<1>2. kv' = Run(r).kv /\ index' = IndexAfter(r.c, Run(r)) /\ gen' = GenAfter(r.c, Run(r)) /\ now' = now
  BY DEF Exec
<1>3. gen' = gen \/ gen' = gen + 1
  BY <1>2 DEF GenAfter
<1>4. ASSUME gen' = gen PROVE index' = index
  <2>1. ~Indexes(r.c, Run(r))
    BY <1>1, <1>2, <1>4 DEF GenAfter
  <2>2. CASE Drops(r.c, Run(r))
    <3>1. r.c.key \notin DOMAIN index
      BY <1>1, <1>2, <1>4, <2>2 DEF GenAfter
    <3>2. DOMAIN index \ {r.c.key} = DOMAIN index
      BY <3>1
    <3>3. index' = Keep(DOMAIN index)
      BY <1>2, <2>1, <2>2, <3>2 DEF IndexAfter
    <3>4. index = [j \in DOMAIN index |-> index[j]]
      BY <1>1, IndexFinite
    <3> QED BY <3>3, <3>4 DEF Keep
  <2>3. CASE ~Drops(r.c, Run(r))
    BY <1>1, <1>2, <2>1, <2>3, IndexAfterEffect
  <2> QED BY <2>2, <2>3
<1>5. ASSUME gen' = gen, NEW k \in Blocks, Exists(kv[k])'
      PROVE  Exists(kv[k]) /\ kv'[k].val = kv[k].val
  <2>1. ~Indexes(r.c, Run(r))
    BY <1>1, <1>2, <1>5 DEF GenAfter
  <2>2. kv'[k] # None
    BY <1>5 DEF Exists
  <2>3. kv'[k] = kv[k]
    <3>1. CASE k # r.c.key
      BY <1>1, <1>2, <3>1, RunEffect
    <3>2. CASE k = r.c.key
      BY <1>1, <1>2, <2>1, <2>2, <3>2, RunEffect
    <3> QED BY <3>1, <3>2
  <2>4. Exists(kv[k])
    BY <1>2, <1>5, <2>3 DEF Exists
  <2> QED BY <2>3, <2>4
<1> QED BY <1>1, <1>3, <1>4, <1>5 DEF Settled

\* So is a deletion by others,
LEMMA PokeSettles ==
    ASSUME TypeOK, NEW k \in Poked, Poke(k)
    PROVE  Settled
<1>1. kv \in [Keys -> Entries] /\ kv' = [kv EXCEPT ![k] = None] /\ index' = index /\ now' = now
      /\ gen' = gen /\ gen \in Nat
  BY DEF TypeOK, ServerOK, Poke
<1>2. ASSUME NEW j \in Blocks, Exists(kv[j])'
      PROVE  Exists(kv[j]) /\ kv'[j].val = kv[j].val
  <2>1. kv'[j] # None
    BY <1>2 DEF Exists
  <2>2. kv'[j] = kv[j]
    BY <1>1, <2>1 DEF Keys
  <2>3. Exists(kv[j])
    BY <1>1, <1>2, <2>2 DEF Exists
  <2> QED BY <2>2, <2>3
<1> QED BY <1>1, <1>2 DEF Settled

\* and the clock.
LEMMA TickSettles ==
    ASSUME TypeOK, Tick
    PROVE  Settled
<1>1. kv' = kv /\ index' = index /\ now' = now + 1 /\ now \in Nat /\ gen' = gen /\ gen \in Nat
      /\ kv \in [Keys -> Entries]
  BY DEF TypeOK, ServerOK, Tick, serverVars
<1>2. ASSUME NEW j \in Blocks, Exists(kv[j])'
      PROVE  Exists(kv[j]) /\ kv'[j].val = kv[j].val
  <2>1. kv[j] \in Entries
    BY <1>1 DEF Keys
  <2> QED BY <1>1, <1>2, <2>1 DEF Exists, Entries
<1> QED BY <1>1, <1>2 DEF Settled

\* A scan begins with nothing behind it.
LEMMA ScanPrepare ==
    ASSUME TypeOK, TypeOK', Prepare
    PROVE  ScanInv'
<1>1. PICK limit \in Limits :
         scan' = [stage |-> "page", limit |-> limit, start |-> gen', seen |-> 0,
                  kvs |-> Empty, complete |-> TRUE, batch |-> {}, last |-> FALSE]
  BY DEF Prepare
<1>2. gen' \in Nat /\ ServerOK'
  BY DEF TypeOK, ServerOK
<1>3. ASSUME NEW k \in DOMAIN index' PROVE ~Reached(k)'
  <2> DEFINE S == {j \in DOMAIN index' : Before(j, k)'}
  <2>1. Rank(k)' = 1 + Cardinality(S)
    BY DEF Rank
  <2>2. DOMAIN index' \in SUBSET Blocks
    BY <1>2, PartialElim DEF ServerOK
  <2>3. S \in SUBSET Blocks
    BY <2>2
  <2> HIDE DEF S
  <2>4. Cardinality(S) \in Nat
    BY <2>3, BlocksFinite, FS_Subset, FS_CardinalityType
  <2>5. ~(Rank(k)' <= 0)
    BY <2>1, <2>4
  <2> QED BY <1>1, <2>5 DEF Reached
<1>4. scan'.start <= gen' /\ scan'.batch = {} /\ scan'.stage = "page"
  BY <1>1, <1>2
<1> QED BY <1>3, <1>4 DEF ScanInv

\* A page leaves no entry between it and the last one; a short or an empty page
\* has nothing after it.
LEMMA ScanPage ==
    ASSUME TypeOK, TypeOK', ScanInv, Page
    PROVE  ScanInv'
<1> DEFINE n    == PageOf(scan)
           rest == ZRange(scan.seen, n)
<1>1. /\ scan.stage = "page" /\ Scanning /\ scan.batch = {} /\ index' = index /\ kv' = kv
      /\ now' = now /\ gen' = gen
  BY DEF Page, Scanning, ScanInv, scanStep
<1>2. /\ scan \in ActiveScans /\ scan' \in ActiveScans /\ n \in Int
      /\ rest \in SUBSET DOMAIN index
      /\ scan'.start = scan.start /\ scan'.kvs = scan.kvs
      /\ \/ /\ n <= 0 /\ scan'.stage = "end" /\ scan'.complete = FALSE /\ scan'.batch = scan.batch
         \/ /\ n > 0 /\ rest = {} /\ scan'.stage = "end" /\ scan'.complete = scan.complete
            /\ scan'.batch = scan.batch
         \/ /\ n > 0 /\ rest # {} /\ scan'.stage = "values" /\ scan'.batch = rest
            /\ scan'.complete = scan.complete
            /\ scan'.last = (Cardinality(rest) < n)
            /\ scan'.seen = scan.seen + Cardinality(rest)
  BY PageEffect
<1> HIDE DEF n
<1>3. scan.seen \in Nat /\ ServerOK
  BY <1>2 DEF ActiveScans, TypeOK
<1>4. Cardinality(rest) \in Nat
  BY <1>2, <1>3, IndexFinite
<1>5. \A k \in DOMAIN index : Rank(k) \in Int
  BY RankType, <1>3
<1>6. \A k \in DOMAIN index : k \in rest <=> Rank(k) \in scan.seen + 1 .. scan.seen + n
  BY DEF ZRange
<1>7. n > 0 => /\ Cardinality(rest) <= n
               /\ \A k \in DOMAIN index : Rank(k) > scan.seen + n => Cardinality(rest) = n
               /\ \A k \in DOMAIN index : Rank(k) > scan.seen => rest # {}
  <2>1. n > 0 => n \in Nat
    BY <1>2
  <2> QED BY <1>3, <2>1, PageSound
<1> HIDE DEF rest
<1>8. ASSUME NEW k \in DOMAIN index, Reached(k)', k \notin scan'.batch, Vouched' PROVE Reached(k)
  <2>1. Rank(k)' = Rank(k)
    BY <1>1, RankUnchanged
  <2>2. n > 0
    BY <1>2, <1>8 DEF Vouched
  <2>3. CASE rest = {}
    <3>1. ~(Rank(k) > scan.seen)
      BY <1>7, <2>2, <2>3
    <3> QED BY <1>3, <1>5, <3>1 DEF Reached
  <2>4. CASE rest # {}
    <3>1. /\ scan'.stage = "values" /\ scan'.batch = rest
          /\ scan'.last = (Cardinality(rest) < n)
          /\ scan'.seen = scan.seen + Cardinality(rest)
      BY <1>2, <2>2, <2>4
    <3>2. Cardinality(rest) < n \/ Rank(k) <= scan.seen + Cardinality(rest)
      BY <1>8, <2>1, <3>1 DEF Reached
    <3>3. ~(Rank(k) > scan.seen + n)
      BY <1>2, <1>3, <1>4, <1>5, <1>7, <2>2, <3>2
    <3>4. Rank(k) <= scan.seen
      BY <1>2, <1>3, <1>5, <1>6, <1>8, <3>1, <3>3
    <3> QED BY <3>4 DEF Reached
  <2> QED BY <2>3, <2>4
<1>9. ASSUME Vouched' PROVE Vouched
  <2>1. scan'.complete = scan.complete
    BY <1>2, <1>9 DEF Vouched
  <2> QED BY <1>1, <1>2, <1>9, <2>1 DEF Vouched
<1>10. ASSUME Vouched', NEW k \in DOMAIN index', Reached(k)', k \notin scan'.batch, Exists(kv[k])'
       PROVE  k \in DOMAIN scan'.kvs /\ scan'.kvs[k] = kv'[k].val
  <2>1. Vouched /\ Reached(k) /\ Exists(kv[k]) /\ k \in DOMAIN index /\ k \notin scan.batch
    BY <1>1, <1>8, <1>9, <1>10 DEF Exists
  <2> QED BY <1>1, <1>2, <2>1 DEF ScanInv
<1>11. /\ scan'.start <= gen'
       /\ scan'.stage \in {"page", "end"} => scan'.batch = {}
       /\ scan'.stage # "heal"
  BY <1>1, <1>2 DEF ScanInv
<1> QED BY <1>10, <1>11 DEF ScanInv

\* The values of a page join the result, or the claim is given up.
LEMMA ScanValues ==
    ASSUME TypeOK, TypeOK', ScanInv, Values
    PROVE  ScanInv'
<1>1. /\ scan.stage = "values" /\ Scanning /\ index' = index /\ kv' = kv /\ now' = now /\ gen' = gen
  BY DEF Values, Scanning, scanStep
<1>2. /\ scan \in ActiveScans /\ scan' \in ActiveScans /\ scan'.start = scan.start
      /\ scan'.seen = scan.seen
      /\ \/ scan'.complete = FALSE
         \/ /\ scan'.complete = scan.complete /\ scan'.batch = {} /\ scan'.last = FALSE
            /\ scan'.stage = IF scan.last THEN "end" ELSE "page"
            /\ \A k \in scan.batch : k \in DOMAIN scan'.kvs /\ scan'.kvs[k] = GET(k).val
            /\ \A k \in DOMAIN scan.kvs \ scan.batch :
                  k \in DOMAIN scan'.kvs /\ scan'.kvs[k] = scan.kvs[k]
      /\ scan'.stage \in {"page", "end"} => scan'.batch = {}
  BY ValuesEffect
<1>3. ASSUME scan'.complete = TRUE
      PROVE  /\ scan'.complete = scan.complete /\ scan'.batch = {} /\ scan'.last = FALSE
             /\ scan'.stage = IF scan.last THEN "end" ELSE "page"
             /\ \A k \in scan.batch : k \in DOMAIN scan'.kvs /\ scan'.kvs[k] = GET(k).val
             /\ \A k \in DOMAIN scan.kvs \ scan.batch :
                   k \in DOMAIN scan'.kvs /\ scan'.kvs[k] = scan.kvs[k]
  BY <1>2, <1>3
<1>4. ASSUME Vouched', NEW k \in DOMAIN index', Reached(k)', k \notin scan'.batch, Exists(kv[k])'
      PROVE  k \in DOMAIN scan'.kvs /\ scan'.kvs[k] = kv'[k].val
  <2>1. scan'.complete = TRUE
    BY <1>4 DEF Vouched
  <2>2. Vouched
    BY <1>1, <1>2, <1>3, <1>4, <2>1 DEF Vouched
  <2>3. Rank(k)' = Rank(k)
    BY <1>1, RankUnchanged
  <2>4. scan.last \in BOOLEAN
    BY <1>2 DEF ActiveScans
  <2>5. Reached(k)
    BY <1>2, <1>3, <1>4, <2>1, <2>3, <2>4 DEF Reached
  <2>6. Exists(kv[k]) /\ k \in DOMAIN index
    BY <1>1, <1>4 DEF Exists
  <2>7. CASE k \in scan.batch
    <3>1. GET(k) = kv[k]
      BY <2>6 DEF GET
    <3> QED BY <1>1, <1>3, <2>1, <2>7, <3>1
  <2>8. CASE k \notin scan.batch
    <3>1. k \in DOMAIN scan.kvs /\ scan.kvs[k] = kv[k].val
      BY <2>2, <2>5, <2>6, <2>8 DEF ScanInv
    <3> QED BY <1>1, <1>3, <2>1, <2>8, <3>1
  <2> QED BY <2>7, <2>8
<1>5. /\ scan'.start <= gen'
      /\ scan'.stage \in {"page", "end"} => scan'.batch = {}
  BY <1>1, <1>2 DEF ScanInv
<1>6. scan'.stage = "heal" => scan'.complete = FALSE
  BY <1>2
<1> QED BY <1>4, <1>5, <1>6 DEF ScanInv

\* Healing follows a claim that was given up.
LEMMA ScanHeal ==
    ASSUME TypeOK, TypeOK', ScanInv, Heal
    PROVE  ScanInv'
<1>1. scan.stage = "heal" /\ Scanning /\ scan' = Leave(scan)
  BY DEF Heal, Scanning
<1>2. scan \in ActiveScans /\ scan.complete = FALSE /\ scan.start <= gen
  BY <1>1, ScanType DEF TypeOK, Scanning, ScanInv
<1>3. /\ scan'.complete = FALSE /\ scan'.batch = {} /\ scan'.start = scan.start
      /\ scan'.stage # "heal"
  BY <1>1, <1>2, LeaveType
<1>4. gen' >= gen /\ gen \in Nat /\ gen' \in Nat /\ scan.start \in Nat
  BY <1>2 DEF Heal, TypeOK, ServerOK, ActiveScans
<1>5. scan'.start <= gen'
  BY <1>2, <1>3, <1>4
<1> QED BY <1>3, <1>5 DEF ScanInv, Vouched

\* Every step keeps the record of a scan.
LEMMA ScanNext ==
    ASSUME TypeOK, TypeOK', ScanInv, [Next]_vars
    PROVE  ScanInv'
<1>1. CASE UNCHANGED <<now, serverVars, scan>>
  <2>1. gen \in Nat
    BY DEF TypeOK, ServerOK
  <2>2. Settled
    BY <1>1, <2>1 DEF Settled, serverVars, Exists
  <2> QED BY <1>1, <2>2, ScanSettled
<1>2. CASE UNCHANGED vars
  BY <1>1, <1>2 DEF vars, voteVars, askVars, serverVars
<1>3. CASE Call \/ \E i \in 1..MaxCalls : Timeout(i) \/ TakeReply(i)
  BY <1>1, <1>3 DEF Call, Timeout, TakeReply
<1>4. CASE EndScan \/ AbortScan
  <2>1. scan'.stage \in {"idle", "done"}
    BY <1>4 DEF EndScan, AbortScan, Idle
  <2> QED BY <2>1 DEF ScanInv, Scanning, Vouched
<1>5. CASE VoteSteps
  BY <1>1, <1>5, VotesElsewhere DEF voteStep, serverVars
<1>7. CASE \E r \in wire : Exec(r)
  BY <1>7, ExecSettles, ScanSettled DEF Exec
<1>8. CASE \E k \in Poked : Poke(k)
  BY <1>8, PokeSettles, ScanSettled DEF Poke
<1>9. CASE Tick
  BY <1>9, TickSettles, ScanSettled DEF Tick
<1> QED BY <1>2, <1>3, <1>4, <1>5, <1>7, <1>8, <1>9, ScanPrepare, ScanPage, ScanValues,
           ScanHeal DEF Next

\* At its end a scan that kept its claim is past every entry, and the index covers
\* every block with time left.
LEMMA ExactNext ==
    ASSUME TypeOK, ScanInv, IndexCoversBlocks, CompleteScanIsExact, [Next]_vars
    PROVE  CompleteScanIsExact'
<1>1. CASE scan' = scan
  BY <1>1 DEF CompleteScanIsExact
<1>2. CASE scan'.stage # "done"
  BY <1>2 DEF CompleteScanIsExact
<1>3. CASE EndScan
  <2> DEFINE m == {k \in Blocks :
                     /\ GET(k) # None /\ PTTL(GET(k)) # 0
                     /\ ~(k \in DOMAIN scan.kvs /\ scan.kvs[k] = GET(k).val)}
  <2>1. scan'.complete => scan.complete /\ Unchanged(scan)
    BY <1>3 DEF EndScan
  <2>2. scan'.missed = m
    BY <1>3 DEF EndScan
  <2>3. ASSUME scan'.complete, NEW k \in m PROVE FALSE
    <3>1. k \in Blocks /\ k \in Keys /\ ServerOK
      BY <2>3 DEF Keys, TypeOK
    <3>2. Alive(k) /\ GET(k) # None
      BY <2>3, <3>1, AliveMeans
    <3>3. k \in DOMAIN index
      BY <3>1, <3>2, IndexCovers
    <3>4. Exists(kv[k]) /\ GET(k) = kv[k]
      BY <3>2 DEF GET
    <3>5. scan.stage = "end" /\ Scanning /\ scan.complete /\ gen = scan.start
      BY <1>3, <2>1, <2>3 DEF EndScan, Scanning, Unchanged
    <3>6. scan \in ActiveScans
      BY <3>5, ScanType DEF TypeOK, Scanning
    <3>7. Vouched /\ scan.batch = {} /\ Reached(k)
      BY <3>5, <3>6 DEF Vouched, ScanInv, Reached, ActiveScans
    <3>8. k \in DOMAIN scan.kvs /\ scan.kvs[k] = kv[k].val
      BY <3>3, <3>4, <3>7 DEF ScanInv
    <3> QED BY <2>3, <3>4, <3>8
  <2> HIDE DEF m
  <2>4. scan'.complete => m = {}
    BY <2>3
  <2> QED BY <2>2, <2>4 DEF CompleteScanIsExact
<1>4. CASE AbortScan
  BY <1>2, <1>4 DEF AbortScan, Idle
<1>5. CASE Prepare
  BY <1>2, <1>5 DEF Prepare
<1>6. CASE Page
  BY <1>2, <1>6, PageEffect DEF ActiveScans
<1>7. CASE Values
  BY <1>2, <1>7, ValuesEffect DEF ActiveScans
<1>8. CASE Heal
  <2>1. scan \in ActiveScans /\ scan' = Leave(scan)
    BY <1>8, ScanType DEF TypeOK, Heal
  <2>2. scan'.stage # "done"
    BY <2>1, LeaveType
  <2> QED BY <1>2, <2>2
<1>9. CASE UNCHANGED vars
  BY <1>1, <1>9 DEF vars, serverVars, voteVars, askVars
<1>10. CASE Call \/ Tick \/ \E i \in 1..MaxCalls : Timeout(i) \/ TakeReply(i)
  BY <1>1, <1>10 DEF Call, Tick, Timeout, TakeReply
<1>11. CASE (\E r \in wire : Exec(r)) \/ (\E k \in Poked : Poke(k))
  BY <1>1, <1>11 DEF Exec, Poke
<1>12. CASE VoteSteps
  BY <1>1, <1>12, VotesElsewhere DEF voteStep, serverVars
<1> QED BY <1>3, <1>4, <1>5, <1>6, <1>7, <1>8, <1>9, <1>10, <1>11, <1>12 DEF Next

\* A scan of active blocks that calls itself complete has every block still in
\* force with its current value: whatever moved the pages under it also moved the
\* generation (redisStore.ScanActiveBlocks).
THEOREM ScanCorrect == Spec => []CompleteScanIsExact
<1>1. Init => ScanInv /\ CompleteScanIsExact
  BY DEF Init, Idle, ScanInv, Scanning, Vouched, CompleteScanIsExact
<1>2. TypeOK /\ TypeOK' /\ ScanInv /\ [Next]_vars => ScanInv'
  BY ScanNext
<1>3. TypeOK /\ ScanInv /\ IndexCoversBlocks /\ CompleteScanIsExact /\ [Next]_vars
        => CompleteScanIsExact'
  BY ExactNext
<1> QED BY <1>1, <1>2, <1>3, TypeCorrect, IndexCorrect, PTL DEF Spec

----------------------------------------------------------------------------

\* The commands that may still run, or be sent again.
Pending == wire \cup {client[i].cmd : i \in {j \in 1..MaxCalls : client[j].stage = "wait"}}

\* The call that wrote a value, 0 if none of them did.
Age(v) == IF v \in 1..MaxCalls THEN v ELSE 0

\* e is there for as long as r can run.
Outlasts(e, r) == e # None /\ (e.dl = 0 \/ e.dl >= r.since + CallBudget)

\* r can no longer take effect.
Fenced(r) == \/ Outlasts(kv["hold"], r)
             \/ Outlasts(kv[r.c.key], r) /\ Age(kv[r.c.key].val) > Age(r.old)

\* Two attempts of one call.
SameCall(r, s) == r.id = s.id /\ r.c = s.c /\ r.old = s.old /\ r.since = s.since

\* A commit in flight saw a block older than itself, its attempts agree, and once
\* it has taken effect it is fenced.
RetryInv ==
    /\ \A k \in Committed : Age(kv[k].val) <= calls
    /\ \A i \in 1..MaxCalls : ran[i] <= 1 /\ (i > calls => ran[i] = 0)
    /\ \A r, s \in Pending : r.id = s.id => SameCall(r, s)
    /\ \A r \in Pending : r.c.op = "CommitBlock" =>
          Age(r.old) < r.id /\ (ran[r.id] = 1 => Fenced(r))

\* A pending command is a command of a call that is not over.
LEMMA PendingType ==
    ASSUME TypeOK, ClockInv
    PROVE  /\ Pending \subseteq Commands
           /\ \A r \in Pending : Lasts(r.since) /\ r.id <= calls
           /\ \A r \in Pending : r.c.op = "CommitBlock" => r.c.key \in Committed /\ r.c.key \in Blocks
<1>1. \A i \in 1..MaxCalls : client[i].stage = "wait" => client[i].cmd \in Commands
  BY WaitType DEF TypeOK
<1>2. Pending \subseteq Commands
  BY <1>1 DEF Pending, TypeOK, ClientOK
<1>3. ASSUME NEW r \in Pending PROVE Lasts(r.since) /\ r.id <= calls
  BY DEF Pending, ClockInv
<1>4. ASSUME NEW r \in Pending, r.c.op = "CommitBlock" PROVE r.c.key \in Committed /\ r.c.key \in Blocks
  <2>1. r.c \in Calls
    BY <1>2 DEF Commands
  <2> QED BY <1>4, <2>1, RedisAssumption DEF Committed
<1> QED BY <1>2, <1>3, <1>4

\* Ages of values.
LEMMA AgeType ==
    ASSUME NEW v \in Nat
    PROVE  Age(v) \in Nat /\ Age(v) <= MaxCalls /\ Age(Nil) = 0 /\ (v \in 1..MaxCalls => Age(v) = v)
  BY RedisAssumption DEF Age, Nil

\* What outlasts a pending command is there when it runs.
LEMMA OutlastsExists ==
    ASSUME TypeOK, NEW e \in Entries, NEW r \in Commands, Lasts(r.since), Outlasts(e, r)
    PROVE  Exists(e)
<1>1. r.since \in Nat /\ e.dl \in Int /\ now \in Nat /\ CallBudget \in Nat
  BY RedisAssumption DEF Commands, Entries, TypeOK, ServerOK
<1> QED BY <1>1 DEF Lasts, Outlasts, Exists

\* What is set for long enough outlasts every pending command.
LEMMA SetOutlasts ==
    ASSUME TypeOK, NEW v \in Nat, NEW t \in Nat, LongEnough(t), NEW r \in Commands, Lasts(r.since)
    PROVE  Outlasts(SetPX(v, t), r)
<1>1. SetPX(v, t) # None /\ SetPX(v, t).dl = IF t > 0 THEN now + t ELSE 0
  BY SetPXType DEF TypeOK
<1>2. r.since \in Nat /\ now \in Nat /\ CallBudget \in Nat
  BY RedisAssumption DEF Commands, TypeOK, ServerOK
<1>3. CASE t = 0
  BY <1>1, <1>3 DEF Outlasts
<1>4. CASE t > 0
  <2>1. t >= CallBudget
    BY <1>4 DEF LongEnough
  <2>2. SetPX(v, t).dl = now + t
    BY <1>1, <1>4
  <2>3. SetPX(v, t).dl >= r.since + CallBudget
    BY <1>2, <2>1, <2>2 DEF Lasts
  <2> QED BY <1>1, <2>3 DEF Outlasts
<1> QED BY <1>3, <1>4

\* Nothing has taken effect at start.
LEMMA RetryInit ==
    ASSUME CommitsAreFenced, Init
    PROVE  RetryInv
<1>1. \A i \in 1..MaxCalls : client[i].stage = "idle"
  BY DEF Init, Idle
<1>2. Pending = {}
  BY <1>1 DEF Init, Pending
<1>3. \A k \in Committed : Age(kv[k].val) = 0
  BY DEF Init, CommitsAreFenced, Age
<1>4. calls = 0 /\ \A i \in 1..MaxCalls : ran[i] = 0
  BY DEF Init
<1> QED BY <1>2, <1>3, <1>4 DEF RetryInv

\* A new commit saw what an older call wrote.
LEMMA RetryCall ==
    ASSUME CommitsAreFenced, TypeOK, ClockInv, RetryInv, Call
    PROVE  RetryInv'
<1>1. PICK c \in Calls :
         LET r == [id |-> calls + 1, try |-> 0, since |-> now, c |-> c,
                   old |-> GET(c.key).val, guard |-> GET("gen").val]
         IN client' = [client EXCEPT ![r.id] = Waiting(r)] /\ wire' = wire \cup {r}
  BY DEF Call
<1> DEFINE r == [id |-> calls + 1, try |-> 0, since |-> now, c |-> c,
                 old |-> GET(c.key).val, guard |-> GET("gen").val]
<1>2. /\ calls \in Nat /\ calls + 1 \in 1..MaxCalls /\ calls' = calls + 1 /\ kv' = kv /\ ran' = ran
      /\ client \in [1..MaxCalls -> {Idle} \cup Waits \cup Replies]
  BY RedisAssumption DEF Call, TypeOK, ClientOK, serverVars
<1>3. client' = [client EXCEPT ![calls + 1] = Waiting(r)] /\ wire' = wire \cup {r}
  BY <1>1
<1>4. Waiting(r).cmd = r /\ r.id = calls + 1 /\ r.c = c /\ r.old = GET(c.key).val
  BY DEF Waiting
<1> HIDE DEF r
<1>5. ASSUME NEW q \in Pending' PROVE q = r \/ q \in Pending
  <2>1. CASE q \in wire'
    BY <1>3, <2>1 DEF Pending
  <2>2. ASSUME NEW i \in 1..MaxCalls, client'[i].stage = "wait", q = client'[i].cmd
        PROVE  q = r \/ q \in Pending
    <3>1. CASE i = calls + 1
      BY <1>2, <1>3, <1>4, <2>2, <3>1
    <3>2. CASE i # calls + 1
      <4>1. client'[i] = client[i]
        BY <1>2, <1>3, <3>2
      <4> QED BY <2>2, <4>1 DEF Pending
    <3> QED BY <3>1, <3>2
  <2> QED BY <1>5, <2>1, <2>2 DEF Pending
<1>6. \A q \in Pending : q.id <= calls /\ q.id \in Nat
  BY PendingType DEF Commands
<1>7. \A k \in Committed : Age(kv[k].val) <= calls + 1
  <2> SUFFICES ASSUME NEW k \in Committed PROVE Age(kv[k].val) <= calls + 1
    OBVIOUS
  <2>1. k \in Keys
    BY RedisAssumption DEF Committed
  <2>2. kv[k].val \in Nat
    BY <2>1, EntryType DEF TypeOK, Entries
  <2>3. Age(kv[k].val) \in Nat
    BY <2>2, AgeType
  <2> QED BY <1>2, <2>3 DEF RetryInv
<1>8. \A i \in 1..MaxCalls : ran'[i] <= 1 /\ (i > calls' => ran'[i] = 0)
  BY <1>2 DEF RetryInv
<1>9. ASSUME NEW q \in Pending', NEW p \in Pending', q.id = p.id PROVE SameCall(q, p)
  <2>1. CASE q = r /\ p = r
    BY <2>1 DEF SameCall
  <2>2. CASE q \in Pending /\ p \in Pending
    BY <1>9, <2>2 DEF RetryInv
  <2>3. \A x \in Pending : x.id # r.id
    BY <1>2, <1>4, <1>6
  <2> QED BY <1>5, <1>9, <2>1, <2>2, <2>3
<1>10. ASSUME NEW q \in Pending', q.c.op = "CommitBlock"
       PROVE  Age(q.old) < q.id /\ (ran'[q.id] = 1 => Fenced(q)')
  <2>1. CASE q \in Pending
    BY <1>2, <1>10, <2>1 DEF RetryInv, Fenced, Outlasts
  <2>2. CASE q = r
    <3>1. c.key \in Committed /\ c.key \in Keys
      BY <1>4, <1>10, <2>2, RedisAssumption DEF Committed
    <3>2. kv[c.key].val \in Nat /\ (GET(c.key) = kv[c.key] \/ GET(c.key) = None)
      BY <3>1, EntryType DEF TypeOK, Entries
    <3>3. Age(kv[c.key].val) <= calls /\ Age(kv[c.key].val) \in Nat /\ Age(Nil) = 0
      BY <3>1, <3>2, AgeType DEF RetryInv
    <3>4. None.val = Nil
      BY DEF None, Entry
    <3>5. Age(r.old) < r.id
      BY <1>2, <1>4, <3>2, <3>3, <3>4
    <3>6. ran'[r.id] = 0
      BY <1>2, <1>4 DEF RetryInv
    <3> QED BY <2>2, <3>5, <3>6
  <2> QED BY <1>5, <2>1, <2>2
<1> QED BY <1>2, <1>7, <1>8, <1>9, <1>10 DEF RetryInv

\* A step that leaves the fences alone and brings no call that was not pending.
LEMMA RetryKept ==
    ASSUME RetryInv, kv'["hold"] = kv["hold"], \A k \in Committed : kv'[k] = kv[k],
           ran' = ran, calls' = calls,
           \A r \in Pending' : r.c.op = "CommitBlock" => r.c.key \in Committed,
           \A r \in Pending' : \E s \in Pending : SameCall(r, s)
    PROVE  RetryInv'
<1>1. ASSUME NEW q \in Pending', NEW p \in Pending', q.id = p.id PROVE SameCall(q, p)
  <2>1. PICK a \in Pending, b \in Pending : SameCall(q, a) /\ SameCall(p, b)
    BY <1>1
  <2>2. a.id = b.id
    BY <1>1, <2>1 DEF SameCall
  <2>3. SameCall(a, b)
    BY <2>2 DEF RetryInv
  <2> QED BY <2>1, <2>3 DEF SameCall
<1>2. ASSUME NEW q \in Pending', q.c.op = "CommitBlock"
      PROVE  Age(q.old) < q.id /\ (ran'[q.id] = 1 => Fenced(q)')
  <2>1. PICK a \in Pending : SameCall(q, a)
    BY <1>2
  <2>2. Age(a.old) < a.id /\ (ran[a.id] = 1 => Fenced(a))
    BY <1>2, <2>1 DEF RetryInv, SameCall
  <2>3. Fenced(a) => Fenced(q)'
    BY <1>2, <2>1 DEF Fenced, Outlasts, SameCall
  <2> QED BY <2>1, <2>2, <2>3 DEF SameCall
<1> QED BY <1>1, <1>2 DEF RetryInv

\* What a script makes of the hold: an unblock, or whoever may set it, sets it
\* for long enough; nobody else writes it.
LEMMA RunHold ==
    ASSUME CommitsAreFenced, TypeOK, NEW q \in Commands
    PROVE  \/ Run(q).kv["hold"] = kv["hold"]
           \/ \E t \in Nat : LongEnough(t) /\ Run(q).kv["hold"] = SetPX(q.id, t)
<1> DEFINE c == q.c
           key == q.c.key
<1> USE DEF Effect
<1>1. c \in Calls /\ q.id \in Nat /\ key \in Keys /\ "hold" \in Keys /\ "hold" \notin Blocks
  <2>1. c \in Calls /\ q.id \in Nat
    BY DEF Commands
  <2> QED BY <2>1, RedisAssumption DEF Keys
<1>2. kv \in [Keys -> Entries]
  BY DEF TypeOK, ServerOK
<1>3. ASSUME NEW e, NEW k \in Keys, k # "hold"
      PROVE [kv EXCEPT ![k] = e]["hold"] = kv["hold"]
  BY <1>1, <1>2, <1>3
<1>4. key = "hold" => c.op = "GetWithExpiry" \/ (c.op = "Set" /\ LongEnough(pexpireArg(c.ttl)))
  BY <1>1 DEF CommitsAreFenced
<1>5. CASE Run(q).kv = kv
  BY <1>5
<1>6. CASE c.op = "Set"
  <2>1. c.ttl \in Int
    BY <1>1, <1>6, RedisAssumption
  <2>2. pexpireArg(c.ttl) \in Nat
    BY <2>1, PexpireType
  <2> DEFINE e == SetPX(q.id, pexpireArg(c.ttl))
  <2>3. Run(q).kv = [kv EXCEPT ![key] = e]
    BY <1>1, <1>6, RunOf DEF SetScript
  <2> HIDE DEF e
  <2>4. CASE key = "hold"
    <3>1. Run(q).kv["hold"] = e
      BY <1>1, <1>2, <2>3, <2>4
    <3>2. LongEnough(pexpireArg(c.ttl))
      BY <1>4, <1>6, <2>4
    <3> QED BY <2>2, <3>1, <3>2 DEF e
  <2>5. CASE key # "hold"
    BY <1>1, <1>3, <2>3, <2>5
  <2> QED BY <2>4, <2>5
<1>7. CASE c.op \in {"Delete", "CompareAndSwap", "CompareAndDelete", "IncrByDeadline"}
  <2>1. key # "hold"
    BY <1>4, <1>7
  <2>2. CASE c.op \in {"Delete", "CompareAndDelete"}
    <3>1. Run(q).kv = kv \/ Run(q).kv = [kv EXCEPT ![key] = None]
      BY <1>1, <2>2, RunOf DEF DelScript, cadScript, Unapplied
    <3> QED BY <1>1, <1>3, <1>5, <2>1, <3>1
  <2>3. CASE c.op = "CompareAndSwap"
    <3> DEFINE e == SetPX(q.id, pexpireArg(c.ttl))
    <3>1. Run(q).kv = kv \/ Run(q).kv = [kv EXCEPT ![key] = e]
      BY <1>1, <2>3, RunOf DEF casScript, Unapplied
    <3> HIDE DEF e
    <3> QED BY <1>1, <1>3, <1>5, <2>1, <3>1
  <2>4. CASE c.op = "IncrByDeadline"
    <3> DEFINE d == deadlineMillis(c.deadline)
               g == GET(key)
               e == IF g = None THEN Entry(c.delta, IF d > 0 THEN d ELSE 0)
                    ELSE Entry(g.val + c.delta, g.dl)
    <3>1. Run(q).kv = kv \/ Run(q).kv = [kv EXCEPT ![key] = e]
      BY <1>1, <2>4, RunOf DEF incrByDeadlineScript, Unapplied
    <3> HIDE DEF e
    <3> QED BY <1>1, <1>3, <1>5, <2>1, <3>1
  <2> QED BY <1>7, <2>2, <2>3, <2>4
<1>8. CASE c.op = "CommitBlock"
  <2> DEFINE K == [kv EXCEPT !["ctr"] = Count(c)]
             e == SetPX(q.id, Ladder(c, Count(c).val))
  <2>1. key # "hold"
    BY <1>4, <1>8
  <2>2. Run(q).kv = kv \/ Run(q).kv = [K EXCEPT ![key] = e]
    BY <1>1, <1>8, RunOf DEF commitBlockScript, Unapplied
  <2>3. DOMAIN K = Keys /\ K["hold"] = kv["hold"]
    BY <1>1, <1>2
  <2> HIDE DEF K, e
  <2>4. [K EXCEPT ![key] = e]["hold"] = kv["hold"]
    BY <1>1, <2>1, <2>3
  <2> QED BY <1>5, <2>2, <2>4
<1>9. CASE c.op = "CommitEvent"
  <2> DEFINE e == Count(c)
  <2>1. Run(q).kv = kv \/ Run(q).kv = [kv EXCEPT !["ctr"] = e]
    BY <1>1, <1>9, RunOf DEF commitEventScript, Unapplied
  <2>2. "ctr" \in Keys
    BY DEF Keys
  <2> HIDE DEF e
  <2> QED BY <1>3, <1>5, <2>1, <2>2
<1>10. CASE c.op = "CommitUnblock"
  <2> DEFINE h == SetPX(q.id, pexpireArg(c.ttl))
             g == SetPX(q.id, pexpireArg(c.genTTL))
             K1 == [kv EXCEPT !["hold"] = h]
             K2 == [K1 EXCEPT !["gen"] = g]
             K3 == [K2 EXCEPT ![key] = None]
             K  == [K3 EXCEPT !["ctr"] = IF c.reset THEN None ELSE K3["ctr"]]
  <2>1. Run(q).kv = K
    BY <1>1, <1>10, RunOf DEF commitUnblockScript
  <2>2. key # "hold"
    BY <1>4, <1>10
  <2> HIDE DEF h, g
  <2>3. DOMAIN K1 = Keys /\ K1["hold"] = h
    BY <1>1, <1>2
  <2> HIDE DEF K1
  <2>4. DOMAIN K2 = Keys /\ K2["hold"] = h
    BY <1>1, <2>3
  <2> HIDE DEF K2
  <2>5. DOMAIN K3 = Keys /\ K3["hold"] = h
    BY <1>1, <2>2, <2>4
  <2> HIDE DEF K3
  <2>6. K["hold"] = h
    BY <1>1, <2>5
  <2>7. c.ttl \in Int
    BY <1>1, <1>10, RedisAssumption
  <2>8. pexpireArg(c.ttl) \in Nat
    BY <2>7, PexpireType
  <2>9. LongEnough(pexpireArg(c.ttl))
    BY <1>1, <1>10 DEF CommitsAreFenced
  <2> HIDE DEF K
  <2> QED BY <2>1, <2>6, <2>8, <2>9 DEF h
<1>11. CASE c.op = "GetWithExpiry"
  BY <1>1, <1>5, <1>11, RunOf DEF Unapplied
<1> QED BY <1>1, <1>6, <1>7, <1>8, <1>9, <1>10, <1>11, RedisAssumption

\* What a script makes of a block that commits are about: a commit that applied
\* replaced its predecessor by a block of its own for long enough, while no hold
\* was there; an unblock removed it and set the hold.
LEMMA RunCommitted ==
    ASSUME CommitsAreFenced, TypeOK, NEW q \in Commands, NEW k \in Committed
    PROVE  \/ Run(q).kv[k] = kv[k]
           \/ /\ q.c.op = "CommitBlock" /\ Run(q).applied = TRUE /\ k = q.c.key
              /\ \E t \in Nat : LongEnough(t) /\ Run(q).kv[k] = SetPX(q.id, t)
           \/ /\ Run(q).kv[k] = None
              /\ \E t \in Nat : LongEnough(t) /\ Run(q).kv["hold"] = SetPX(q.id, t)
<1> DEFINE c == q.c
           key == q.c.key
<1> USE DEF Effect
<1>1. c \in Calls /\ q.id \in Nat /\ key \in Keys /\ "hold" \in Keys /\ "ctr" \in Keys /\ "gen" \in Keys
      /\ k \in Blocks /\ k \in Keys /\ {"hold", "gen", "ctr"} \cap Blocks = {}
  <2>1. c \in Calls /\ q.id \in Nat
    BY DEF Commands
  <2>2. k \in Blocks
    BY RedisAssumption DEF Committed
  <2> QED BY <2>1, <2>2, RedisAssumption DEF Keys
<1>2. kv \in [Keys -> Entries] /\ ServerOK
  BY DEF TypeOK, ServerOK
<1>3. CASE k # key
  BY <1>1, <1>2, <1>3, RunEffect
<1>4. CASE k = key /\ c.op = "CommitBlock"
  <2> DEFINE K == [kv EXCEPT !["ctr"] = Count(c)]
             l == Ladder(c, Count(c).val)
             e == SetPX(q.id, l)
  <2>1. c.ttl \in Int
    BY <1>1, <1>4, RedisAssumption
  <2>2. Count(c) \in Entries /\ Count(c).val > 0
    BY <1>2, <2>1, CountType
  <2>3. BaseTTL(c) >= CallBudget /\ CapTTL(c) >= CallBudget /\ CallBudget \in Nat
    BY <1>1, <1>4, RedisAssumption DEF CommitsAreFenced
  <2>4. BaseTTL(c) \in Nat /\ CapTTL(c) \in Nat
    BY <1>1, <1>4, BoundType
  <2>5. Count(c).val \in Nat \ {0}
    BY <2>2 DEF Entries
  <2>6. l \in Nat \ {0} /\ CallBudget <= l
    BY <1>1, <1>4, <2>3, <2>4, <2>5, LadderBound
  <2>7. LongEnough(l)
    BY <2>3, <2>6 DEF LongEnough
  <2>8. \/ Run(q).kv = [K EXCEPT ![key] = e] /\ Run(q).applied = TRUE
        \/ Run(q).kv = kv
    BY <1>1, <1>4, RunOf DEF commitBlockScript, Unapplied
  <2>9. DOMAIN K = Keys
    BY <1>1, <1>2
  <2> HIDE DEF K, e, l
  <2>10. [K EXCEPT ![key] = e][k] = e
    BY <1>1, <1>4, <2>9
  <2> QED BY <1>4, <2>6, <2>7, <2>8, <2>10 DEF e
<1>5. CASE k = key /\ c.op = "CommitUnblock"
  <2> DEFINE h == SetPX(q.id, pexpireArg(c.ttl))
             g == SetPX(q.id, pexpireArg(c.genTTL))
             K1 == [kv EXCEPT !["hold"] = h]
             K2 == [K1 EXCEPT !["gen"] = g]
             K3 == [K2 EXCEPT ![key] = None]
             K  == [K3 EXCEPT !["ctr"] = IF c.reset THEN None ELSE K3["ctr"]]
  <2>1. Run(q).kv = K
    BY <1>1, <1>5, RunOf DEF commitUnblockScript
  <2>2. key # "hold"
    BY <1>1, <1>5
  <2> HIDE DEF h, g
  <2>3. DOMAIN K1 = Keys /\ K1["hold"] = h
    BY <1>1, <1>2
  <2> HIDE DEF K1
  <2>4. DOMAIN K2 = Keys /\ K2["hold"] = h
    BY <1>1, <2>3
  <2> HIDE DEF K2
  <2>5. DOMAIN K3 = Keys /\ K3["hold"] = h
    BY <1>1, <2>2, <2>4
  <2> HIDE DEF K3
  <2>6. K["hold"] = h
    BY <1>1, <2>5
  <2>7. c.ttl \in Int
    BY <1>1, <1>5, RedisAssumption
  <2>8. pexpireArg(c.ttl) \in Nat
    BY <2>7, PexpireType
  <2>9. LongEnough(pexpireArg(c.ttl))
    BY <1>1, <1>5 DEF CommitsAreFenced
  <2>10. Drops(c, Run(q))
    BY <1>1, <1>5 DEF Drops, DropsBlock
  <2>11. Run(q).kv[k] = None
    BY <1>2, <1>5, <2>10, RunEffect
  <2> HIDE DEF K
  <2> QED BY <2>1, <2>6, <2>8, <2>9, <2>11 DEF h
<1>6. CASE k = key /\ c.op = "GetWithExpiry"
  BY <1>1, <1>6, RunOf DEF Unapplied
<1>7. k = key => c.op \in {"CommitBlock", "CommitUnblock", "GetWithExpiry"}
  BY <1>1 DEF CommitsAreFenced
<1> QED BY <1>3, <1>4, <1>5, <1>6, <1>7

\* A commit that applies found no hold, and the predecessor its caller saw.
LEMMA CommitSaw ==
    ASSUME TypeOK, NEW q \in Commands, q.c.op = "CommitBlock", Run(q).applied = TRUE
    PROVE  ~Exists(kv["hold"]) /\ GET(q.c.key).val = q.old
<1>1. q.c \in Calls /\ "hold" \in Keys /\ ServerOK
  BY DEF Commands, Keys, TypeOK
<1>2. GET("hold") = None /\ BlockMatches(q)
  BY <1>1, RunOf DEF commitBlockScript, Unapplied, Effect
<1> QED BY <1>1, <1>2, EntryType DEF BlockMatches

\* A commit that takes effect had not, and its own block, or the hold of an
\* unblock, fences off every attempt that is left, its own and older ones'.
LEMMA RetryExec ==
    ASSUME CommitsAreFenced, TypeOK, ClockInv, RetryInv, NEW q \in wire, Exec(q)
    PROVE  RetryInv'
<1>1. q \in Pending /\ q \in Commands /\ Lasts(q.since) /\ q.id <= calls /\ q.id \in 1..MaxCalls
      /\ q.c \in Calls /\ calls \in Nat
  <2>1. q \in Pending
    BY DEF Pending
  <2> QED BY <2>1, PendingType DEF Commands, TypeOK, ClientOK
<1>2. /\ kv' = Run(q).kv /\ calls' = calls
      /\ ran' = IF q.c.op = "CommitBlock" /\ Run(q).applied THEN [ran EXCEPT ![q.id] = @ + 1] ELSE ran
  BY DEF Exec
<1>3. ran \in [1..MaxCalls -> Nat] /\ kv \in [Keys -> Entries] /\ "hold" \in Keys /\ Run(q).applied \in BOOLEAN
  BY <1>1, RunEffect DEF TypeOK, ClientOK, ServerOK, Keys
<1>4. Pending' \subseteq Pending
  <2>1. wire' \subseteq wire
    BY DEF Exec
  <2>2. ASSUME NEW i \in 1..MaxCalls, client'[i].stage = "wait" PROVE client'[i] = client[i]
    <3> DEFINE e == GET(q.c.key)
               g == [stage |-> "got", since |-> q.since, ttl |-> PTTL(e), dl |-> e.dl]
    <3>1. \/ client' = client
          \/ client' = [client EXCEPT ![q.id] = g]
          \/ client' = [client EXCEPT ![q.id] = Idle]
      BY DEF Exec
    <3>2. g.stage # "wait" /\ Idle.stage # "wait"
      BY DEF Idle
    <3> HIDE DEF g
    <3>3. client \in [1..MaxCalls -> {Idle} \cup Waits \cup Replies]
      BY DEF TypeOK, ClientOK
    <3> QED BY <1>1, <2>2, <3>1, <3>2, <3>3
  <2> QED BY <2>1, <2>2 DEF Pending
<1>5. \A r \in Pending : r \in Commands /\ Lasts(r.since)
  BY PendingType
<1>6. ASSUME NEW k \in Committed PROVE k \in Keys /\ k \in Blocks /\ kv[k] \in Entries /\ kv[k].val \in Nat
  BY <1>3, RedisAssumption DEF Committed, Keys, Entries
<1>7. ASSUME NEW k \in Committed PROVE Age(kv'[k].val) <= calls'
  <2>1. CASE kv'[k] = kv[k]
    BY <1>2, <2>1 DEF RetryInv
  <2>2. ASSUME NEW t \in Nat, kv'[k] = SetPX(q.id, t) PROVE Age(kv'[k].val) <= calls'
    <3>1. kv'[k].val = q.id
      BY <1>1, <2>2, SetPXType DEF TypeOK
    <3> QED BY <1>1, <1>2, <3>1, AgeType
  <2>3. CASE kv'[k] = None
    <3>1. kv'[k].val = Nil /\ Age(Nil) = 0
      BY <2>3 DEF None, Entry, Age, Nil
    <3> QED BY <1>1, <1>2, <3>1
  <2> QED BY <1>1, <1>2, <2>1, <2>2, <2>3, RunCommitted
<1>8. ASSUME q.c.op = "CommitBlock", Run(q).applied = TRUE PROVE ran[q.id] = 0
  <2>1. SUFFICES ASSUME ran[q.id] = 1 PROVE FALSE
    BY <1>1, <1>3 DEF RetryInv
  <2>2. ~Exists(kv["hold"]) /\ GET(q.c.key).val = q.old
    BY <1>1, <1>8, CommitSaw
  <2>3. Fenced(q)
    BY <1>1, <1>8, <2>1 DEF RetryInv
  <2>4. CASE Outlasts(kv["hold"], q)
    BY <1>1, <1>3, <2>2, <2>4, OutlastsExists
  <2>5. CASE Outlasts(kv[q.c.key], q) /\ Age(kv[q.c.key].val) > Age(q.old)
    <3>1. q.c.key \in Committed
      BY <1>1, <1>8 DEF Committed
    <3>2. Exists(kv[q.c.key])
      BY <1>1, <1>6, <2>5, <3>1, OutlastsExists
    <3>3. kv[q.c.key].val = q.old
      BY <2>2, <3>2 DEF GET
    <3>4. Age(q.old) \in Nat
      BY <1>1, AgeType DEF Commands
    <3> QED BY <2>5, <3>3, <3>4
  <2> QED BY <2>3, <2>4, <2>5 DEF Fenced
<1>9. \A i \in 1..MaxCalls : ran'[i] <= 1 /\ (i > calls' => ran'[i] = 0)
  <2>1. CASE q.c.op = "CommitBlock" /\ Run(q).applied = TRUE
    <3>1. ran' = [ran EXCEPT ![q.id] = @ + 1]
      BY <1>2, <2>1
    <3>2. ran[q.id] = 0
      BY <1>8, <2>1
    <3>3. ran'[q.id] = 1 /\ \A i \in 1..MaxCalls \ {q.id} : ran'[i] = ran[i]
      BY <1>1, <1>3, <3>1, <3>2
    <3> QED BY <1>1, <1>2, <1>3, <3>3 DEF RetryInv
  <2>2. CASE ~(q.c.op = "CommitBlock" /\ Run(q).applied = TRUE)
    BY <1>2, <1>3, <2>2 DEF RetryInv
  <2> QED BY <2>1, <2>2
<1>10. ASSUME NEW r \in Pending', r.c.op = "CommitBlock", ran'[r.id] = 1 PROVE Fenced(r)'
  <2> DEFINE k == r.c.key
  <2>1. r \in Pending /\ r \in Commands /\ Lasts(r.since) /\ k \in Committed /\ r.id \in 1..MaxCalls
    BY <1>4, <1>5, <1>10, PendingType DEF Commands
  <2>2. ASSUME NEW t \in Nat, LongEnough(t), kv'["hold"] = SetPX(q.id, t) PROVE Fenced(r)'
    <3>1. Outlasts(SetPX(q.id, t), r)
      BY <1>1, <2>1, <2>2, SetOutlasts
    <3> QED BY <2>2, <3>1 DEF Fenced, Outlasts
  <2>3. CASE kv'["hold"] = kv["hold"] /\ kv'[k] = kv[k]
    <3>1. ~(q.c.op = "CommitBlock" /\ Run(q).applied = TRUE /\ r.id = q.id)
      <4>1. SUFFICES ASSUME q.c.op = "CommitBlock", Run(q).applied = TRUE, r.id = q.id PROVE FALSE
        OBVIOUS
      <4>2. r.c = q.c /\ r.old = q.old
        BY <1>1, <2>1, <4>1 DEF RetryInv, SameCall
      <4>3. kv'[k] = SetPX(q.id, Ladder(q.c, Count(q.c).val))
        <5> DEFINE K == [kv EXCEPT !["ctr"] = Count(q.c)]
                   e == SetPX(q.id, Ladder(q.c, Count(q.c).val))
        <5>1. Run(q).kv = [K EXCEPT ![q.c.key] = e]
          BY <1>1, <4>1, RunOf DEF commitBlockScript, Unapplied, Effect
        <5>2. DOMAIN K = Keys
          BY <1>3
        <5> HIDE DEF K, e
        <5>3. Run(q).kv[q.c.key] = e
          BY <1>6, <2>1, <4>2, <5>1, <5>2
        <5> QED BY <1>2, <4>2, <5>3 DEF e
      <4>4. kv'[k].val = q.id
        BY <4>3 DEF SetPX, Entry
      <4>5. Age(kv[k].val) = q.id
        BY <1>1, <2>3, <4>4, AgeType
      <4>6. ~Exists(kv["hold"]) /\ GET(k).val = q.old
        BY <1>1, <4>1, <4>2, CommitSaw
      <4>7. Age(q.old) < q.id
        BY <1>1, <4>1 DEF RetryInv
      <4>8. CASE Exists(kv[k])
        <5>1. kv[k].val = q.old
          BY <4>6, <4>8 DEF GET
        <5> QED BY <1>1, <4>5, <4>7, <5>1
      <4>9. CASE ~Exists(kv[k])
        <5>1. Exists(kv'[k])
          <6> DEFINE l == Ladder(q.c, Count(q.c).val)
          <6>1. q.c.ttl \in Int
            BY <1>1, <4>1, RedisAssumption
          <6>2. Count(q.c) \in Entries /\ Count(q.c).val > 0
            BY <6>1, CountType DEF TypeOK
          <6>3. Count(q.c).val \in Nat \ {0}
            BY <6>2 DEF Entries
          <6>4. l \in Nat \ {0}
            BY <1>1, <4>1, <6>3, LadderBound
          <6> HIDE DEF l
          <6>5. SetPX(q.id, l) # None /\ SetPX(q.id, l).dl = now + l
            BY <1>1, <6>4, SetPXType DEF TypeOK
          <6>6. Exists(SetPX(q.id, l))
            BY <6>4, <6>5 DEF Exists, TypeOK, ServerOK
          <6> QED BY <4>3, <6>6 DEF l
        <5> QED BY <2>3, <4>9, <5>1
      <4> QED BY <4>8, <4>9
    <3>2. ran[r.id] = 1
      <4>1. ran'[r.id] = ran[r.id]
        BY <1>2, <1>3, <2>1, <3>1
      <4> QED BY <1>10, <4>1
    <3>3. Fenced(r)
      BY <1>10, <2>1, <3>2 DEF RetryInv
    <3> QED BY <2>3, <3>3 DEF Fenced, Outlasts
  <2>4. ASSUME q.c.op = "CommitBlock", Run(q).applied = TRUE, k = q.c.key,
               NEW t \in Nat, LongEnough(t), kv'[k] = SetPX(q.id, t)
        PROVE  Fenced(r)'
    <3>1. Outlasts(kv'[k], r)
      BY <1>1, <2>1, <2>4, SetOutlasts
    <3>2. kv'[k].val = q.id /\ Age(kv'[k].val) = q.id
      <4>1. kv'[k].val = q.id
        BY <1>1, <2>4, SetPXType DEF TypeOK
      <4> QED BY <1>1, <4>1, AgeType
    <3>3. Age(q.old) < q.id /\ Age(q.old) \in Nat /\ Age(r.old) \in Nat
      BY <1>1, <2>1, <2>4, AgeType DEF RetryInv, Commands
    <3>4. Age(r.old) <= Age(q.old)
      <4>1. CASE r.id = q.id
        <5>1. r.old = q.old
          BY <1>1, <2>1, <4>1 DEF RetryInv, SameCall
        <5> QED BY <3>3, <5>1
      <4>2. CASE r.id # q.id
        <5>1. ran[r.id] = 1
          BY <1>2, <1>3, <1>10, <2>1, <4>2
        <5>2. Fenced(r)
          BY <1>10, <2>1, <5>1 DEF RetryInv
        <5>3. ~Exists(kv["hold"]) /\ GET(k).val = q.old
          BY <1>1, <2>4, CommitSaw
        <5>4. Outlasts(kv[k], r) /\ Age(kv[k].val) > Age(r.old)
          BY <1>3, <2>1, <5>2, <5>3, OutlastsExists DEF Fenced
        <5>5. kv[k].val = q.old
          BY <1>6, <2>1, <5>3, <5>4, OutlastsExists DEF GET
        <5> QED BY <3>3, <5>4, <5>5
      <4> QED BY <4>1, <4>2
    <3>5. q.id > Age(r.old)
      BY <1>1, <3>3, <3>4
    <3> QED BY <3>1, <3>2, <3>5 DEF Fenced, Outlasts
  <2>5. kv'["hold"] = kv["hold"] \/ \E t \in Nat : LongEnough(t) /\ kv'["hold"] = SetPX(q.id, t)
    BY <1>1, <1>2, RunHold
  <2>6. \/ kv'[k] = kv[k]
        \/ /\ q.c.op = "CommitBlock" /\ Run(q).applied = TRUE /\ k = q.c.key
           /\ \E t \in Nat : LongEnough(t) /\ kv'[k] = SetPX(q.id, t)
        \/ \E t \in Nat : LongEnough(t) /\ kv'["hold"] = SetPX(q.id, t)
    BY <1>1, <1>2, <2>1, RunCommitted
  <2> HIDE DEF k
  <2> QED BY <2>2, <2>3, <2>4, <2>5, <2>6
<1>11. \A r, s \in Pending' : r.id = s.id => SameCall(r, s)
  BY <1>4 DEF RetryInv
<1>12. \A r \in Pending' : r.c.op = "CommitBlock" => Age(r.old) < r.id
  BY <1>4 DEF RetryInv
<1> QED BY <1>7, <1>9, <1>10, <1>11, <1>12 DEF RetryInv

\* A retry is another attempt of the same call.
LEMMA RetryTimeout ==
    ASSUME TypeOK, TypeOK', ClockInv, ClockInv', RetryInv, NEW i \in 1..MaxCalls, Timeout(i)
    PROVE  RetryInv'
<1> DEFINE r == client[i].cmd
           again == [r EXCEPT !.try = @ + 1]
<1>1. r \in Commands /\ client[i].stage = "wait" /\ r \in Pending
  BY WaitType DEF TypeOK, Timeout, Pending
<1>2. again \in Commands /\ SameCall(again, r)
  BY <1>1 DEF Commands, SameCall
<1>3. \/ client' = [client EXCEPT ![i] = Waiting(again)] /\ wire' = wire \cup {again}
      \/ client' = [client EXCEPT ![i] = Idle] /\ wire' = wire
  BY DEF Timeout
<1> HIDE DEF again
<1>4. Waiting(again).cmd = again /\ Idle.stage = "idle"
  BY DEF Waiting, Idle
<1>5. client \in [1..MaxCalls -> {Idle} \cup Waits \cup Replies]
  BY DEF TypeOK, ClientOK
<1>6. ASSUME NEW q \in Pending' PROVE q = again \/ q \in Pending
  <2>1. CASE q \in wire'
    BY <1>3, <2>1 DEF Pending
  <2>2. ASSUME NEW j \in 1..MaxCalls, client'[j].stage = "wait", q = client'[j].cmd
        PROVE  q = again \/ q \in Pending
    <3>1. client'[j] = client[j] \/ client'[j] = Waiting(again) \/ client'[j] = Idle
      BY <1>3, <1>5
    <3> QED BY <1>4, <2>2, <3>1 DEF Pending
  <2> QED BY <1>6, <2>1, <2>2 DEF Pending
<1>7. \A q \in Pending' : \E s \in Pending : SameCall(q, s)
  BY <1>1, <1>2, <1>6 DEF SameCall
<1>8. \A q \in Pending' : q.c.op = "CommitBlock" => q.c.key \in Committed
  BY <1>1, <1>2, <1>6, PendingType DEF SameCall
<1>9. kv' = kv /\ ran' = ran /\ calls' = calls
  BY DEF Timeout, serverVars
<1> QED BY <1>7, <1>8, <1>9, RetryKept

\* A step after which no more is pending than before.
LEMMA RetryFewer ==
    ASSUME TypeOK, ClockInv, RetryInv, wire' \subseteq wire,
           \A i \in 1..MaxCalls : client'[i].stage = "wait" => client'[i] = client[i],
           kv'["hold"] = kv["hold"], \A k \in Committed : kv'[k] = kv[k],
           ran' = ran, calls' = calls
    PROVE  RetryInv'
<1>1. Pending' \subseteq Pending
  BY DEF Pending
<1>2. \A q \in Pending' : q.c.op = "CommitBlock" => q.c.key \in Committed
  BY <1>1, PendingType
<1>3. \A q \in Pending' : \E s \in Pending : SameCall(q, s)
  BY <1>1 DEF SameCall
<1> QED BY <1>2, <1>3, RetryKept

\* Every step keeps the fences.
LEMMA RetryNext ==
    ASSUME CommitsAreFenced, TypeOK, TypeOK', ClockInv, ClockInv', RetryInv, [Next]_vars
    PROVE  RetryInv'
<1>1. CASE UNCHANGED <<kv, wire, client, ran, calls>>
  BY <1>1, RetryFewer
<1>2. CASE UNCHANGED vars
  BY <1>1, <1>2 DEF vars, serverVars, voteVars, askVars
<1>3. CASE Prepare \/ Page \/ Values \/ Heal \/ EndScan \/ AbortScan
  BY <1>1, <1>3 DEF Prepare, Page, Values, Heal, EndScan, AbortScan, scanStep
<1>4. CASE VoteSteps
  BY <1>1, <1>4, VotesElsewhere DEF voteStep, serverVars
<1>6. Idle.stage # "wait"
  BY DEF Idle
<1>7. ASSUME NEW i \in 1..MaxCalls, TakeReply(i) PROVE RetryInv'
  <2>1. /\ wire' = wire /\ kv' = kv /\ ran' = ran /\ calls' = calls
        /\ client' = [client EXCEPT ![i] = Idle]
        /\ client \in [1..MaxCalls -> {Idle} \cup Waits \cup Replies]
    BY <1>7 DEF TakeReply, serverVars, TypeOK, ClientOK
  <2>2. \A j \in 1..MaxCalls : client'[j].stage = "wait" => client'[j] = client[j]
    BY <1>6, <2>1
  <2> QED BY <2>1, <2>2, RetryFewer
<1>8. CASE Tick
  <2>1. wire' \subseteq wire /\ kv' = kv /\ ran' = ran /\ calls' = calls
    BY <1>8 DEF Tick, serverVars
  <2>2. \A j \in 1..MaxCalls : client'[j].stage = "wait" => client'[j] = client[j]
    BY <1>6, <1>8 DEF Tick
  <2> QED BY <2>1, <2>2, RetryFewer
<1>9. ASSUME NEW k \in Poked, Poke(k) PROVE RetryInv'
  <2>1. /\ wire' = wire /\ client' = client /\ ran' = ran /\ calls' = calls
        /\ kv' = [kv EXCEPT ![k] = None] /\ kv \in [Keys -> Entries]
    BY <1>9 DEF Poke, TypeOK, ServerOK
  <2>2. \A j \in Committed \cup {"hold"} : j # k /\ j \in Keys
    BY <1>9, RedisAssumption DEF CommitsAreFenced, Committed, Keys
  <2>3. kv'["hold"] = kv["hold"] /\ \A j \in Committed : kv'[j] = kv[j]
    BY <2>1, <2>2
  <2> QED BY <2>1, <2>3, RetryFewer
<1> QED BY <1>2, <1>3, <1>4, <1>7, <1>8, <1>9, RetryCall, RetryTimeout, RetryExec DEF Next

\* A commit whose reply was lost and which the client therefore sent again
\* advances the offense ladder once, however many retries are allowed, provided
\* the calls are such that commits are fenced (commitBlockScript).
THEOREM OffensesCorrect == CommitsAreFenced => (Spec => []OffensesCountOnce)
<1> SUFFICES ASSUME CommitsAreFenced PROVE Spec => []OffensesCountOnce
  OBVIOUS
<1>1. Init => RetryInv
  BY RetryInit
<1>2. TypeOK /\ TypeOK' /\ ClockInv /\ ClockInv' /\ RetryInv /\ [Next]_vars => RetryInv'
  BY RetryNext
<1>3. RetryInv => OffensesCountOnce
  BY DEF RetryInv, OffensesCountOnce
<1> QED BY <1>1, <1>2, <1>3, TypeCorrect, ClockCorrect, PTL DEF Spec
=============================================================================

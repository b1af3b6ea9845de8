----------------------------- MODULE KeysProofs -----------------------------
(***************************************************************************)
(* Proofs about signing keys, their refreshes and the verified-token cache,*)
(* for any number of calls, keys, tokens, rotations and faults, any refresh*)
(* interval, lifetimes and stalls.                                         *)
(*                                                                         *)
(* The argument is one of time. FileInv orders the keys: a key is replaced *)
(* when the next one is born, and by then it is archived. Loaded says what *)
(* a key set that was read at some time is still good for: it knows the    *)
(* final retirement of every key before its current one. ThrottleOK and    *)
(* UntilOK bound how long ago the set's current key may have been replaced,*)
(* by what is left of the two throttles; AgeOK carries that bound over to a*)
(* verification that passed them.                                          *)
(***************************************************************************)
EXTENDS Keys, TLAPS, WellFoundedInduction

-----------------------------------------------------------------------------
(* The inductive invariant                                                 *)

Ops  == {"none", "boot", "touch", "retouch", "verify", "mint", "rotate"}
Jobs == [op : Ops, peer : BOOLEAN, tok : Tokens \cup {None}, start : Times, at : Times,
         snap : KeySets \cup {None}, stale : BOOLEAN]

FileTypes ==
    /\ now \in Times /\ file \in 0 .. MaxKeys /\ lastKey = file
    /\ archive \in SUBSET Entries /\ torn \in SUBSET Entries /\ archive \cap torn = {}
    /\ born \in [Key -> Times \cup {Never}] /\ replaced \in [Key -> Times \cup {Never}]
    /\ tokens \in SUBSET Tokens

CallTypes ==
    /\ lock \in Threads \cup {None} /\ round \in Threads \cup {None}
    /\ reloadMu \in Threads \cup {None}
    /\ pc \in [Threads -> Places] /\ job \in [Threads -> Jobs]

MemTypes ==
    /\ up \in BOOLEAN /\ mem \in KeySets
    /\ lastRefresh \in 0 .. Interval /\ lastFailureRefresh \in 0 .. Interval
    /\ until \in 0 .. Interval
    /\ lastRefreshErr \in BOOLEAN /\ lastFailureErr \in BOOLEAN /\ failed \in BOOLEAN
    /\ cache \in SUBSET [tok : Tokens, exp : Nat]

\* Keys become current one after the other, and a replaced one is in the archive.
FileInv ==
    /\ \A k \in Key : k <= file => born[k] # Never /\ born[k] <= now
    /\ \A k \in Key : k < file <=> replaced[k] # Never
    /\ \A k \in Key : replaced[k] <= now
    /\ \A j, k \in Key : j < k /\ k <= file => replaced[j] <= born[k]
    /\ \A a \in archive : a.key <= file
    /\ \A k \in Key : k < file => \E a \in archive : a.key = k
    /\ \A tok \in tokens : tok.key <= file

\* What a key set that was loaded at some time knows.
Loaded(set) ==
    /\ set.current \in Key /\ set.current <= file
    /\ \A k \in Key : set.retired[k] # Never =>
          \E a \in archive : a.key = k /\ a.at = set.retired[k]
    /\ \A a \in archive : a.key < set.current /\ Matters(a) =>
          set.retired[a.key] # Never /\ a.at <= set.retired[a.key]

\* Where reloadMu is held.
Refreshing == {"snap-routine", "snap-miss", "same", "install", "installed", "sign"}

\* What a call is about, by where it is.
OpOK(t) ==
    /\ pc[t] = "idle" => job[t].op = "none"
    /\ pc[t] \in {"create", "load"} => job[t].op = "boot"
    /\ pc[t] \in {"routine", "snap-routine"} => job[t].op \in {"verify", "touch"}
    /\ pc[t] \in {"miss", "snap-miss"} => job[t].op \in {"verify", "retouch"}
    /\ pc[t] \in {"rotate", "rotated"} => job[t].op = "rotate"
    /\ pc[t] \in {"same", "install", "installed"} =>
          job[t].op \in {"verify", "touch", "retouch", "rotate"}
    /\ pc[t] \in {"await", "cached", "again", "put"} => job[t].op = "verify"
    /\ pc[t] \in {"locks", "sign"} => job[t].op = "mint"
    /\ job[t].op = "verify" => job[t].tok \in Tokens /\ job[t].tok.key <= file

\* Whose call it is, how long it has been going on, and which locks it holds.
CallOK(t) ==
    /\ pc[t] # "idle" => /\ job[t].start <= now /\ now <= job[t].start + MaxStall
                         /\ job[t].at <= now
    /\ pc[t] \notin {"idle", "create"} => file > 0
    /\ job[t].peer => pc[t] \in {"create", "locks", "rotate"}
    /\ pc[t] \notin {"idle", "create", "load"} /\ ~job[t].peer => up
    /\ pc[t] \in {"create", "load"} /\ ~job[t].peer => ~up
    /\ pc[t] \in Refreshing <=> reloadMu = t
    /\ round = t => /\ job[t].op = "verify"
                    /\ pc[t] \in {"routine", "snap-routine", "same", "install", "installed"}

\* A snapshot was taken within the call.
SnapOK(t) ==
    pc[t] \in {"same", "install", "installed"} =>
        /\ job[t].snap \in KeySets /\ Loaded(job[t].snap)
        /\ job[t].snap.current < file => job[t].start <= replaced[job[t].snap.current]
        /\ pc[t] # "install" => mem = job[t].snap

\* A verification that passed the refresh trusts a current key that was replaced not long before.
AgeOK(t) ==
    pc[t] \in {"cached", "again"} /\ mem.current < file =>
        job[t].start < replaced[mem.current] + 2 * Interval + MaxStall

\* The current key or an archive vouches for the token.
Backed(tok) == mem.current = tok.key \/ \E a \in archive : a.key = tok.key /\ tok.iat <= a.at

\* A token about to be cached was accepted with good reason.
PutOK(t) ==
    pc[t] = "put" =>
        /\ ~job[t].stale => Backed(job[t].tok)
        /\ Late(job[t].tok) =>
              job[t].at < replaced[job[t].tok.key] + 2 * Interval + 2 * MaxStall

\* A token about to be called invalid deserves it.
MissOK(t) ==
    pc[t] = "miss" /\ job[t].op = "verify" =>
        ~(/\ Genuine(job[t].tok) /\ Settled(job[t].tok, job[t].start)
          /\ now < job[t].tok.iat + TokenTTL)

ThreadOK(t) == OpOK(t) /\ CallOK(t) /\ SnapOK(t) /\ AgeOK(t) /\ PutOK(t) /\ MissOK(t)
Threaded == \A t \in Threads : ThreadOK(t)

\* The process starts in one call.
Booting == ~up => \A s, t \in Own : s = t

MemOK == up => Loaded(mem)

\* How old the key set may be, by the throttle on reloads and by the one on verifications.
ThrottleOK ==
    /\ up /\ lastRefresh > 0 /\ ~lastRefreshErr /\ mem.current < file
    /\ \A t \in Threads : pc[t] \notin {"snap-routine", "install"}
    => now + lastRefresh <= replaced[mem.current] + Interval + MaxStall
UntilOK ==
    up /\ until > 0 /\ ~failed /\ mem.current < file =>
        now + until <= replaced[mem.current] + 2 * Interval + MaxStall

Verdicts == wronged = {} /\ overdue = {}

CacheInv ==
    /\ ~up => cache = {}
    /\ \A c \in cache : c.tok.key <= file /\ c.exp <= now + CacheValidity
    /\ \A c \in cache : Late(c.tok) =>
          c.exp < replaced[c.tok.key] + 2 * Interval + 2 * MaxStall + CacheValidity
    /\ (\A t \in Threads : pc[t] \notin {"installed", "sign"}) =>
          \A c \in cache : Backed(c.tok) \/ c.tok \in recached

Files  == FileTypes /\ FileInv
Memory == MemTypes /\ MemOK /\ ThrottleOK /\ UntilOK
Calls  == CallTypes /\ Threaded /\ Booting
Inv == Files /\ Memory /\ Calls /\ Verdicts /\ CacheInv

-----------------------------------------------------------------------------
(* Stamps                                                                  *)

\* A set of points in time has a latest one.
LEMMA MaxIs ==
    ASSUME NEW N \in Nat, NEW S \in SUBSET (0 .. N), S # {}
    PROVE  Max(S) \in S /\ \A y \in S : Max(S) >= y
<1> DEFINE D == {N - x : x \in S}
           R == OpToRel(<, Nat)
<1>0. \A x \in S : x \in Nat /\ N - x \in Nat
    OBVIOUS
<1>1. D \subseteq Nat /\ D # {}
    BY <1>0
<1>2. IsWellFoundedOn(R, Nat)
    BY NatLessThanWellFounded
<1>3. \A a, b \in Nat : a < b => <<a, b>> \in R
    BY DEF OpToRel
<1> HIDE DEF D, R
<1>4. PICK d \in D : \A y \in D : ~(<<y, d>> \in R)
    BY <1>1, <1>2, WFMin
<1>5. ASSUME NEW y \in D PROVE y >= d
    <2>1. y \in Nat /\ d \in Nat
        BY <1>1
    <2>2. ~(y < d)
        BY <1>3, <1>4, <2>1
    <2> QED
        BY <2>1, <2>2
<1>6. PICK x \in S : d = N - x
    BY DEF D
<1>7. ASSUME NEW y \in S PROVE x >= y
    <2>1. N - y \in D
        BY DEF D
    <2> QED
        BY <1>0, <1>5, <1>6, <2>1
<1> QED
    BY <1>0, <1>7 DEF Max

\* The throttles count down to nothing.
LEMMA CountDown ==
    ASSUME NEW n \in Nat
    PROVE  Max({n - 1, 0}) = IF n > 0 THEN n - 1 ELSE 0
<1>1. CASE n > 0
    <2>1. \E x \in {n - 1, 0} : \A y \in {n - 1, 0} : x >= y
        BY <1>1
    <2>2. Max({n - 1, 0}) \in {n - 1, 0} /\ \A y \in {n - 1, 0} : Max({n - 1, 0}) >= y
        BY <2>1 DEF Max
    <2> QED
        BY <1>1, <2>2
<1>2. CASE n = 0
    <2>1. \E x \in {n - 1, 0} : \A y \in {n - 1, 0} : x >= y
        BY <1>2
    <2>2. Max({n - 1, 0}) \in {n - 1, 0} /\ \A y \in {n - 1, 0} : Max({n - 1, 0}) >= y
        BY <2>1 DEF Max
    <2> QED
        BY <1>2, <2>2
<1> QED
    BY <1>1, <1>2

\* The retirement of an archived key is the latest of its archives.
LEMMA StampIs ==
    ASSUME FileTypes, NEW k \in Key
    PROVE  /\ (\E a \in archive : a.key = k) =>
                 /\ \E a \in archive : a.key = k /\ a.at = Stamp(k)
                 /\ \A a \in archive : a.key = k => a.at <= Stamp(k)
           /\ ~(\E a \in archive : a.key = k) => Stamp(k) = replaced[k]
<1> DEFINE S == {a.at : a \in {b \in archive : b.key = k}}
<1>0. MaxTime \in Nat /\ \A a \in archive : a.at \in 0 .. MaxTime
    BY KeysAssumption DEF FileTypes, Entries, Times
<1>1. S \in SUBSET (0 .. MaxTime)
    BY <1>0
<1>2. Stamp(k) = IF S = {} THEN replaced[k] ELSE Max(S)
    BY DEF Stamp
<1>3. ASSUME S # {}
      PROVE  Max(S) \in S /\ \A y \in S : Max(S) >= y
    <2> HIDE DEF S
    <2> QED
        BY <1>0, <1>1, <1>3, MaxIs
<1>4. (\E a \in archive : a.key = k) <=> S # {}
    OBVIOUS
<1>5. CASE S # {}
    <2>1. Stamp(k) = Max(S)
        BY <1>2, <1>5
    <2>2. \A a \in archive : a.key = k => a.at \in S
        OBVIOUS
    <2>3. \A y \in S : \E a \in archive : a.key = k /\ a.at = y
        OBVIOUS
    <2>4. \A a \in archive : a.key = k => a.at <= Stamp(k)
        <3>1. SUFFICES ASSUME NEW a \in archive, a.key = k PROVE a.at <= Stamp(k)
            OBVIOUS
        <3>2. Max(S) >= a.at /\ Max(S) \in 0 .. MaxTime
            BY <1>1, <1>3, <1>5, <2>2, <3>1
        <3> QED
            BY <1>0, <2>1, <3>2
    <2> QED
        BY <1>3, <1>4, <1>5, <2>1, <2>3, <2>4
<1>6. CASE S = {}
    BY <1>2, <1>4, <1>6
<1> QED
    BY <1>5, <1>6

\* What loadKeySetSnapshot reads.
LEMMA LoadIs ==
    ASSUME Files, file > 0
    PROVE  LoadKeySet \in KeySets /\ LoadKeySet.current = file /\ Loaded(LoadKeySet)
<1> DEFINE S(k) == {a.at : a \in {b \in archive : b.key = k /\ Matters(b)}}
           R == [k \in Key |-> IF S(k) = {} THEN Never ELSE Max(S(k))]
<1>0. /\ MaxTime \in Nat /\ MaxKeys \in Nat
      /\ \A a \in archive : a.at \in 0 .. MaxTime /\ a.key \in Key
    BY KeysAssumption DEF Files, FileTypes, Entries, Times
<1>1. \A k \in Key : S(k) \in SUBSET (0 .. MaxTime)
    BY <1>0
<1>2. ASSUME NEW k \in Key, S(k) # {}
      PROVE  Max(S(k)) \in S(k) /\ \A y \in S(k) : Max(S(k)) >= y
    <2>1. PICK X \in SUBSET (0 .. MaxTime) : X = S(k)
        BY <1>1
    <2> HIDE DEF S
    <2> QED
        BY <1>0, <1>2, <2>1, MaxIs
<1>3. LoadKeySet = [current |-> file, retired |-> R]
    BY DEF LoadKeySet, Latest
<1>4. \A k \in Key, a \in archive : a.key = k /\ Matters(a) => a.at \in S(k)
    OBVIOUS
<1>5. \A k \in Key : \A y \in S(k) : \E a \in archive : a.key = k /\ a.at = y
    OBVIOUS
<1>6. \A k \in Key : R[k] = IF S(k) = {} THEN Never ELSE Max(S(k))
    OBVIOUS
<1>7. DOMAIN R = Key /\ R = [k \in Key |-> R[k]]
    OBVIOUS
<1> HIDE DEF S, R
<1>8. \A k \in Key : R[k] \in Times \cup {Never}
    BY <1>1, <1>2, <1>6 DEF Times
<1>9. R \in [Key -> Times \cup {Never}]
    BY <1>7, <1>8
<1>10. file \in Key
    BY <1>0 DEF Files, FileTypes, Key
<1>11. LoadKeySet \in KeySets /\ LoadKeySet.current = file /\ LoadKeySet.retired = R
    BY <1>3, <1>9, <1>10 DEF KeySets
<1>12. \A k \in Key : R[k] # Never => \E a \in archive : a.key = k /\ a.at = R[k]
    BY <1>2, <1>5, <1>6
<1>13. ASSUME NEW a \in archive, Matters(a)
       PROVE  R[a.key] # Never /\ a.at <= R[a.key]
    <2>1. PICK k \in Key : k = a.key
        BY <1>0
    <2>2. a.at \in S(k)
        BY <1>4, <1>13, <2>1
    <2>3. R[k] = Max(S(k)) /\ Max(S(k)) >= a.at /\ Max(S(k)) \in 0 .. MaxTime
        BY <1>1, <1>2, <1>6, <2>2
    <2> QED
        BY <1>0, <2>1, <2>3 DEF Never
<1> QED
    BY <1>0, <1>10, <1>11, <1>12, <1>13 DEF Loaded, Files, FileTypes

-----------------------------------------------------------------------------
(* How the files change                                                    *)

\* What stays true of key sets and tokens while the files change and time passes.
Advance ==
    /\ now <= now' /\ file <= file'
    /\ archive \subseteq archive'
    /\ \A set \in KeySets : Loaded(set) => Loaded(set)'
    /\ \A k \in Key : k < file => replaced'[k] = replaced[k]
    /\ \A k \in Key : k = file /\ file < file' => replaced'[k] = now'
    /\ \A k \in Key : k <= file => born'[k] = born[k]
    /\ \A tok \in Tokens : tok.key <= file =>
          /\ Genuine(tok)' => Genuine(tok)
          /\ Late(tok)' => Late(tok) \/ (tok.key = file /\ file < file')

\* Constants and files in terms of numbers.
LEMMA Numbers ==
    ASSUME FileTypes
    PROVE  /\ Interval \in Nat /\ Interval > 0 /\ MaxStall \in Nat /\ MaxLifetime \in Nat
           /\ CacheValidity \in Nat /\ TokenTTL \in Nat /\ TokenTTL <= MaxLifetime
           /\ MaxTime \in Nat /\ MaxKeys \in Nat /\ Key = 1 .. MaxKeys /\ Times = 0 .. MaxTime
           /\ now \in Nat /\ now <= MaxTime /\ file \in Nat /\ file <= MaxKeys
           /\ \A k \in Key : /\ k \in Nat /\ k > 0
                             /\ replaced[k] \in Int /\ replaced[k] >= -1
                             /\ born[k] \in Int /\ born[k] >= -1
           /\ Never = -1
           /\ \A a \in archive : a.key \in Key /\ a.at \in Nat /\ a.at <= MaxTime
           /\ \A tok \in Tokens : tok.key \in Key /\ tok.iat \in Nat
<1>1. /\ Interval \in Nat /\ Interval > 0 /\ MaxStall \in Nat /\ MaxLifetime \in Nat
      /\ CacheValidity \in Nat /\ TokenTTL \in Nat /\ TokenTTL <= MaxLifetime
      /\ MaxTime \in Nat /\ MaxKeys \in Nat /\ Key = 1 .. MaxKeys /\ Times = 0 .. MaxTime
    BY KeysAssumption DEF Key, Times
<1>2. now \in Nat /\ now <= MaxTime /\ file \in Nat /\ file <= MaxKeys
    BY <1>1 DEF FileTypes
<1>3. \A k \in Key : /\ k \in Nat /\ k > 0
                     /\ replaced[k] \in Int /\ replaced[k] >= -1
                     /\ born[k] \in Int /\ born[k] >= -1
    BY <1>1 DEF FileTypes, Never
<1>4. \A a \in archive : a.key \in Key /\ a.at \in Nat /\ a.at <= MaxTime
    BY <1>1 DEF FileTypes, Entries
<1>5. \A tok \in Tokens : tok.key \in Key /\ tok.iat \in Nat
    BY <1>1 DEF Tokens
<1> QED
    BY <1>1, <1>2, <1>3, <1>4, <1>5 DEF Never

\* Whether a token is late, in terms of the archive.
LEMMA LateIs ==
    ASSUME Files, NEW tok \in Tokens, tok.key <= file
    PROVE  /\ Genuine(tok) <=> (tok.key = file \/
                 \E a \in archive : a.key = tok.key /\ tok.iat <= a.at)
           /\ Late(tok) <=> ~Genuine(tok)
<1>1. tok.key \in Key /\ tok.iat \in Nat /\ file \in Nat /\ tok.key \in Nat
    BY Numbers DEF Files
<1>2. tok.key < file <=> replaced[tok.key] # Never
    BY <1>1 DEF Files, FileInv
<1>3. PICK k \in Key : k = tok.key
    BY <1>1
<1>4. CASE k < file
    <2>1. \E a \in archive : a.key = k
        BY <1>4 DEF Files, FileInv
    <2>2. /\ \E a \in archive : a.key = k /\ a.at = Stamp(k)
          /\ \A a \in archive : a.key = k => a.at <= Stamp(k)
        BY <2>1, StampIs DEF Files
    <2>3. PICK b \in archive : b.key = k /\ b.at = Stamp(k)
        BY <2>2
    <2>4. Stamp(k) \in Nat /\ \A a \in archive : a.at \in Nat
        BY <2>3, Numbers DEF Files
    <2>5. tok.iat <= Stamp(k) <=> \E a \in archive : a.key = k /\ tok.iat <= a.at
        <3>1. ASSUME NEW a \in archive, a.key = k, tok.iat <= a.at
              PROVE  tok.iat <= Stamp(k)
            <4>1. a.at <= Stamp(k) /\ a.at \in Nat
                BY <2>2, <2>4, <3>1
            <4> QED
                BY <1>1, <2>4, <3>1, <4>1
        <3> QED
            BY <2>3, <3>1
    <2>6. tok.key # file
        BY <1>1, <1>3, <1>4
    <2> QED
        BY <1>1, <1>2, <1>3, <1>4, <2>4, <2>5, <2>6 DEF Genuine, Late
<1>5. CASE k = file
    <2>1. replaced[tok.key] = Never
        BY <1>1, <1>2, <1>3, <1>5
    <2> QED
        BY <1>3, <1>5, <2>1 DEF Genuine, Late
<1> QED
    BY <1>1, <1>3, <1>4, <1>5

\* The same, of every token at every time.
Judged == \A tok \in Tokens : tok.key <= file =>
    /\ Genuine(tok) <=> (tok.key = file \/ \E a \in archive : a.key = tok.key /\ tok.iat <= a.at)
    /\ Late(tok) <=> ~Genuine(tok)

\* Tokens are judged by the archive.
LEMMA FilesJudge == Files => Judged
    BY LateIs DEF Judged

\* What a change of the files may do: add archives of the current key, and then replace it.
Changed ==
    /\ \A a \in archive' : a \in archive \/ (a \in Entries /\ a.key = file)
    /\ archive \subseteq archive'
    /\ torn' \in SUBSET Entries /\ archive' \cap torn' = {}
    /\ \/ UNCHANGED <<file, lastKey, born, replaced>>
       \/ Publish /\ (file = 0 \/ \E a \in archive' : a.key = file)

\* Such a change keeps the files in order.
LEMMA ChangedFiles ==
    ASSUME Files, Changed, now' = now, UNCHANGED tokens
    PROVE  Files' /\ file <= file' /\ (file < file' => file' = file + 1 /\ Publish)
<1>0. FileTypes /\ FileInv
    BY DEF Files
<1>N. /\ MaxKeys \in Nat /\ Key = 1 .. MaxKeys /\ Times = 0 .. MaxTime /\ now \in Times
      /\ now \in Nat /\ file \in Nat /\ lastKey = file
      /\ \A k \in Key : k \in Nat /\ k > 0
      /\ born \in [Key -> Times \cup {Never}] /\ replaced \in [Key -> Times \cup {Never}]
      /\ \A a \in Entries : a.key \in Key
      /\ \A tok \in tokens : tok.key \in Key
    BY <1>0, Numbers DEF FileTypes, Entries, Tokens
<1>1. archive' \in SUBSET Entries /\ torn' \in SUBSET Entries /\ archive' \cap torn' = {}
    BY <1>0 DEF Changed, FileTypes
<1>2. CASE UNCHANGED <<file, lastKey, born, replaced>>
    <2>1. FileTypes'
        BY <1>0, <1>1, <1>2 DEF FileTypes
    <2>2. \A a \in archive' : a.key <= file'
        BY <1>0, <1>2, <1>N DEF FileInv, Changed
    <2>3. \A k \in Key : k < file' => \E a \in archive' : a.key = k
        BY <1>0, <1>2 DEF FileInv, Changed
    <2>4. FileInv'
        BY <1>0, <1>2, <2>2, <2>3 DEF FileInv
    <2> QED
        BY <1>2, <1>N, <2>1, <2>4 DEF Files
<1>3. CASE Publish /\ (file = 0 \/ \E a \in archive' : a.key = file)
    <2>1. /\ file' = file + 1 /\ lastKey' = file' /\ file < MaxKeys
          /\ born' = [born EXCEPT ![file + 1] = now]
          /\ replaced' = [k \in Key |-> IF k = file THEN now ELSE replaced[k]]
        BY <1>3, <1>N DEF Publish
    <2>2. file' \in 0 .. MaxKeys /\ file' \in Key
        BY <1>N, <2>1
    <2>3. born' \in [Key -> Times \cup {Never}] /\ replaced' \in [Key -> Times \cup {Never}]
        BY <1>N, <2>1
    <2>4. FileTypes'
        BY <1>0, <1>1, <2>1, <2>2, <2>3 DEF FileTypes
    <2>5. /\ born'[file + 1] = now
          /\ \A k \in Key : k <= file => born'[k] = born[k]
          /\ \A k \in Key : k = file => replaced'[k] = now
          /\ \A k \in Key : k # file => replaced'[k] = replaced[k]
        BY <1>N, <2>1, <2>2
    <2>6. now # Never
        BY <1>N DEF Never
    <2>7. \A k \in Key : k <= file' => born'[k] # Never /\ born'[k] <= now'
        <3>1. SUFFICES ASSUME NEW k \in Key, k <= file'
                       PROVE  born'[k] # Never /\ born'[k] <= now
            OBVIOUS
        <3>2. CASE k = file + 1
            BY <1>N, <2>5, <2>6, <3>2
        <3>3. CASE k <= file
            BY <1>0, <2>5, <3>3 DEF FileInv
        <3> QED
            BY <1>N, <2>1, <3>1, <3>2, <3>3
    <2>8. \A k \in Key : k < file' <=> replaced'[k] # Never
        <3>1. TAKE k \in Key
        <3>2. CASE k = file
            BY <1>N, <2>1, <2>5, <2>6, <3>2
        <3>3. CASE k # file
            <4>1. k < file <=> replaced[k] # Never
                BY <1>0 DEF FileInv
            <4> QED
                BY <1>N, <2>1, <2>5, <3>3, <4>1
        <3> QED
            BY <3>2, <3>3
    <2>9. \A k \in Key : replaced'[k] <= now'
        <3>1. \A k \in Key : replaced[k] <= now
            BY <1>0 DEF FileInv
        <3> QED
            BY <1>N, <2>5, <3>1
    <2>10. \A j, k \in Key : j < k /\ k <= file' => replaced'[j] <= born'[k]
        <3>1. SUFFICES ASSUME NEW j \in Key, NEW k \in Key, j < k, k <= file'
                       PROVE  replaced'[j] <= born'[k]
            OBVIOUS
        <3>2. CASE k = file + 1
            BY <2>5, <2>9, <3>2
        <3>3. CASE k <= file
            <4>1. replaced[j] <= born[k]
                BY <1>0, <3>1, <3>3 DEF FileInv
            <4> QED
                BY <1>N, <2>5, <3>1, <3>3, <4>1
        <3> QED
            BY <1>N, <2>1, <3>1, <3>2, <3>3
    <2>11. \A a \in archive' : a.key <= file'
        <3>1. TAKE a \in archive'
        <3>2. a.key \in Key /\ (a.key <= file \/ a.key = file)
            BY <1>0, <1>1, <1>N DEF FileInv, Changed
        <3> QED
            BY <1>N, <2>1, <3>2
    <2>12. \A k \in Key : k < file' => \E a \in archive' : a.key = k
        <3>1. SUFFICES ASSUME NEW k \in Key, k < file' PROVE \E a \in archive' : a.key = k
            OBVIOUS
        <3>2. CASE k = file
            BY <1>3, <1>N, <3>2
        <3>3. CASE k < file
            BY <1>0, <3>3 DEF FileInv, Changed
        <3> QED
            BY <1>N, <2>1, <3>1, <3>2, <3>3
    <2>13. \A tok \in tokens' : tok.key <= file'
        <3>1. TAKE tok \in tokens'
        <3>2. tok \in tokens /\ tok.key <= file /\ tok.key \in Nat
            BY <1>0, <1>N DEF FileInv
        <3> QED
            BY <1>N, <2>1, <3>2
    <2>14. FileInv'
        BY <2>7, <2>8, <2>9, <2>10, <2>11, <2>12, <2>13 DEF FileInv
    <2> QED
        BY <1>3, <1>N, <2>1, <2>4, <2>14 DEF Files
<1> QED
    BY <1>2, <1>3 DEF Changed

\* Such a change takes nothing back.
LEMMA ChangedAdvances ==
    ASSUME Files, Changed, now' = now, UNCHANGED tokens
    PROVE  Files' /\ Advance
<1>0. Files' /\ file <= file' /\ (file < file' => file' = file + 1 /\ Publish)
    BY ChangedFiles
<1>N. /\ now \in Nat /\ file \in Nat /\ file' \in Nat
      /\ \A k \in Key : k \in Nat /\ k > 0
      /\ \A a \in archive : a.key \in Key
      /\ \A tok \in Tokens : tok.key \in Key /\ tok.iat \in Nat
    BY <1>0, Numbers DEF Files, FileTypes
<1>1. archive \subseteq archive' /\ \A a \in archive' : a \in archive \/ a.key = file
    BY DEF Changed
<1>2. ASSUME NEW set \in KeySets, Loaded(set)
      PROVE  Loaded(set)'
    <2>1. set.current \in Key /\ set.current <= file' /\ set.current <= file
        BY <1>0, <1>2, <1>N DEF Loaded
    <2>2. \A k \in Key : set.retired[k] # Never =>
              \E a \in archive' : a.key = k /\ a.at = set.retired[k]
        BY <1>1, <1>2 DEF Loaded
    <2>3. \A a \in archive' : a.key < set.current /\ Matters(a)' =>
              set.retired[a.key] # Never /\ a.at <= set.retired[a.key]
        <3>1. SUFFICES ASSUME NEW a \in archive', a.key < set.current, Matters(a)'
                       PROVE  set.retired[a.key] # Never /\ a.at <= set.retired[a.key]
            OBVIOUS
        <3>2. Matters(a)
            BY <3>1 DEF Matters
        <3>3. a \in archive
            BY <1>1, <1>N, <2>1, <3>1
        <3> QED
            BY <1>2, <3>1, <3>2, <3>3 DEF Loaded
    <2> QED
        BY <2>1, <2>2, <2>3 DEF Loaded
<1>3. /\ \A k \in Key : k < file => replaced'[k] = replaced[k]
      /\ \A k \in Key : k = file /\ file < file' => replaced'[k] = now'
      /\ \A k \in Key : k <= file => born'[k] = born[k]
    <2>1. CASE UNCHANGED <<file, lastKey, born, replaced>>
        BY <1>N, <2>1
    <2>2. CASE Publish
        <3>1. lastKey = file /\ born \in [Key -> Times \cup {Never}]
            BY DEF Files, FileTypes
        <3> QED
            BY <1>N, <2>2, <3>1 DEF Publish
    <2> QED
        BY <2>1, <2>2 DEF Changed
<1>4. ASSUME NEW tok \in Tokens, tok.key <= file
      PROVE  /\ Genuine(tok)' => Genuine(tok)
             /\ Late(tok)' => Late(tok) \/ (tok.key = file /\ file < file')
    <2>1. tok.key <= file'
        BY <1>0, <1>4, <1>N
    <2>2. /\ Genuine(tok)' <=> (tok.key = file' \/
                 \E a \in archive' : a.key = tok.key /\ tok.iat <= a.at)
          /\ Late(tok)' <=> ~Genuine(tok)'
        <3>1. Judged'
            BY <1>0, FilesJudge, PTL
        <3> QED
            BY <2>1, <3>1 DEF Judged
    <2>3. /\ Genuine(tok) <=> (tok.key = file \/
                 \E a \in archive : a.key = tok.key /\ tok.iat <= a.at)
          /\ Late(tok) <=> ~Genuine(tok)
        BY <1>4, LateIs
    <2>4. tok.key \in Nat /\ file' \in Nat /\ file \in Nat
        BY <1>N
    <2>5. tok.key < file => (Genuine(tok) <=> Genuine(tok)')
        BY <1>0, <1>1, <2>2, <2>3, <2>4
    <2> QED
        BY <1>0, <1>4, <2>2, <2>3, <2>4, <2>5
<1> QED
    BY <1>0, <1>1, <1>2, <1>3, <1>4, <1>N DEF Advance

\* As long as nobody touches the files they stay in order, and a signature names their keys.
LEMMA FilesStay ==
    ASSUME Files, UNCHANGED <<fileVars, now>>,
           tokens' \in SUBSET Tokens, \A tok \in tokens' : tok \in tokens \/ tok.key <= file
    PROVE  Files' /\ Advance
<1>0. FileTypes /\ FileInv
    BY DEF Files
<1>1. /\ file' = file /\ archive' = archive /\ torn' = torn /\ lastKey' = lastKey
      /\ born' = born /\ replaced' = replaced /\ now' = now
    BY DEF fileVars
<1>2. FileTypes'
    BY <1>0, <1>1 DEF FileTypes
<1>3. FileInv'
    BY <1>0, <1>1 DEF FileInv
<1>4. now \in Nat /\ file \in Nat
    BY <1>0, Numbers
<1>5. \A set \in KeySets : Loaded(set) => Loaded(set)'
    BY <1>1 DEF Loaded, Matters
<1>6. \A tok \in Tokens : (Genuine(tok)' <=> Genuine(tok)) /\ (Late(tok)' <=> Late(tok))
    BY <1>1 DEF Genuine, Late, Stamp
<1> QED
    BY <1>1, <1>2, <1>3, <1>4, <1>5, <1>6 DEF Files, Advance

-----------------------------------------------------------------------------
(* What a step leaves alone                                                *)

\* The call s is where it was.
Keeps(s) ==
    /\ pc'[s] = pc[s] /\ job'[s] = job[s]
    /\ reloadMu' = s <=> reloadMu = s
    /\ round' = s => round = s

\* A job's fields.
LEMMA JobFields ==
    ASSUME CallTypes, NEW s \in Threads
    PROVE  /\ pc[s] \in Places /\ job[s] \in Jobs
           /\ job[s].op \in Ops /\ job[s].peer \in BOOLEAN /\ job[s].stale \in BOOLEAN
           /\ job[s].start \in Nat /\ job[s].at \in Nat /\ job[s].start \in Times
           /\ job[s].at \in Times
           /\ job[s].tok \in Tokens \cup {None} /\ job[s].snap \in KeySets \cup {None}
<1>1. MaxTime \in Nat
    BY KeysAssumption
<1>2. job[s] \in Jobs /\ pc[s] \in Places
    BY DEF CallTypes
<1> QED
    BY <1>1, <1>2 DEF Jobs, Times

\* Another call's steps do not disturb a call while the key set stays.
LEMMA ThreadFrame ==
    ASSUME Files, Files', Advance, CallTypes, MemTypes, MemOK, NEW s \in Threads, ThreadOK(s),
           Keeps(s), up' = up, mem' = mem,
           pc[s] # "idle" => now' <= job[s].start + MaxStall
    PROVE  ThreadOK(s)'
<1>N. /\ now \in Nat /\ now' \in Nat /\ file \in Nat /\ file' \in Nat
      /\ Interval \in Nat /\ Interval > 0 /\ MaxStall \in Nat
      /\ \A k \in Key : k \in Nat /\ replaced[k] \in Int /\ replaced'[k] \in Int
      /\ \A tok \in Tokens : tok.key \in Key /\ tok.iat \in Nat
      /\ TokenTTL \in Nat
      /\ job[s].start \in Nat /\ job[s].at \in Nat
    <2>1. FileTypes /\ FileTypes'
        BY DEF Files
    <2>2. \A k \in Key : replaced'[k] \in Int
        BY <2>1, KeysAssumption DEF FileTypes, Times, Never
    <2>3. now' \in Nat /\ file' \in Nat
        BY <2>1, KeysAssumption DEF FileTypes, Times
    <2> QED
        BY <2>1, <2>2, <2>3, Numbers, JobFields
<1>A. now <= now' /\ file <= file'
    BY DEF Advance
<1>K. pc'[s] = pc[s] /\ job'[s] = job[s]
    BY DEF Keeps
<1>0. OpOK(s) /\ CallOK(s) /\ SnapOK(s) /\ AgeOK(s) /\ PutOK(s) /\ MissOK(s)
    BY DEF ThreadOK
<1>1. OpOK(s)'
    <2>1. job[s].op = "verify" => job[s].tok \in Tokens /\ job[s].tok.key <= file'
        BY <1>0, <1>A, <1>N DEF OpOK
    <2> QED
        BY <1>0, <1>K, <2>1 DEF OpOK
<1>2. CallOK(s)'
    <2>1. pc[s] # "idle" => job[s].start <= now' /\ job[s].at <= now'
        BY <1>0, <1>A, <1>N DEF CallOK
    <2>2. file > 0 => file' > 0
        BY <1>A, <1>N
    <2> QED
        BY <1>0, <1>K, <2>1, <2>2 DEF CallOK, Keeps
<1>3. SnapOK(s)'
    <2>1. SUFFICES ASSUME pc[s] \in {"same", "install", "installed"}
                   PROVE  /\ job[s].snap \in KeySets /\ Loaded(job[s].snap)'
                          /\ job[s].snap.current < file' =>
                                job[s].start <= replaced'[job[s].snap.current]
                          /\ pc[s] # "install" => mem = job[s].snap
        BY <1>K DEF SnapOK
    <2>2. /\ job[s].snap \in KeySets /\ Loaded(job[s].snap)
          /\ job[s].snap.current < file => job[s].start <= replaced[job[s].snap.current]
          /\ pc[s] # "install" => mem = job[s].snap
        BY <1>0, <2>1 DEF SnapOK
    <2>3. PICK set \in KeySets : set = job[s].snap
        BY <2>2
    <2>4. Loaded(set)'
        BY <2>2, <2>3 DEF Advance
    <2>5. set.current \in Key /\ set.current <= file
        BY <2>2, <2>3 DEF Loaded
    <2>6. job[s].start <= now'
        BY <1>0, <1>A, <1>N, <2>1 DEF CallOK
    <2>7. set.current < file => replaced'[set.current] = replaced[set.current]
        BY <2>5 DEF Advance
    <2>8. set.current = file /\ file < file' => replaced'[set.current] = now'
        BY <2>5 DEF Advance
    <2>9. set.current < file' => job[s].start <= replaced'[set.current]
        BY <1>A, <1>N, <2>2, <2>3, <2>5, <2>6, <2>7, <2>8
    <2> QED
        BY <1>K, <2>2, <2>3, <2>4, <2>9
<1>4. AgeOK(s)'
    <2>1. SUFFICES ASSUME pc[s] \in {"cached", "again"}, mem.current < file'
                   PROVE  job[s].start < replaced'[mem.current] + 2 * Interval + MaxStall
        BY <1>K DEF AgeOK
    <2>2. up
        BY <1>0, <2>1 DEF CallOK
    <2>3. mem.current \in Key /\ mem.current <= file
        BY <2>2 DEF MemOK, Loaded
    <2>4. CASE mem.current < file
        <3>1. replaced'[mem.current] = replaced[mem.current]
            BY <2>3, <2>4 DEF Advance
        <3> QED
            BY <1>0, <2>1, <2>4, <3>1 DEF AgeOK
    <2>5. CASE mem.current = file
        <3>1. replaced'[mem.current] = now'
            BY <1>N, <2>1, <2>3, <2>5 DEF Advance
        <3>2. job[s].start <= now'
            BY <1>0, <1>A, <1>N, <2>1 DEF CallOK
        <3> QED
            BY <1>N, <3>1, <3>2
    <2> QED
        BY <1>N, <2>3, <2>4, <2>5
<1>5. PutOK(s)'
    <2>1. SUFFICES ASSUME pc[s] = "put"
                   PROVE  /\ ~job[s].stale => Backed(job[s].tok)'
                          /\ Late(job[s].tok)' => job[s].at
                                < replaced'[job[s].tok.key] + 2 * Interval + 2 * MaxStall
        BY <1>K DEF PutOK, Backed, Late, Stamp
    <2>2. job[s].tok \in Tokens /\ job[s].tok.key <= file
        BY <1>0, <2>1 DEF OpOK
    <2>3. PICK tok \in Tokens : tok = job[s].tok
        BY <2>2
    <2>4. /\ ~job[s].stale => Backed(tok)
          /\ Late(tok) => job[s].at < replaced[tok.key] + 2 * Interval + 2 * MaxStall
        BY <1>0, <2>1, <2>3 DEF PutOK
    <2>5. Backed(tok) => Backed(tok)'
        BY DEF Backed, Advance
    <2>6. tok.key \in Key /\ tok.key <= file
        BY <1>N, <2>2, <2>3
    <2>7. Late(tok)' => Late(tok) \/ (tok.key = file /\ file < file')
        BY <2>6 DEF Advance
    <2>8. ASSUME Late(tok)'
          PROVE  job[s].at < replaced'[tok.key] + 2 * Interval + 2 * MaxStall
        <3>1. CASE tok.key = file /\ file < file'
            <4>1. replaced'[tok.key] = now'
                BY <2>6, <3>1 DEF Advance
            <4>2. job[s].at <= now'
                BY <1>0, <1>A, <1>N, <2>1 DEF CallOK
            <4> QED
                BY <1>N, <4>1, <4>2
        <3>2. CASE Late(tok)
            <4>1. tok.key < file
                <5>1. replaced[tok.key] # Never
                    BY <3>2 DEF Late
                <5> QED
                    BY <2>6, <5>1 DEF Files, FileInv
            <4>2. replaced'[tok.key] = replaced[tok.key]
                BY <2>6, <4>1 DEF Advance
            <4> QED
                BY <2>4, <3>2, <4>2
        <3> QED
            BY <2>7, <2>8, <3>1, <3>2
    <2>9. /\ Backed(tok)' => Backed(job[s].tok)'
          /\ Late(job[s].tok)' => Late(tok)'
        BY <1>K, <2>3 DEF Backed, Late, Stamp
    <2> QED
        BY <2>3, <2>4, <2>5, <2>8, <2>9
<1>6. MissOK(s)'
    <2>1. SUFFICES ASSUME pc[s] = "miss", job[s].op = "verify", Genuine(job[s].tok)',
                          Settled(job[s].tok, job[s].start)', now' < job[s].tok.iat + TokenTTL
                   PROVE  FALSE
        BY <1>K DEF MissOK, Genuine, Settled, Stamp
    <2>2. job[s].tok \in Tokens /\ job[s].tok.key <= file
        BY <1>0, <2>1 DEF OpOK
    <2>3. PICK tok \in Tokens : tok = job[s].tok
        BY <2>2
    <2>4. Genuine(tok)' /\ tok.key \in Key /\ tok.key <= file
        BY <1>K, <1>N, <2>1, <2>2, <2>3 DEF Genuine, Stamp
    <2>5. Genuine(tok) /\ born'[tok.key] = born[tok.key]
        BY <2>4 DEF Advance
    <2>6. Settled(tok, job[s].start)
        BY <1>K, <2>1, <2>3, <2>5 DEF Settled
    <2>7. now < tok.iat + TokenTTL
        BY <1>A, <1>N, <2>1, <2>3
    <2> QED
        BY <1>0, <2>1, <2>3, <2>5, <2>6, <2>7 DEF MissOK
<1> QED
    BY <1>1, <1>2, <1>3, <1>4, <1>5, <1>6 DEF ThreadOK

\* No call leaves these places.
Stays(places) == \A s \in Threads : pc[s] \in places => pc'[s] \in places

\* The throttle on reloads stays a bound on the age of the key set.
LEMMA ThrottleFrame ==
    ASSUME Files, Files', Advance, MemTypes, MemOK, ThrottleOK, now' = now, up' = up, mem' = mem,
           lastRefresh' = lastRefresh, lastRefreshErr' = lastRefreshErr,
           Stays({"snap-routine", "install"})
    PROVE  ThrottleOK'
<1>1. SUFFICES ASSUME up, lastRefresh > 0, ~lastRefreshErr, mem.current < file',
                      \A t \in Threads : pc'[t] \notin {"snap-routine", "install"}
               PROVE  now + lastRefresh <= replaced'[mem.current] + Interval + MaxStall
    BY DEF ThrottleOK
<1>N. /\ now \in Nat /\ file \in Nat /\ file' \in Nat /\ Interval \in Nat /\ MaxStall \in Nat
      /\ \A k \in Key : k \in Nat
      /\ lastRefresh \in Nat /\ lastRefresh <= Interval
    BY Numbers, KeysAssumption DEF Files, FileTypes, MemTypes
<1>2. \A t \in Threads : pc[t] \notin {"snap-routine", "install"}
    BY <1>1 DEF Stays
<1>3. mem.current \in Key /\ mem.current <= file
    BY <1>1 DEF MemOK, Loaded
<1>4. CASE mem.current < file
    <2>1. replaced'[mem.current] = replaced[mem.current]
        BY <1>3, <1>4 DEF Advance
    <2> QED
        BY <1>1, <1>2, <1>4, <2>1 DEF ThrottleOK
<1>5. CASE mem.current = file
    <2>1. replaced'[mem.current] = now
        BY <1>1, <1>3, <1>5 DEF Advance
    <2> QED
        BY <1>N, <2>1
<1> QED
    BY <1>3, <1>4, <1>5, <1>N

\* And so does the one on verifications.
LEMMA UntilFrame ==
    ASSUME Files, Files', Advance, MemTypes, MemOK, UntilOK, now' = now, up' = up, mem' = mem,
           until' = until, failed' = failed
    PROVE  UntilOK'
<1>1. SUFFICES ASSUME up, until > 0, ~failed, mem.current < file'
               PROVE  now + until <= replaced'[mem.current] + 2 * Interval + MaxStall
    BY DEF UntilOK
<1>N. /\ now \in Nat /\ file \in Nat /\ file' \in Nat /\ Interval \in Nat /\ MaxStall \in Nat
      /\ \A k \in Key : k \in Nat
      /\ until \in Nat /\ until <= Interval
    BY Numbers, KeysAssumption DEF Files, FileTypes, MemTypes
<1>3. mem.current \in Key /\ mem.current <= file
    BY <1>1 DEF MemOK, Loaded
<1>4. CASE mem.current < file
    <2>1. replaced'[mem.current] = replaced[mem.current]
        BY <1>3, <1>4 DEF Advance
    <2> QED
        BY <1>1, <1>4, <2>1 DEF UntilOK
<1>5. CASE mem.current = file
    <2>1. replaced'[mem.current] = now
        BY <1>1, <1>3, <1>5 DEF Advance
    <2> QED
        BY <1>N, <2>1
<1> QED
    BY <1>3, <1>4, <1>5, <1>N

\* A key set that was loaded stays one.
LEMMA LoadedFrame ==
    ASSUME Advance, MemTypes, MemOK, up' = up, mem' = mem
    PROVE  MemOK'
<1>1. SUFFICES ASSUME up PROVE Loaded(mem)'
    BY DEF MemOK
<1>2. PICK set \in KeySets : set = mem
    BY DEF MemTypes
<1>3. Loaded(set)'
    BY <1>1, <1>2 DEF MemOK, Advance
<1> QED
    BY <1>2, <1>3 DEF Loaded

\* Verdicts that stay in the cache stay good.
LEMMA CacheFrame ==
    ASSUME Files, Files', Advance, MemTypes, CacheInv, CallTypes, up' = up, mem' = mem,
           cache' = cache, recached \subseteq recached', Stays({"installed", "sign"})
    PROVE  CacheInv'
<1>N. /\ now \in Nat /\ file \in Nat /\ file' \in Nat /\ now' \in Nat
      /\ Interval \in Nat /\ Interval > 0 /\ MaxStall \in Nat /\ CacheValidity \in Nat
      /\ \A tok \in Tokens : tok.key \in Key /\ tok.key \in Nat
      /\ \A c \in cache : c.tok \in Tokens /\ c.exp \in Nat
    BY Numbers, KeysAssumption DEF Files, FileTypes, MemTypes, Times
<1>A. now <= now' /\ file <= file' /\ archive \subseteq archive'
    BY DEF Advance
<1>1. \A c \in cache : c.tok.key <= file' /\ c.exp <= now' + CacheValidity
    <2>1. TAKE c \in cache
    <2>2. c.tok.key <= file /\ c.exp <= now + CacheValidity /\ c.tok.key \in Nat /\ c.exp \in Nat
        BY <1>N DEF CacheInv
    <2> QED
        BY <1>A, <1>N, <2>2
<1>2. ASSUME NEW c \in cache, Late(c.tok)'
      PROVE  c.exp < replaced'[c.tok.key] + 2 * Interval + 2 * MaxStall + CacheValidity
    <2>1. PICK tok \in Tokens : tok = c.tok
        BY <1>N
    <2>2. tok.key \in Key /\ tok.key <= file /\ c.exp <= now + CacheValidity /\ c.exp \in Nat
        BY <1>N, <2>1 DEF CacheInv
    <2>3. Late(tok)'
        BY <1>2, <2>1
    <2>4. Late(tok) \/ (tok.key = file /\ file < file')
        BY <2>2, <2>3 DEF Advance
    <2>5. CASE tok.key = file /\ file < file'
        <3>1. replaced'[tok.key] = now'
            BY <2>2, <2>5 DEF Advance
        <3> QED
            BY <1>A, <1>N, <2>1, <2>2, <3>1
    <2>6. CASE Late(tok)
        <3>1. tok.key < file
            <4>1. replaced[tok.key] # Never
                BY <2>6 DEF Late
            <4> QED
                BY <2>2, <4>1 DEF Files, FileInv
        <3>2. replaced'[tok.key] = replaced[tok.key]
            BY <2>2, <3>1 DEF Advance
        <3>3. c.exp < replaced[c.tok.key] + 2 * Interval + 2 * MaxStall + CacheValidity
            BY <2>1, <2>6 DEF CacheInv
        <3> QED
            BY <2>1, <3>2, <3>3
    <2> QED
        BY <2>4, <2>5, <2>6
<1>3. ASSUME \A t \in Threads : pc'[t] \notin {"installed", "sign"}, NEW c \in cache
      PROVE  Backed(c.tok)' \/ c.tok \in recached'
    <2>1. \A t \in Threads : pc[t] \notin {"installed", "sign"}
        BY <1>3 DEF Stays
    <2>2. Backed(c.tok) \/ c.tok \in recached
        BY <2>1 DEF CacheInv
    <2>3. Backed(c.tok) => Backed(c.tok)'
        BY <1>A DEF Backed
    <2> QED
        BY <2>2, <2>3
<1>4. ~up' => cache' = {}
    BY DEF CacheInv
<1> QED
    BY <1>1, <1>2, <1>3, <1>4 DEF CacheInv

\* Every call but t's is where it was.
Alone(t) == \A s \in Threads : s # t => Keeps(s)

\* A call that is not under way starts only in a process that serves, or as the one that boots it.
Admits(t) ==
    \/ up
    \/ Own = {}
    \/ ~(pc'[t] # "idle" /\ ~job'[t].peer)
    \/ pc[t] # "idle" /\ ~job[t].peer

\* The process still starts in one call.
LEMMA BootingFrame ==
    ASSUME Booting, up' = up, NEW t \in Threads, Alone(t), Admits(t)
    PROVE  Booting'
<1>1. SUFFICES ASSUME ~up, NEW r \in Own', NEW s \in Own' PROVE r = s
    BY DEF Booting
<1>2. /\ r \in Threads /\ pc'[r] # "idle" /\ ~job'[r].peer
      /\ s \in Threads /\ pc'[s] # "idle" /\ ~job'[s].peer
    BY DEF Own
<1>3. (r # t => r \in Own) /\ (s # t => s \in Own)
    BY <1>2 DEF Alone, Keeps, Own
<1>4. r # t /\ s # t => r = s
    BY <1>1, <1>3 DEF Booting
<1>5. CASE r = t \/ s = t
    <2>1. Own = {} \/ t \in Own
        BY <1>1, <1>2, <1>5 DEF Admits, Own
    <2> QED
        BY <1>1, <1>3, <1>5, <2>1 DEF Booting
<1> QED
    BY <1>4, <1>5

\* A step of one call that leaves the key set and its throttles alone.
LEMMA OneMoves ==
    ASSUME Inv, Files', Advance, now' = now, NEW t \in Threads,
           CallTypes', MemTypes', Alone(t), Admits(t), ThreadOK(t)',
           up' = up, mem' = mem, lastRefresh' = lastRefresh, lastRefreshErr' = lastRefreshErr,
           until' = until, failed' = failed,
           pc[t] \notin {"snap-routine", "install"}
    PROVE  Memory' /\ Calls'
<1>0. /\ Files /\ MemTypes /\ MemOK /\ ThrottleOK /\ UntilOK
      /\ CallTypes /\ Threaded /\ Booting
    BY DEF Inv, Memory, Calls
<1>1. ASSUME NEW s \in Threads PROVE ThreadOK(s)'
    <2>1. CASE s # t
        <3>1. Keeps(s) /\ ThreadOK(s)
            BY <1>0, <2>1 DEF Alone, Threaded
        <3>2. pc[s] # "idle" => now' <= job[s].start + MaxStall
            BY <3>1 DEF ThreadOK, CallOK
        <3> QED
            BY <1>0, <3>1, <3>2, ThreadFrame
    <2> QED
        BY <2>1
<1>2. Stays({"snap-routine", "install"})
    BY DEF Stays, Alone, Keeps
<1>3. MemOK'
    BY <1>0, LoadedFrame
<1>4. ThrottleOK'
    BY <1>0, <1>2, ThrottleFrame
<1>5. UntilOK'
    BY <1>0, UntilFrame
<1>7. Booting'
    BY <1>0, BootingFrame
<1> QED
    BY <1>1, <1>3, <1>4, <1>5, <1>7 DEF Memory, Calls, Threaded

\* What most steps leave alone.
Rest == UNCHANGED <<now, up, mem, lastRefresh, lastRefreshErr, until, failed, cacheVars, verdicts>>

\* A step of one call that leaves the cache alone as well.
LEMMA OneMovesQuietly ==
    ASSUME Inv, Files', Advance, NEW t \in Threads, Rest,
           CallTypes', MemTypes', Alone(t), Admits(t), ThreadOK(t)',
           pc[t] \notin {"snap-routine", "install", "installed", "sign"}
    PROVE  Inv'
<1>0. Files /\ MemTypes /\ CallTypes /\ Verdicts /\ CacheInv
    BY DEF Inv, Memory, Calls
<1>1. /\ now' = now /\ up' = up /\ mem' = mem
      /\ lastRefresh' = lastRefresh /\ lastRefreshErr' = lastRefreshErr /\ until' = until
      /\ failed' = failed /\ cache' = cache /\ recached' = recached
      /\ wronged' = wronged /\ overdue' = overdue
    BY DEF Rest, cacheVars, verdicts
<1>2. Stays({"installed", "sign"})
    BY DEF Stays, Alone, Keeps
<1>3. CacheInv'
    BY <1>0, <1>1, <1>2, CacheFrame
<1>4. Memory' /\ Calls'
    BY <1>1, OneMoves
<1>5. Verdicts'
    BY <1>0, <1>1 DEF Verdicts
<1> QED
    BY <1>3, <1>4, <1>5 DEF Inv

-----------------------------------------------------------------------------
(* Calls come and go                                                       *)

\* The calls in progress are typed if the one that moved is.
LEMMA MovedTypes ==
    ASSUME CallTypes, NEW t \in Threads, NEW place \in Places, NEW j \in Jobs,
           pc' = [pc EXCEPT ![t] = place], job' = [job EXCEPT ![t] = j]
    PROVE  /\ pc' \in [Threads -> Places] /\ job' \in [Threads -> Jobs]
           /\ pc'[t] = place /\ job'[t] = j
           /\ \A s \in Threads : s # t => pc'[s] = pc[s] /\ job'[s] = job[s]
    BY DEF CallTypes

\* Nothing is asked of a thread without a call.
LEMMA IdleIsOK ==
    ASSUME NEW t \in Threads, pc'[t] = "idle", job'[t] = NoJob, reloadMu' # t, round' # t
    PROVE  ThreadOK(t)'
<1>1. NoJob.op = "none" /\ NoJob.peer = FALSE
    BY DEF NoJob
<1>2. OpOK(t)'
    BY <1>1 DEF OpOK
<1>3. CallOK(t)'
    BY <1>1 DEF CallOK, Refreshing
<1> QED
    BY <1>2, <1>3 DEF ThreadOK, SnapOK, AgeOK, PutOK, MissOK

\* No job is a job.
LEMMA NoJobTypes == NoJob \in Jobs
<1>1. 0 \in Times
    BY KeysAssumption DEF Times
<1> QED
    BY <1>1 DEF NoJob, Jobs, Ops

\* A call returns.
LEMMA ReturnIs ==
    ASSUME CallTypes, NEW t \in Threads, Return(t)
    PROVE  /\ pc' \in [Threads -> Places] /\ job' \in [Threads -> Jobs]
           /\ pc'[t] = "idle" /\ job'[t] = NoJob
           /\ \A s \in Threads : s # t => pc'[s] = pc[s] /\ job'[s] = job[s]
    BY NoJobTypes DEF CallTypes, Return, Places

\* A call goes on.
LEMMA GoIs ==
    ASSUME CallTypes, NEW t \in Threads, NEW place \in Places, Go(t, place), UNCHANGED job
    PROVE  /\ pc' \in [Threads -> Places] /\ job' \in [Threads -> Jobs]
           /\ pc'[t] = place /\ job'[t] = job[t]
           /\ \A s \in Threads : s # t => pc'[s] = pc[s] /\ job'[s] = job[s]
    BY DEF CallTypes, Go

\* A call begins.
LEMMA BeginIs ==
    ASSUME CallTypes, now \in Times, NEW t \in Threads, NEW peer \in BOOLEAN, NEW op \in Ops,
           NEW place \in Places, NEW tok \in Tokens \cup {None}, Begin(t, peer, op, place, tok)
    PROVE  /\ pc' \in [Threads -> Places] /\ job' \in [Threads -> Jobs]
           /\ pc[t] = "idle" /\ pc'[t] = place
           /\ job'[t].op = op /\ job'[t].peer = peer /\ job'[t].tok = tok
           /\ job'[t].start = now /\ job'[t].at = now
           /\ \A s \in Threads : s # t => pc'[s] = pc[s] /\ job'[s] = job[s]
<1> DEFINE j == [NoJob EXCEPT !.op = op, !.peer = peer, !.tok = tok, !.start = now, !.at = now]
<1>2. j \in Jobs
    BY NoJobTypes DEF Jobs
<1>3. pc' = [pc EXCEPT ![t] = place] /\ job' = [job EXCEPT ![t] = j] /\ pc[t] = "idle"
    BY DEF Begin
<1>4. /\ j.op = op /\ j.peer = peer /\ j.tok = tok /\ j.start = now /\ j.at = now
    BY NoJobTypes DEF Jobs
<1> HIDE DEF j
<1> QED
    BY <1>2, <1>3, <1>4, MovedTypes

\* What calls begin with.
Begins(t, peer, op, place, tok) ==
    /\ peer \in BOOLEAN /\ op \in Ops /\ tok \in Tokens \cup {None}
    /\ Begin(t, peer, op, place, tok)
    /\ \/ place \in {"create", "load"} /\ op = "boot" /\ (~peer => ~up /\ Own = {})
       \/ place = "routine" /\ op \in {"verify", "touch"}
       \/ place = "await" /\ op = "verify"
       \/ place = "cached" /\ op = "verify" /\ until > 0 /\ ~failed
       \/ place = "locks" /\ op = "mint"
       \/ place = "rotate" /\ op = "rotate"
    /\ op = "verify" => tok \in tokens
    /\ peer => place \in {"create", "locks", "rotate"}
    /\ place # "create" => file > 0
    /\ place \notin {"create", "load"} /\ ~peer => up

\* A call that begins leaves all else alone.
LEMMA CallBegins ==
    ASSUME Inv, NEW t \in Threads, NEW peer, NEW op, NEW place, NEW tok,
           Begins(t, peer, op, place, tok),
           UNCHANGED <<now, fileVars, lock, up, mem, refreshVars, reloadMu, cacheVars, tokens,
                       verdicts>>,
           round' = round \/ (round' = t /\ op = "verify" /\ place = "routine")
    PROVE  Inv'
<1>0. /\ Files /\ MemTypes /\ MemOK /\ ThrottleOK /\ UntilOK
      /\ CallTypes /\ Threaded /\ Booting /\ Verdicts /\ CacheInv
    BY DEF Inv, Memory, Calls
<1>U. /\ now' = now /\ lock' = lock /\ up' = up /\ mem' = mem /\ reloadMu' = reloadMu
      /\ tokens' = tokens /\ file' = file
      /\ lastRefresh' = lastRefresh /\ lastRefreshErr' = lastRefreshErr /\ until' = until
      /\ failed' = failed /\ lastFailureRefresh' = lastFailureRefresh
      /\ lastFailureErr' = lastFailureErr /\ cache' = cache /\ recached' = recached
      /\ wronged' = wronged /\ overdue' = overdue /\ replaced' = replaced
    BY DEF refreshVars, cacheVars, verdicts, fileVars
<1>1. tokens' \in SUBSET Tokens /\ (\A k \in tokens : k.key <= file) /\ now \in Times
    BY <1>0, <1>U DEF Files, FileTypes, FileInv
<1>2. Files' /\ Advance
    BY <1>0, <1>1, <1>U, FilesStay
<1>3. place \in Places
    BY DEF Begins, Places
<1>4. /\ pc' \in [Threads -> Places] /\ job' \in [Threads -> Jobs]
      /\ pc[t] = "idle" /\ pc'[t] = place
      /\ job'[t].op = op /\ job'[t].peer = peer /\ job'[t].tok = tok
      /\ job'[t].start = now /\ job'[t].at = now
      /\ \A s \in Threads : s # t => pc'[s] = pc[s] /\ job'[s] = job[s]
    BY <1>0, <1>1, <1>3, BeginIs DEF Begins
<1>5. job[t].op = "none" /\ reloadMu # t /\ round # t
    BY <1>0, <1>4 DEF Threaded, ThreadOK, OpOK, CallOK, Refreshing
<1>6. CallTypes'
    BY <1>0, <1>4, <1>U DEF CallTypes
<1>7. MemTypes'
    BY <1>0, <1>U DEF MemTypes
<1>8. Alone(t)
    BY <1>4, <1>U DEF Alone, Keeps
<1>9. Admits(t)
    BY <1>4 DEF Admits, Begins
<1>N. now \in Nat /\ Interval \in Nat /\ MaxStall \in Nat /\ until \in Nat
    BY <1>0, Numbers DEF Files, MemTypes
<1>10. OpOK(t)'
    BY <1>1, <1>4, <1>U DEF OpOK, Begins
<1>11. CallOK(t)'
    <2>1. now <= now /\ now <= now + MaxStall
        BY <1>N
    <2>2. place \notin Refreshing /\ place # "idle"
        BY DEF Begins, Refreshing
    <2>3. round' = t => op = "verify" /\ place = "routine"
        BY <1>5
    <2>4. /\ place # "create" => file > 0
          /\ peer => place \in {"create", "locks", "rotate"}
          /\ place \notin {"create", "load"} /\ ~peer => up
          /\ place \in {"create", "load"} /\ ~peer => ~up
        BY DEF Begins
    <2> QED
        BY <1>4, <1>5, <1>U, <2>1, <2>2, <2>3, <2>4 DEF CallOK
<1>12. AgeOK(t)'
    <2>1. SUFFICES ASSUME place \in {"cached", "again"}, mem.current < file
                   PROVE  now < replaced[mem.current] + 2 * Interval + MaxStall
        BY <1>4, <1>U DEF AgeOK
    <2>2. up /\ until > 0 /\ ~failed
        BY <2>1 DEF Begins
    <2>3. mem.current \in Key
        BY <1>0, <2>2 DEF MemOK, Loaded
    <2>4. replaced[mem.current] \in Int
        BY <1>0, <2>3, Numbers DEF Files
    <2>5. now + until <= replaced[mem.current] + 2 * Interval + MaxStall
        BY <1>0, <2>1, <2>2 DEF UntilOK
    <2> QED
        BY <1>N, <2>2, <2>4, <2>5
<1>13. ThreadOK(t)'
    <2>1. place \notin {"same", "install", "installed", "put", "miss"}
        BY DEF Begins
    <2>2. SnapOK(t)' /\ PutOK(t)' /\ MissOK(t)'
        BY <1>4, <2>1 DEF SnapOK, PutOK, MissOK
    <2> QED
        BY <1>10, <1>11, <1>12, <2>2 DEF ThreadOK
<1> QED
    <2>1. Rest
        BY <1>U DEF Rest, cacheVars, verdicts
    <2> QED
        BY <1>2, <1>4, <1>6, <1>7, <1>8, <1>9, <1>13, <2>1, OneMovesQuietly

-----------------------------------------------------------------------------
(* The actions                                                             *)

\* What every action finds.
LEMMA InvParts ==
    ASSUME Inv
    PROVE  /\ Files /\ FileTypes /\ FileInv /\ MemTypes /\ MemOK /\ ThrottleOK /\ UntilOK
           /\ CallTypes /\ Threaded /\ Booting /\ Verdicts /\ CacheInv
           /\ now \in Times /\ now \in Nat /\ file \in Nat
           /\ tokens \in SUBSET Tokens /\ \A tok \in tokens : tok.key <= file
           /\ Interval \in Nat /\ Interval > 0 /\ MaxStall \in Nat
<1>1. Files /\ FileTypes /\ FileInv
    BY DEF Inv, Files
<1> QED
    BY <1>1, Numbers DEF Inv, Memory, Calls, FileTypes, FileInv

\* Nothing happens but to the tokens in circulation.
LEMMA StillStep ==
    ASSUME Inv, Files', Advance,
           UNCHANGED <<now, lock, up, mem, refreshVars, round, reloadMu, cacheVars, callVars,
                       verdicts>>
    PROVE  Inv'
<1>1. /\ now' = now /\ lock' = lock /\ reloadMu' = reloadMu /\ round' = round
      /\ pc' = pc /\ job' = job
      /\ up' = up /\ mem' = mem /\ cache' = cache /\ recached' = recached
      /\ lastRefresh' = lastRefresh /\ lastRefreshErr' = lastRefreshErr /\ until' = until
      /\ failed' = failed /\ lastFailureRefresh' = lastFailureRefresh
      /\ lastFailureErr' = lastFailureErr /\ wronged' = wronged /\ overdue' = overdue
    BY DEF callVars, refreshVars, cacheVars, verdicts
<1>3. CallTypes' /\ MemTypes'
    BY <1>1, InvParts DEF CallTypes, MemTypes
<1>4. ASSUME NEW s \in Threads PROVE ThreadOK(s)'
    <2>1. ThreadOK(s) /\ (pc[s] # "idle" => now' <= job[s].start + MaxStall) /\ Keeps(s)
        BY <1>1, InvParts DEF Threaded, ThreadOK, CallOK, Keeps
    <2> QED
        BY <1>1, <2>1, InvParts, ThreadFrame
<1>5. \A places : Stays(places)
    BY <1>1 DEF Stays
<1>6. MemOK' /\ ThrottleOK' /\ UntilOK'
    BY <1>1, <1>5, InvParts, LoadedFrame, ThrottleFrame, UntilFrame
<1>7. CacheInv'
    BY <1>1, <1>5, InvParts, CacheFrame
<1>8. Booting' /\ Verdicts'
    BY <1>1, InvParts DEF Booting, Own, Verdicts
<1> QED
    BY <1>3, <1>4, <1>6, <1>7, <1>8 DEF Inv, Memory, Calls, Threaded

\* Nothing happens.
LEMMA StutterStep ==
    ASSUME Inv, UNCHANGED vars
    PROVE  Inv'
<1>1. Files' /\ Advance
    BY FilesStay, InvParts DEF vars
<1> QED
    BY <1>1, StillStep DEF vars

\* A replaced key signs all the same.
LEMMA StrayStep ==
    ASSUME Inv, NEW k \in Key, Stray(k)
    PROVE  Inv'
<1>1. k < file
    BY InvParts DEF Stray, FileInv
<1>2. tokens' = tokens \cup {[key |-> k, iat |-> now]} /\ UNCHANGED <<fileVars, now>>
    BY DEF Stray
<1>3. [key |-> k, iat |-> now] \in Tokens /\ k <= file
    BY <1>1, InvParts, Numbers DEF Tokens
<1>4. Files' /\ Advance
    BY <1>2, <1>3, FilesStay, InvParts
<1> QED
    BY <1>4, StillStep DEF Stray

\* A process starts.
LEMMA BootStep ==
    ASSUME Inv, NEW t \in Threads, NEW peer \in BOOLEAN, Boot(t, peer)
    PROVE  Inv'
<1>1. Begins(t, peer, "boot", IF file = 0 THEN "create" ELSE "load", None)
    BY InvParts DEF Boot, Begins, Ops
<1> QED
    BY <1>1, CallBegins DEF Boot

\* A challenge is issued or redeemed.
LEMMA TouchStep ==
    ASSUME Inv, NEW t \in Threads, Touch(t)
    PROVE  Inv'
<1>1. file > 0
    <2>1. mem.current \in Key /\ mem.current <= file
        BY InvParts DEF Touch, MemOK, Loaded
    <2> QED
        BY <2>1, InvParts, Numbers
<1>2. Begins(t, FALSE, "touch", "routine", None)
    BY <1>1 DEF Touch, Begins, Ops
<1> QED
    BY <1>2, CallBegins DEF Touch

\* A token is to be signed.
LEMMA MintStep ==
    ASSUME Inv, NEW t \in Threads, NEW peer \in BOOLEAN, Mint(t, peer)
    PROVE  Inv'
<1>1. file > 0
    <2>1. up => mem.current \in Key /\ mem.current <= file
        BY InvParts DEF MemOK, Loaded
    <2> QED
        BY <2>1, InvParts, Numbers DEF Mint
<1>2. Begins(t, peer, "mint", "locks", None)
    BY <1>1 DEF Mint, Begins, Ops
<1> QED
    BY <1>2, CallBegins DEF Mint

\* A key is to be rotated.
LEMMA RotateStep ==
    ASSUME Inv, NEW t \in Threads, NEW peer \in BOOLEAN, Rotate(t, peer)
    PROVE  Inv'
<1>1. file > 0
    <2>1. up => mem.current \in Key /\ mem.current <= file
        BY InvParts DEF MemOK, Loaded
    <2> QED
        BY <2>1, InvParts, Numbers DEF Rotate
<1>2. Begins(t, peer, "rotate", "rotate", None)
    BY <1>1 DEF Rotate, Begins, Ops
<1> QED
    BY <1>2, CallBegins DEF Rotate

\* A token is to be verified.
LEMMA VerifyTokenStep ==
    ASSUME Inv, NEW t \in Threads, NEW tok \in tokens, VerifyToken(t, tok)
    PROVE  Inv'
<1>0. tok \in Tokens
    BY InvParts
<1>1. file > 0
    <2>1. mem.current \in Key /\ mem.current <= file
        BY InvParts DEF VerifyToken, MemOK, Loaded
    <2> QED
        BY <2>1, InvParts, Numbers
<1>2. CASE until > 0 /\ failed /\ UNCHANGED <<callVars, round>>
    <2>1. UNCHANGED vars
        BY <1>2 DEF VerifyToken, vars, callVars
    <2> QED
        BY <2>1, StutterStep
<1>3. CASE until > 0 /\ ~failed /\ Begin(t, FALSE, "verify", "cached", tok) /\ UNCHANGED round
    <2>1. Begins(t, FALSE, "verify", "cached", tok)
        BY <1>0, <1>1, <1>3 DEF VerifyToken, Begins, Ops
    <2> QED
        BY <1>3, <2>1, CallBegins DEF VerifyToken
<1>4. CASE Begin(t, FALSE, "verify", "await", tok) /\ UNCHANGED round
    <2>1. Begins(t, FALSE, "verify", "await", tok)
        BY <1>0, <1>1, <1>4 DEF VerifyToken, Begins, Ops
    <2> QED
        BY <1>4, <2>1, CallBegins DEF VerifyToken
<1>5. CASE round' = t /\ Begin(t, FALSE, "verify", "routine", tok)
    <2>1. Begins(t, FALSE, "verify", "routine", tok)
        BY <1>0, <1>1, <1>5 DEF VerifyToken, Begins, Ops
    <2> QED
        BY <1>5, <2>1, CallBegins DEF VerifyToken
<1> QED
    BY <1>2, <1>3, <1>4, <1>5 DEF VerifyToken

\* A call that holds no lock and leads nobody returns, and leaves the rest alone.
LEMMA CallReturns ==
    ASSUME Inv, Files', Advance, NEW t \in Threads, Return(t), Rest, MemTypes',
           lock' \in Threads \cup {None}, round' = round, reloadMu' = reloadMu,
           pc[t] \notin Refreshing, round # t
    PROVE  Inv'
<1>1. /\ pc' \in [Threads -> Places] /\ job' \in [Threads -> Jobs]
      /\ pc'[t] = "idle" /\ job'[t] = NoJob
      /\ \A s \in Threads : s # t => pc'[s] = pc[s] /\ job'[s] = job[s]
    BY InvParts, ReturnIs
<1>2. reloadMu # t
    BY InvParts DEF Threaded, ThreadOK, CallOK
<1>3. ThreadOK(t)'
    BY <1>1, <1>2, IdleIsOK
<1>4. CallTypes'
    BY <1>1, InvParts DEF CallTypes
<1>5. Alone(t) /\ Admits(t)
    BY <1>1 DEF Alone, Admits, Keeps
<1> QED
    BY <1>3, <1>4, <1>5, OneMovesQuietly DEF Refreshing

\* A call that leads a round is at its refresh.
LEMMA Leads ==
    ASSUME Inv, NEW t \in Threads, round = t
    PROVE  /\ job[t].op = "verify"
           /\ pc[t] \in {"routine", "snap-routine", "same", "install", "installed"}
    BY InvParts DEF Threaded, ThreadOK, CallOK

\* A call that changed the files goes on to look at them, or is a peer's and done.
LEMMA CallProceeds ==
    ASSUME Inv, Files', Advance, NEW t \in Threads, NEW place, Proceed(t, place), Rest, MemTypes',
           lock' = lock, round' = round, reloadMu' = reloadMu, file' > 0,
           \/ pc[t] = "create" /\ place = "load"
           \/ pc[t] = "rotate" /\ place = "rotated"
    PROVE  Inv'
<1>0. pc[t] \notin Refreshing /\ round # t /\ place \in Places
    BY Leads DEF Refreshing, Places
<1>1. CASE Return(t)
    BY <1>0, <1>1, CallReturns, InvParts DEF CallTypes
<1>2. CASE ~job[t].peer /\ Go(t, place) /\ UNCHANGED job
    <2>1. /\ pc' \in [Threads -> Places] /\ job' \in [Threads -> Jobs]
          /\ pc'[t] = place /\ job'[t] = job[t]
          /\ \A s \in Threads : s # t => pc'[s] = pc[s] /\ job'[s] = job[s]
        BY <1>0, <1>2, InvParts, GoIs
    <2>2. reloadMu # t /\ OpOK(t) /\ CallOK(t)
        BY <1>0, InvParts DEF Threaded, ThreadOK, CallOK
    <2>3. now' = now /\ up' = up
        BY DEF Rest
    <2>4. OpOK(t)'
        BY <2>1, <2>2 DEF OpOK
    <2>5. CallOK(t)'
        BY <1>0, <1>2, <2>1, <2>2, <2>3 DEF CallOK, Refreshing
    <2>6. ThreadOK(t)'
        BY <2>1, <2>4, <2>5 DEF ThreadOK, SnapOK, AgeOK, PutOK, MissOK
    <2>7. CallTypes'
        BY <2>1, InvParts DEF CallTypes
    <2>8. Alone(t) /\ Admits(t)
        BY <1>2, <2>1 DEF Alone, Admits, Keeps
    <2> QED
        BY <1>0, <2>6, <2>7, <2>8, OneMovesQuietly DEF Refreshing
<1> QED
    BY <1>1, <1>2 DEF Proceed

\* A key is made where there is none.
LEMMA CreateKeyStep ==
    ASSUME Inv, NEW t \in Threads, CreateKey(t)
    PROVE  Inv'
<1>1. /\ Rest /\ now' = now /\ UNCHANGED <<archive, torn, tokens>>
      /\ lock' = lock /\ round' = round /\ reloadMu' = reloadMu /\ pc[t] = "create"
      /\ up' = up /\ mem' = mem /\ UNCHANGED refreshVars /\ cache' = cache
    BY DEF CreateKey, Rest, refreshVars, cacheVars
<1>2. MemTypes'
    BY <1>1, InvParts DEF MemTypes, refreshVars
<1>3. Changed
    <2>1. \/ UNCHANGED <<file, lastKey, born, replaced>>
          \/ Publish /\ file = 0
        BY DEF CreateKey, Creates
    <2> QED
        BY <1>1, <2>1, InvParts DEF Changed, FileTypes
<1>4. Files' /\ Advance
    BY <1>1, <1>3, InvParts, ChangedAdvances
<1>5. pc[t] \notin Refreshing /\ round # t
    BY <1>1, Leads DEF Refreshing
<1>6. CASE Return(t)
    BY <1>1, <1>2, <1>4, <1>5, <1>6, CallReturns, InvParts DEF CallTypes
<1>7. CASE Proceed(t, "load") /\ (Publish \/ (file # 0 /\ UNCHANGED file))
    <2>1. file' > 0
        BY <1>7, InvParts DEF Publish, FileTypes
    <2> QED
        BY <1>1, <1>2, <1>4, <1>7, <2>1, CallProceeds
<1> QED
    BY <1>6, <1>7 DEF CreateKey, Creates

\* The key is archived, then replaced.
LEMMA RotateKeyStep ==
    ASSUME Inv, NEW t \in Threads, RotateKey(t)
    PROVE  Inv'
<1> DEFINE entry == [key |-> file, at |-> job[t].at]
<1>1. /\ Rest /\ now' = now /\ UNCHANGED <<torn, tokens>>
      /\ lock' = lock /\ round' = round /\ reloadMu' = reloadMu /\ pc[t] = "rotate"
      /\ up' = up /\ mem' = mem /\ UNCHANGED refreshVars /\ cache' = cache
    BY DEF RotateKey, Rest, refreshVars, cacheVars
<1>2. MemTypes'
    BY <1>1, InvParts DEF MemTypes, refreshVars
<1>3. file > 0
    BY <1>1, InvParts DEF Threaded, ThreadOK, CallOK
<1>4. entry \in Entries /\ entry.key = file
    BY <1>3, InvParts, JobFields DEF Entries, FileTypes, Key
<1>5. \/ archive' = archive \cup {entry} /\ entry \notin torn
         /\ (Publish \/ UNCHANGED <<file, lastKey, born, replaced>>)
      \/ UNCHANGED <<archive, file, lastKey, born, replaced>>
    BY DEF RotateKey, Collides
<1>6. Changed
    <2> HIDE DEF entry
    <2>1. CASE archive' = archive \cup {entry} /\ entry \notin torn
               /\ (Publish \/ UNCHANGED <<file, lastKey, born, replaced>>)
        BY <1>1, <1>4, <2>1, InvParts DEF Changed, FileTypes
    <2>2. CASE UNCHANGED <<archive, file, lastKey, born, replaced>>
        BY <1>1, <2>2, InvParts DEF Changed, FileTypes
    <2> QED
        BY <1>5, <2>1, <2>2
<1>7. Files' /\ Advance
    BY <1>1, <1>6, InvParts, ChangedAdvances
<1>8. pc[t] \notin Refreshing /\ round # t
    BY <1>1, Leads DEF Refreshing
<1>9. CASE Return(t)
    BY <1>1, <1>2, <1>7, <1>8, <1>9, CallReturns, InvParts DEF CallTypes
<1>10. CASE Proceed(t, "rotated")
    <2>1. file' > 0
        BY <1>3, <1>7, InvParts, Numbers DEF Advance, Files, FileTypes
    <2> QED
        BY <1>1, <1>2, <1>7, <1>10, <2>1, CallProceeds
<1> QED
    BY <1>9, <1>10 DEF RotateKey

-----------------------------------------------------------------------------
(* Verification                                                            *)

\* What a verification past its refresh knows.
Verifying(t) ==
    /\ up /\ Loaded(mem) /\ job[t].op = "verify" /\ ~job[t].peer
    /\ job[t].tok \in Tokens /\ job[t].tok.key <= file
    /\ job[t].start \in Nat /\ job[t].at \in Nat /\ job[t].at <= now
    /\ now <= job[t].start + MaxStall
    /\ mem.current \in Key /\ mem.current <= file
    /\ mem.current < file => job[t].start < replaced[mem.current] + 2 * Interval + MaxStall

\* A verification that passed its refresh knows it.
LEMMA PastRefresh ==
    ASSUME Inv, NEW t \in Threads, pc[t] \in {"cached", "again"}
    PROVE  Verifying(t)
<1>1. OpOK(t) /\ CallOK(t) /\ AgeOK(t)
    BY InvParts DEF Threaded, ThreadOK
<1>2. job[t].peer \in BOOLEAN /\ job[t].start \in Nat /\ job[t].at \in Nat
    BY InvParts, JobFields
<1>3. up /\ ~job[t].peer
    BY <1>1, <1>2 DEF CallOK
<1>4. Loaded(mem)
    BY <1>3, InvParts DEF MemOK
<1>5. mem.current \in Key /\ mem.current <= file
    BY <1>4 DEF Loaded
<1> QED
    BY <1>1, <1>2, <1>3, <1>4, <1>5 DEF Verifying, OpOK, CallOK, AgeOK

\* The key set vouches for every genuine token whose key it has had time to learn.
LEMMA Vouching ==
    ASSUME Inv, NEW t \in Threads, Verifying(t), Genuine(job[t].tok),
           Settled(job[t].tok, job[t].start), now < job[t].tok.iat + TokenTTL
    PROVE  Vouches(mem, job[t].tok)
<1>1. PICK tok \in Tokens : tok = job[t].tok
    BY DEF Verifying
<1>N. /\ tok.key \in Key /\ tok.key \in Nat /\ tok.iat \in Nat /\ mem.current \in Nat
      /\ TokenTTL \in Nat /\ MaxLifetime \in Nat /\ TokenTTL <= MaxLifetime
      /\ \A k \in Key : born[k] \in Int /\ replaced[k] \in Int
      /\ \A a \in archive : a.at \in Nat
    BY InvParts, Numbers DEF Verifying
<1>2. /\ tok.key <= file /\ Genuine(tok) /\ now < tok.iat + TokenTTL
      /\ job[t].start >= born[tok.key] + 2 * Interval + MaxStall
    BY <1>1 DEF Verifying, Settled
<1>3. CASE mem.current = tok.key
    BY <1>1, <1>2, <1>3 DEF Vouches
<1>4. CASE mem.current < tok.key
    <2>1. replaced[mem.current] <= born[tok.key]
        BY <1>2, <1>4, <1>N, InvParts DEF FileInv, Verifying
    <2>2. mem.current < file
        BY <1>2, <1>4, <1>N, InvParts
    <2>3. job[t].start < replaced[mem.current] + 2 * Interval + MaxStall
        BY <2>2 DEF Verifying
    <2>4. replaced[mem.current] \in Int /\ born[tok.key] \in Int /\ job[t].start \in Nat
        BY <1>N DEF Verifying
    <2> QED
        BY <1>2, <2>1, <2>3, <2>4, InvParts
<1>5. CASE tok.key < mem.current
    <2>1. tok.key # file
        BY <1>5, <1>N, InvParts DEF Verifying
    <2>2. PICK a \in archive : a.key = tok.key /\ tok.iat <= a.at
        BY <1>2, <2>1, InvParts, LateIs
    <2>3. a.at \in Nat
        BY <1>N
    <2>4. Matters(a)
        BY <1>2, <1>N, <2>2, <2>3, InvParts DEF Matters
    <2>5. mem.retired[tok.key] # Never /\ a.at <= mem.retired[tok.key]
        BY <1>5, <2>2, <2>4 DEF Verifying, Loaded
    <2>6. mem.retired[tok.key] \in Times \cup {Never}
        BY <1>N, InvParts DEF MemTypes, KeySets
    <2>7. mem.retired[tok.key] \in Nat
        BY <2>5, <2>6, KeysAssumption DEF Times
    <2>8. /\ now <= mem.retired[tok.key] + MaxLifetime
          /\ tok.iat <= mem.retired[tok.key]
          /\ tok.iat + TokenTTL <= mem.retired[tok.key] + MaxLifetime
        BY <1>2, <1>N, <2>2, <2>3, <2>5, <2>7, InvParts
    <2> QED
        BY <1>1, <1>2, <2>5, <2>8 DEF Vouches
<1> QED
    BY <1>3, <1>4, <1>5, <1>N

\* It vouches for a late token only as long as it takes the key for the current one.
LEMMA Vouched ==
    ASSUME Inv, NEW t \in Threads, Verifying(t), Vouches(mem, job[t].tok)
    PROVE  /\ Backed(job[t].tok)
           /\ Late(job[t].tok) => job[t].start
                 < replaced[job[t].tok.key] + 2 * Interval + MaxStall
<1>1. PICK tok \in Tokens : tok = job[t].tok
    BY DEF Verifying
<1>N. tok.key \in Key /\ tok.key \in Nat /\ tok.iat \in Nat /\ tok.key <= file
    BY <1>1, InvParts, Numbers DEF Verifying
<1>2. CASE mem.current = tok.key
    <2>1. Backed(tok)
        BY <1>2 DEF Backed
    <2>2. Late(tok) => tok.key < file
        <3>1. Late(tok) => replaced[tok.key] # Never
            BY DEF Late
        <3> QED
            BY <1>N, <3>1, InvParts DEF FileInv
    <2> QED
        BY <1>1, <1>2, <2>1, <2>2 DEF Verifying
<1>3. CASE mem.retired[tok.key] # Never /\ tok.iat <= mem.retired[tok.key]
    <2>1. PICK a \in archive : a.key = tok.key /\ a.at = mem.retired[tok.key]
        BY <1>3, <1>N DEF Verifying, Loaded
    <2>2. tok.iat <= a.at
        BY <1>3, <2>1
    <2>3. Backed(tok)
        BY <2>1, <2>2 DEF Backed
    <2>4. ~Late(tok)
        BY <1>N, <2>1, <2>2, InvParts, LateIs
    <2> QED
        BY <1>1, <2>3, <2>4
<1> QED
    BY <1>1, <1>2, <1>3 DEF Vouches

\* A call goes on with another job.
LEMMA JobMoves ==
    ASSUME CallTypes, NEW t \in Threads, NEW place \in Places, NEW time \in Times,
           Go(t, place), job' = [job EXCEPT ![t].at = time]
    PROVE  /\ pc' \in [Threads -> Places] /\ job' \in [Threads -> Jobs]
           /\ pc'[t] = place /\ job'[t].at = time
           /\ job'[t].op = job[t].op /\ job'[t].peer = job[t].peer /\ job'[t].tok = job[t].tok
           /\ job'[t].start = job[t].start /\ job'[t].stale = job[t].stale
           /\ \A s \in Threads : s # t => pc'[s] = pc[s] /\ job'[s] = job[s]
<1> DEFINE j == [job[t] EXCEPT !.at = time]
<1>1. job[t] \in Jobs
    BY DEF CallTypes
<1>2. /\ j \in Jobs /\ j.at = time
      /\ j.op = job[t].op /\ j.peer = job[t].peer /\ j.tok = job[t].tok
      /\ j.start = job[t].start /\ j.stale = job[t].stale
    BY <1>1 DEF Jobs
<1>3. pc' = [pc EXCEPT ![t] = place] /\ job' = [job EXCEPT ![t] = j]
    BY DEF Go
<1> HIDE DEF j
<1> QED
    BY <1>2, <1>3, MovedTypes

\* A token is accepted, missed or rejected.
LEMMA VerifyOnceStep ==
    ASSUME Inv, NEW t \in Threads, VerifyOnce(t)
    PROVE  Inv'
<1> DEFINE tok == job[t].tok
<1>1. /\ now' = now /\ UNCHANGED fileVars /\ tokens' = tokens /\ lock' = lock
      /\ round' = round /\ reloadMu' = reloadMu /\ up' = up /\ mem' = mem /\ cache' = cache
      /\ UNCHANGED <<refreshVars, cacheVars>> /\ pc[t] \in {"cached", "again"}
    BY DEF VerifyOnce, cacheVars
<1>2. /\ file' = file /\ archive' = archive /\ replaced' = replaced /\ born' = born
      /\ lastRefresh' = lastRefresh /\ lastRefreshErr' = lastRefreshErr /\ until' = until
      /\ failed' = failed /\ lastFailureRefresh' = lastFailureRefresh
      /\ lastFailureErr' = lastFailureErr
    BY <1>1 DEF fileVars, refreshVars
<1>3. Files' /\ Advance
    BY <1>1, FilesStay, InvParts
<1>4. MemTypes'
    BY <1>1, <1>2, InvParts DEF MemTypes
<1>5. pc[t] \notin Refreshing /\ round # t /\ reloadMu # t
    BY <1>1, Leads, InvParts DEF Refreshing, Threaded, ThreadOK, CallOK
<1>6. Verifying(t) /\ OpOK(t) /\ CallOK(t)
    BY <1>1, PastRefresh, InvParts DEF Threaded, ThreadOK
<1>7. /\ job[t].start \in Nat /\ job[t].at \in Nat /\ job[t].at \in Times
      /\ job[t].stale \in BOOLEAN
    BY InvParts, JobFields
<1>9. ASSUME UNCHANGED verdicts
      PROVE  Rest
    BY <1>1, <1>2, <1>9 DEF Rest
<1>10. CASE UNCHANGED verdicts /\ Return(t)
    BY <1>1, <1>3, <1>4, <1>5, <1>9, <1>10, CallReturns, InvParts DEF CallTypes
<1>11. ASSUME Reject(t)
       PROVE  ~Vouches(mem, tok) => UNCHANGED verdicts
    <2>1. ~Vouches(mem, tok) =>
             ~(Genuine(tok) /\ Settled(tok, job[t].start) /\ now < tok.iat + TokenTTL)
        BY <1>6, Vouching
    <2> QED
        BY <1>11, <2>1 DEF Reject, verdicts
<1>12. ASSUME NEW place \in {"put", "miss"}, NEW time \in {now, job[t].at}, UNCHANGED verdicts,
              Go(t, place), job' = [job EXCEPT ![t].at = time],
              place = "put" => Vouches(mem, tok), place = "miss" => ~Vouches(mem, tok)
       PROVE  Inv'
    <2>1. time \in Times /\ time \in Nat /\ time <= now /\ place \in Places
        BY <1>6, <1>7, InvParts DEF Verifying, Places
    <2>2. /\ pc' \in [Threads -> Places] /\ job' \in [Threads -> Jobs]
          /\ pc'[t] = place /\ job'[t].at = time
          /\ job'[t].op = job[t].op /\ job'[t].peer = job[t].peer /\ job'[t].tok = tok
          /\ job'[t].start = job[t].start /\ job'[t].stale = job[t].stale
          /\ \A s \in Threads : s # t => pc'[s] = pc[s] /\ job'[s] = job[s]
        BY <1>12, <2>1, InvParts, JobMoves
    <2>3. CallTypes'
        BY <1>1, <2>2, InvParts DEF CallTypes
    <2>4. Alone(t) /\ Admits(t)
        BY <1>1, <1>6, <2>2 DEF Alone, Admits, Keeps, Verifying
    <2>5. OpOK(t)'
        BY <1>2, <1>6, <2>2 DEF OpOK, Verifying
    <2>6. CallOK(t)'
        <3>1. file > 0
            BY <1>1, <1>6 DEF CallOK
        <3>2. job[t].start <= now
            BY <1>1, <1>6 DEF CallOK
        <3> QED
            BY <1>1, <1>2, <1>5, <1>6, <2>1, <2>2, <3>1, <3>2 DEF CallOK, Verifying, Refreshing
    <2>7. PutOK(t)'
        <3>1. CASE place = "put"
            <4>1. Backed(tok) /\ (Late(tok) => job[t].start
                      < replaced[tok.key] + 2 * Interval + MaxStall)
                BY <1>6, <1>12, <3>1, Vouched
            <4>2. replaced[tok.key] \in Int
                BY <1>6, InvParts, Numbers DEF Verifying
            <4>3. Late(tok) => time < replaced[tok.key] + 2 * Interval + 2 * MaxStall
                BY <1>6, <1>7, <2>1, <4>1, <4>2, InvParts DEF Verifying
            <4>4. Backed(job[t].tok)' /\ (Late(job[t].tok)' => Late(tok))
                BY <1>1, <1>2, <2>2, <4>1 DEF Backed, Late, Stamp
            <4> QED
                BY <1>2, <2>2, <4>3, <4>4 DEF PutOK
        <3>2. CASE place = "miss"
            BY <2>2, <3>2 DEF PutOK
        <3> QED
            BY <3>1, <3>2
    <2>8. MissOK(t)'
        <3>1. CASE place = "miss"
            <4>1. ~(Genuine(tok) /\ Settled(tok, job[t].start) /\ now < tok.iat + TokenTTL)
                BY <1>6, <1>12, <3>1, Vouching
            <4>2. /\ Genuine(job[t].tok)' => Genuine(tok)
                  /\ Settled(job[t].tok, job[t].start)' => Settled(tok, job[t].start)
                <5>1. Stamp(job[t].tok.key)' = Stamp(tok.key)
                    BY <1>2, <2>2 DEF Stamp
                <5>2. Genuine(job[t].tok)' => Genuine(tok)
                    BY <1>2, <2>2, <5>1 DEF Genuine
                <5>3. Settled(job[t].tok, job[t].start)' => Settled(tok, job[t].start)
                    BY <1>2, <2>2 DEF Settled
                <5> QED
                    BY <5>2, <5>3
            <4> QED
                BY <1>1, <2>2, <4>1, <4>2 DEF MissOK
        <3>2. CASE place = "put"
            BY <2>2, <3>2 DEF MissOK
        <3> QED
            BY <3>1, <3>2
    <2>9. ThreadOK(t)'
        BY <2>2, <2>5, <2>6, <2>7, <2>8 DEF ThreadOK, SnapOK, AgeOK
    <2> QED
        BY <1>1, <1>3, <1>4, <1>9, <1>12, <2>3, <2>4, <2>9, OneMovesQuietly
<1>13. CASE /\ Vouches(mem, tok)
            /\ overdue' = IF Late(tok) /\ job[t].start
                                >= replaced[tok.key] + 2 * Interval + MaxStall
                          THEN overdue \cup {tok} ELSE overdue
            /\ Go(t, "put")
            /\ job' = [job EXCEPT ![t].at = IF pc[t] = "cached" THEN now ELSE @]
            /\ UNCHANGED wronged
    <2>1. Late(tok) => job[t].start < replaced[tok.key] + 2 * Interval + MaxStall
        BY <1>6, <1>13, Vouched
    <2>2. replaced[tok.key] \in Int
        BY <1>6, InvParts, Numbers DEF Verifying
    <2>3. UNCHANGED verdicts
        BY <1>7, <1>13, <2>1, <2>2, InvParts DEF verdicts
    <2>4. PICK time \in {now, job[t].at} : job' = [job EXCEPT ![t].at = time]
        BY <1>13
    <2> QED
        BY <1>12, <1>13, <2>3, <2>4
<1>14. CASE ~Vouches(mem, tok) /\ Go(t, "miss") /\ job' = [job EXCEPT ![t].at = now]
            /\ UNCHANGED verdicts
    BY <1>12, <1>14
<1>15. CASE ~Vouches(mem, tok) /\ Return(t) /\ Reject(t)
    BY <1>1, <1>3, <1>4, <1>5, <1>9, <1>11, <1>15, CallReturns, InvParts DEF CallTypes
<1> QED
    BY <1>10, <1>13, <1>14, <1>15 DEF VerifyOnce

\* A refresh after a miss is refused within its interval, or starts.
LEMMA AfterMissStep ==
    ASSUME Inv, NEW t \in Threads, AfterMiss(t)
    PROVE  Inv'
<1>1. /\ now' = now /\ UNCHANGED fileVars /\ tokens' = tokens /\ lock' = lock
      /\ round' = round /\ up' = up /\ mem' = mem /\ cache' = cache /\ UNCHANGED cacheVars
      /\ lastRefresh' = lastRefresh /\ lastRefreshErr' = lastRefreshErr /\ until' = until
      /\ failed' = failed /\ lastFailureErr' = lastFailureErr /\ pc[t] = "miss"
      /\ reloadMu = None
    BY DEF AfterMiss, cacheVars
<1>2. lastFailureRefresh' \in 0 .. Interval
    BY InvParts DEF AfterMiss, MemTypes
<1>3. Files' /\ Advance
    BY <1>1, FilesStay, InvParts
<1>4. MemTypes'
    BY <1>1, <1>2, InvParts DEF MemTypes
<1>5. pc[t] \notin Refreshing /\ round # t /\ OpOK(t) /\ CallOK(t) /\ MissOK(t)
    BY <1>1, Leads, InvParts DEF Refreshing, Threaded, ThreadOK
<1>6. ASSUME Reject(t), job[t].op = "verify"
      PROVE  UNCHANGED verdicts
    BY <1>1, <1>5, <1>6 DEF MissOK, Reject, verdicts
<1>7. CASE /\ reloadMu' = reloadMu /\ Return(t)
           /\ UNCHANGED verdicts \/ (job[t].op = "verify" /\ Reject(t))
    <2>1. Rest
        BY <1>1, <1>6, <1>7 DEF Rest
    <2> QED
        BY <1>1, <1>3, <1>4, <1>5, <1>7, <2>1, CallReturns, InvParts DEF CallTypes
<1>8. CASE reloadMu' = t /\ Go(t, "snap-miss") /\ UNCHANGED <<job, verdicts>>
    <2>1. Rest /\ "snap-miss" \in Places
        BY <1>1, <1>8 DEF Rest, Places
    <2>2. /\ pc' \in [Threads -> Places] /\ job' \in [Threads -> Jobs]
          /\ pc'[t] = "snap-miss" /\ job'[t] = job[t]
          /\ \A s \in Threads : s # t => pc'[s] = pc[s] /\ job'[s] = job[s]
        BY <1>8, <2>1, InvParts, GoIs
    <2>3. CallTypes'
        BY <1>1, <1>8, <2>2, InvParts DEF CallTypes
    <2>4. \A s \in Threads : reloadMu # s
        BY <1>1, KeysAssumption
    <2>5. job[t].peer \in BOOLEAN /\ ~job[t].peer
        BY <1>1, <1>5, InvParts, JobFields DEF CallOK
    <2>6. Alone(t) /\ Admits(t)
        BY <1>1, <1>8, <2>2, <2>4, <2>5 DEF Alone, Admits, Keeps
    <2>7. file' = file
        BY <1>1 DEF fileVars
    <2>8. OpOK(t)'
        BY <1>1, <1>5, <2>2, <2>7 DEF OpOK
    <2>9. CallOK(t)'
        BY <1>1, <1>5, <1>8, <2>2, <2>5, <2>7 DEF CallOK, Refreshing
    <2>10. ThreadOK(t)'
        BY <2>2, <2>8, <2>9 DEF ThreadOK, SnapOK, AgeOK, PutOK, MissOK
    <2> QED
        BY <1>1, <1>3, <1>4, <2>1, <2>3, <2>6, <2>10, OneMovesQuietly
<1> QED
    BY <1>7, <1>8 DEF AfterMiss

-----------------------------------------------------------------------------
(* The cache and the key set                                               *)

\* An accepted token is cached.
LEMMA CachePutStep ==
    ASSUME Inv, NEW t \in Threads, CachePut(t)
    PROVE  Inv'
<1> DEFINE tok == job[t].tok
           entry == [tok |-> tok, exp |-> CachedUntil(tok, job[t].at)]
<1>1. /\ now' = now /\ UNCHANGED fileVars /\ tokens' = tokens /\ lock' = lock
      /\ round' = round /\ reloadMu' = reloadMu /\ up' = up /\ mem' = mem
      /\ UNCHANGED <<refreshVars, verdicts>> /\ pc[t] = "put" /\ Return(t)
      /\ recached' = IF job[t].stale THEN recached \cup {tok} ELSE recached
    BY DEF CachePut
<1>2. /\ file' = file /\ archive' = archive /\ replaced' = replaced /\ born' = born
      /\ lastRefresh' = lastRefresh /\ lastRefreshErr' = lastRefreshErr /\ until' = until
      /\ failed' = failed /\ lastFailureRefresh' = lastFailureRefresh
      /\ lastFailureErr' = lastFailureErr /\ wronged' = wronged /\ overdue' = overdue
    BY <1>1 DEF fileVars, refreshVars, verdicts
<1>3. \A c \in cache' : c \in cache \/ c = entry
    BY DEF CachePut
<1>4. Files' /\ Advance
    BY <1>1, FilesStay, InvParts
<1>5. pc[t] \notin Refreshing /\ round # t /\ reloadMu # t
    BY <1>1, Leads, InvParts DEF Refreshing, Threaded, ThreadOK, CallOK
<1>6. OpOK(t) /\ CallOK(t) /\ PutOK(t)
    BY InvParts DEF Threaded, ThreadOK
<1>7. /\ tok \in Tokens /\ tok.key <= file /\ tok.key \in Key /\ tok.iat \in Nat
      /\ job[t].at \in Nat /\ job[t].at <= now /\ TokenTTL \in Nat /\ CacheValidity \in Nat
      /\ job[t].stale \in BOOLEAN /\ job[t].peer \in BOOLEAN /\ ~job[t].peer /\ up
      /\ replaced[tok.key] \in Int
    <2>1. tok \in Tokens /\ tok.key <= file /\ job[t].at <= now
        BY <1>1, <1>6 DEF OpOK, CallOK
    <2>2. job[t].at \in Nat /\ job[t].stale \in BOOLEAN /\ job[t].peer \in BOOLEAN
        BY InvParts, JobFields
    <2>3. ~job[t].peer /\ up
        BY <1>1, <1>6, <2>2 DEF CallOK
    <2> QED
        BY <2>1, <2>2, <2>3, InvParts, Numbers
<1>8. entry.exp \in Nat /\ entry.exp <= job[t].at + CacheValidity /\ entry.tok = tok
    BY <1>7 DEF CachedUntil
<1>9. entry \in [tok : Tokens, exp : Nat]
    BY <1>7, <1>8
<1>10. cache' \in SUBSET [tok : Tokens, exp : Nat]
    BY <1>3, <1>9, InvParts DEF MemTypes
<1>11. MemTypes'
    BY <1>1, <1>2, <1>10, InvParts DEF MemTypes
<1>12. /\ pc' \in [Threads -> Places] /\ job' \in [Threads -> Jobs]
       /\ pc'[t] = "idle" /\ job'[t] = NoJob
       /\ \A s \in Threads : s # t => pc'[s] = pc[s] /\ job'[s] = job[s]
    BY <1>1, InvParts, ReturnIs
<1>13. CallTypes'
    BY <1>1, <1>12, InvParts DEF CallTypes
<1>14. ThreadOK(t)'
    BY <1>1, <1>5, <1>12, IdleIsOK
<1>15. Alone(t) /\ Admits(t)
    BY <1>1, <1>12 DEF Alone, Admits, Keeps
<1>16. Memory' /\ Calls'
    BY <1>1, <1>2, <1>4, <1>11, <1>13, <1>14, <1>15, OneMoves
<1>17. /\ \A x \in Tokens : Late(x)' => Late(x)
       /\ \A x \in Tokens : Backed(x) => Backed(x)'
    BY <1>1, <1>2 DEF Late, Stamp, Backed
<1> HIDE DEF entry
<1>18. ASSUME NEW c \in cache'
       PROVE  /\ c.tok.key <= file' /\ c.exp <= now' + CacheValidity
              /\ Late(c.tok)' => c.exp
                    < replaced'[c.tok.key] + 2 * Interval + 2 * MaxStall + CacheValidity
    <2>1. CASE c \in cache
        <3>1. c.tok \in Tokens
            BY <2>1, InvParts DEF MemTypes
        <3> QED
            BY <1>1, <1>2, <1>17, <2>1, <3>1, InvParts DEF CacheInv
    <2>2. CASE c = entry
        <3>1. c.exp <= now + CacheValidity
            BY <1>7, <1>8, <2>2, InvParts
        <3>2. Late(tok) => job[t].at < replaced[tok.key] + 2 * Interval + 2 * MaxStall
            BY <1>1, <1>6 DEF PutOK
        <3>3. Late(tok) =>
                c.exp < replaced[tok.key] + 2 * Interval + 2 * MaxStall + CacheValidity
            BY <1>7, <1>8, <2>2, <3>2, InvParts
        <3>4. c.tok = tok
            BY <1>8, <2>2
        <3> HIDE DEF tok
        <3> QED
            BY <1>1, <1>2, <1>7, <1>17, <3>1, <3>3, <3>4
    <2> QED
        BY <1>3, <2>1, <2>2
<1>19. ASSUME \A s \in Threads : pc'[s] \notin {"installed", "sign"}, NEW c \in cache'
       PROVE  Backed(c.tok)' \/ c.tok \in recached'
    <2>1. CASE c \in cache
        <3>1. \A s \in Threads : pc[s] \notin {"installed", "sign"}
            BY <1>1, <1>12, <1>19
        <3>2. c.tok \in Tokens
            BY <2>1, InvParts DEF MemTypes
        <3>3. Backed(c.tok) \/ c.tok \in recached
            BY <2>1, <3>1, InvParts DEF CacheInv
        <3> QED
            BY <1>1, <1>17, <3>2, <3>3
    <2>2. CASE c = entry
        <3>1. ~job[t].stale => Backed(tok)
            BY <1>1, <1>6 DEF PutOK
        <3>2. c.tok = tok
            BY <1>8, <2>2
        <3> HIDE DEF tok
        <3> QED
            BY <1>1, <1>7, <1>17, <3>1, <3>2
    <2> QED
        BY <1>3, <2>1, <2>2
<1>20. CacheInv'
    BY <1>1, <1>7, <1>18, <1>19 DEF CacheInv
<1>21. Verdicts'
    BY <1>2, InvParts DEF Verdicts
<1> QED
    BY <1>4, <1>16, <1>20, <1>21 DEF Inv

\* A call without the reload lock under another key set.
LEMMA SwapFrame ==
    ASSUME Inv, UNCHANGED <<fileVars, now, up>>, NEW s \in Threads, ThreadOK(s), CallTypes',
           mem'.current \in Key,
           mem'.current < file => now <= replaced[mem'.current] + MaxStall,
           pc'[s] = pc[s], round' = round, reloadMu' # s, reloadMu # s,
           job'[s] = IF pc[s] = "put" THEN [job[s] EXCEPT !.stale = TRUE] ELSE job[s]
    PROVE  ThreadOK(s)'
<1>0. OpOK(s) /\ CallOK(s) /\ SnapOK(s) /\ AgeOK(s) /\ PutOK(s) /\ MissOK(s)
    BY DEF ThreadOK
<1>1. /\ file' = file /\ archive' = archive /\ replaced' = replaced /\ born' = born
      /\ now' = now /\ up' = up
    BY DEF fileVars
<1>2. job[s] \in Jobs /\ job[s].start \in Nat
    BY InvParts, JobFields
<1>3. /\ job'[s].op = job[s].op /\ job'[s].peer = job[s].peer /\ job'[s].tok = job[s].tok
      /\ job'[s].start = job[s].start /\ job'[s].at = job[s].at
      /\ pc[s] = "put" => job'[s].stale = TRUE
      /\ pc[s] # "put" => job'[s] = job[s]
    BY <1>2 DEF Jobs
<1>4. OpOK(s)'
    BY <1>0, <1>1, <1>3 DEF OpOK
<1>5. CallOK(s)'
    BY <1>0, <1>1, <1>3 DEF CallOK
<1>6. SnapOK(s)'
    <2>1. pc[s] \notin {"same", "install", "installed"}
        BY <1>0 DEF CallOK, Refreshing
    <2> QED
        BY <2>1 DEF SnapOK
<1>7. AgeOK(s)'
    <2>1. SUFFICES ASSUME pc[s] \in {"cached", "again"}, mem'.current < file
                   PROVE  job[s].start < replaced[mem'.current] + 2 * Interval + MaxStall
        BY <1>1, <1>3 DEF AgeOK
    <2>2. job[s].start <= now
        BY <1>0, <2>1 DEF CallOK
    <2>3. replaced[mem'.current] \in Int
        BY InvParts, Numbers
    <2> QED
        BY <1>2, <2>1, <2>2, <2>3, InvParts
<1>8. PutOK(s)'
    <2>1. SUFFICES ASSUME pc[s] = "put", Late(job[s].tok)'
                   PROVE  job[s].at < replaced[job[s].tok.key] + 2 * Interval + 2 * MaxStall
        BY <1>1, <1>3 DEF PutOK
    <2>2. Late(job[s].tok)
        BY <1>1, <1>3, <2>1 DEF Late, Stamp
    <2> QED
        BY <1>0, <2>1, <2>2 DEF PutOK
<1>9. MissOK(s)'
    <2>1. /\ Genuine(job[s].tok)' <=> Genuine(job[s].tok)
          /\ Settled(job[s].tok, job[s].start)' <=> Settled(job[s].tok, job[s].start)
        <3>1. Stamp(job[s].tok.key)' = Stamp(job[s].tok.key)
            BY <1>1, <1>3 DEF Stamp
        <3>2. Genuine(job[s].tok)' <=> Genuine(job[s].tok)
            BY <1>1, <1>3, <3>1 DEF Genuine
        <3>3. Settled(job[s].tok, job[s].start)' <=> Settled(job[s].tok, job[s].start)
            BY <1>1, <1>3 DEF Settled
        <3> QED
            BY <3>2, <3>3
    <2> QED
        BY <1>0, <1>1, <1>3, <2>1 DEF MissOK
<1> QED
    BY <1>4, <1>5, <1>6, <1>7, <1>8, <1>9 DEF ThreadOK

\* The key set is swapped under the reload lock.
LEMMA Swaps ==
    ASSUME Inv, NEW t \in Threads, NEW set \in KeySets, NEW place, Loaded(set),
           set.current < file => now <= replaced[set.current] + MaxStall,
           SwapKeys(set), Go(t, place), ~job[t].peer,
           reloadMu' = t, reloadMu \in {None, t}, lock' \in Threads \cup {None},
           \/ pc[t] = "install" /\ place = "installed" /\ set = job[t].snap
           \/ pc[t] = "locks" /\ place = "sign",
           UNCHANGED <<now, fileVars, up, refreshVars, round, cacheVars, tokens, verdicts>>
    PROVE  Inv'
<1>1. /\ file' = file /\ archive' = archive /\ replaced' = replaced /\ born' = born
      /\ now' = now /\ up' = up /\ round' = round /\ tokens' = tokens
      /\ lastRefresh' = lastRefresh /\ lastRefreshErr' = lastRefreshErr /\ until' = until
      /\ failed' = failed /\ lastFailureRefresh' = lastFailureRefresh
      /\ lastFailureErr' = lastFailureErr /\ wronged' = wronged /\ overdue' = overdue
      /\ cache' = cache /\ recached' = recached
    BY DEF fileVars, refreshVars, verdicts, cacheVars
<1>2. Files' /\ Advance
    BY <1>1, FilesStay, InvParts
<1>3. /\ pc[t] \in {"install", "locks"} /\ place \in {"installed", "sign"} /\ place \in Places
      /\ mem' = set /\ set.current \in Key /\ set.current <= file
    BY DEF Places, SwapKeys, Loaded
<1>4. /\ pc' \in [Threads -> Places] /\ pc'[t] = place
      /\ \A s \in Threads : s # t => pc'[s] = pc[s]
    BY <1>3, InvParts DEF Go, CallTypes
<1>5. \A s \in Threads : /\ pc[s] # "put" => job'[s] = job[s]
                         /\ pc[s] = "put" => job'[s] = [job[s] EXCEPT !.stale = TRUE]
    BY DEF SwapKeys
<1>6. \A s \in Threads : job'[s] \in Jobs
    <2>1. TAKE s \in Threads
    <2>2. job[s] \in Jobs
        BY InvParts DEF CallTypes
    <2>3. [job[s] EXCEPT !.stale = TRUE] \in Jobs
        BY <2>2 DEF Jobs
    <2> QED
        BY <1>5, <2>2, <2>3
<1>7. job' \in [Threads -> Jobs]
    BY <1>6 DEF SwapKeys
<1>8. CallTypes'
    BY <1>1, <1>4, <1>7, InvParts DEF CallTypes
<1>9. MemTypes'
    BY <1>1, <1>3, InvParts DEF MemTypes
<1>10. job'[t] = job[t]
    BY <1>3, <1>5
<1>11. OpOK(t) /\ CallOK(t) /\ SnapOK(t) /\ up
    BY <1>3, InvParts DEF Threaded, ThreadOK, CallOK
<1>12. Loaded(set)'
    BY <1>2 DEF Advance
<1>13. ThreadOK(t)'
    <2>1. OpOK(t)'
        BY <1>1, <1>3, <1>4, <1>10, <1>11 DEF OpOK
    <2>2. CallOK(t)'
        <3>1. round = t => job[t].op = "verify" /\ pc[t] = "install"
            BY <1>3, <1>11 DEF CallOK
        <3> QED
            BY <1>1, <1>3, <1>4, <1>10, <1>11, <3>1 DEF CallOK, Refreshing
    <2>3. SnapOK(t)'
        <3>1. CASE place = "installed"
            <4>1. pc[t] = "install" /\ set = job[t].snap
                BY <3>1
            <4>2. set.current < file => job[t].start <= replaced[set.current]
                BY <1>11, <4>1 DEF SnapOK
            <4>3. Loaded(job[t].snap)'
                BY <1>10, <1>12, <4>1 DEF Loaded
            <4> QED
                BY <1>1, <1>3, <1>10, <4>1, <4>2, <4>3 DEF SnapOK
        <3>2. CASE place = "sign"
            BY <1>4, <3>2 DEF SnapOK
        <3> QED
            BY <1>3, <3>1, <3>2
    <2>4. AgeOK(t)' /\ PutOK(t)' /\ MissOK(t)'
        BY <1>3, <1>4 DEF AgeOK, PutOK, MissOK
    <2> QED
        BY <2>1, <2>2, <2>3, <2>4 DEF ThreadOK
<1>14. ASSUME NEW s \in Threads PROVE ThreadOK(s)'
    <2>1. CASE s # t
        <3>1. reloadMu # s /\ reloadMu' # s
            BY <2>1, KeysAssumption
        <3>2. ThreadOK(s) /\ pc'[s] = pc[s]
            BY <1>4, <2>1, InvParts DEF Threaded
        <3>3. job'[s] = IF pc[s] = "put" THEN [job[s] EXCEPT !.stale = TRUE] ELSE job[s]
            BY <1>5
        <3> QED
            BY <1>1, <1>3, <1>8, <3>1, <3>2, <3>3, SwapFrame
    <2> QED
        BY <1>13, <2>1
<1>15. MemOK'
    BY <1>3, <1>12 DEF MemOK, Loaded
<1>16. ThrottleOK' /\ UntilOK'
    <2>1. replaced[set.current] \in Int
        BY <1>3, InvParts, Numbers
    <2>2. lastRefresh \in Nat /\ lastRefresh <= Interval /\ until \in Nat /\ until <= Interval
        BY InvParts DEF MemTypes
    <2>3. set.current < file =>
             /\ now + lastRefresh <= replaced[set.current] + Interval + MaxStall
             /\ now + until <= replaced[set.current] + 2 * Interval + MaxStall
        BY <2>1, <2>2, InvParts
    <2> QED
        BY <1>1, <1>3, <2>3 DEF ThrottleOK, UntilOK
<1>17. Booting' /\ Verdicts'
    BY <1>1, <1>11, InvParts DEF Booting, Verdicts
<1>18. CacheInv'
    <2>1. \A c \in cache : c.tok \in Tokens
        BY InvParts DEF MemTypes
    <2>2. \A x \in Tokens : Late(x)' => Late(x)
        BY <1>1 DEF Late, Stamp
    <2>3. \A c \in cache' :
             /\ c.tok.key <= file' /\ c.exp <= now' + CacheValidity
             /\ Late(c.tok)' => c.exp
                   < replaced'[c.tok.key] + 2 * Interval + 2 * MaxStall + CacheValidity
        BY <1>1, <2>1, <2>2, InvParts DEF CacheInv
    <2> QED
        BY <1>1, <1>3, <1>4, <1>11, <2>3 DEF CacheInv
<1> QED
    BY <1>2, <1>8, <1>9, <1>14, <1>15, <1>16, <1>17, <1>18
    DEF Inv, Memory, Calls, Threaded

\* A refresh installs its snapshot.
LEMMA InstallStep ==
    ASSUME Inv, NEW t \in Threads, Install(t)
    PROVE  Inv'
<1>1. /\ pc[t] = "install" /\ SwapKeys(job[t].snap) /\ Go(t, "installed")
      /\ reloadMu' = reloadMu /\ lock' = lock
      /\ UNCHANGED <<now, fileVars, up, refreshVars, round, cacheVars, tokens, verdicts>>
    BY DEF Install
<1>2. CallOK(t) /\ SnapOK(t)
    BY InvParts DEF Threaded, ThreadOK
<1>3. PICK set \in KeySets : set = job[t].snap
    BY <1>1, <1>2 DEF SnapOK
<1>4. /\ Loaded(set) /\ set.current \in Key
      /\ set.current < file => job[t].start <= replaced[set.current]
    BY <1>1, <1>2, <1>3 DEF SnapOK, Loaded
<1>5. job[t].start \in Nat /\ replaced[set.current] \in Int /\ job[t].peer \in BOOLEAN
    BY <1>4, InvParts, JobFields, Numbers
<1>6. now <= job[t].start + MaxStall /\ reloadMu = t /\ ~job[t].peer
    BY <1>1, <1>2, <1>5 DEF CallOK, Refreshing
<1>7. set.current < file => now <= replaced[set.current] + MaxStall
    BY <1>4, <1>5, <1>6, InvParts
<1>8. lock' \in Threads \cup {None} /\ SwapKeys(set)
    BY <1>1, <1>3, InvParts DEF CallTypes
<1> QED
    BY <1>1, <1>3, <1>4, <1>6, <1>7, <1>8, Swaps

\* A token is signed, or the key set is found to be old.
LEMMA SignTokenStep ==
    ASSUME Inv, NEW t \in Threads, SignToken(t)
    PROVE  Inv'
<1>1. /\ pc[t] = "locks" /\ (job[t].peer \/ reloadMu = None)
      /\ UNCHANGED <<now, fileVars, up, refreshVars, round, cacheVars, verdicts>>
    BY DEF SignToken
<1>2. CallOK(t) /\ file > 0
    BY <1>1, InvParts DEF Threaded, ThreadOK, CallOK
<1>3. pc[t] \notin Refreshing /\ round # t
    BY <1>1, Leads DEF Refreshing
<1>4. CASE SignWith(t, file) /\ UNCHANGED <<mem, reloadMu, lock>>
    <2>1. tokens' = tokens \cup {[key |-> file, iat |-> job[t].at]} /\ Return(t)
        BY <1>4 DEF SignWith
    <2>2. [key |-> file, iat |-> job[t].at] \in Tokens
        BY <1>2, InvParts, JobFields, Numbers DEF Tokens
    <2>3. Files' /\ Advance
        BY <1>1, <2>1, <2>2, FilesStay, InvParts
    <2>4. Rest
        BY <1>1, <1>4 DEF Rest, refreshVars
    <2>5. MemTypes'
        BY <1>1, <1>4, InvParts DEF MemTypes, refreshVars, cacheVars
    <2> QED
        BY <1>1, <1>3, <1>4, <2>1, <2>3, <2>4, <2>5, CallReturns, InvParts DEF CallTypes
<1>5. CASE Return(t) /\ UNCHANGED <<mem, reloadMu, lock, tokens>>
    <2>1. Files' /\ Advance
        BY <1>1, <1>5, FilesStay, InvParts
    <2>2. Rest
        BY <1>1, <1>5 DEF Rest, refreshVars
    <2>3. MemTypes'
        BY <1>1, <1>5, InvParts DEF MemTypes, refreshVars, cacheVars
    <2> QED
        BY <1>1, <1>3, <1>5, <2>1, <2>2, <2>3, CallReturns, InvParts DEF CallTypes
<1>6. CASE /\ ~job[t].peer /\ SwapKeys(LoadKeySet) /\ Go(t, "sign")
           /\ reloadMu' = t /\ lock' = t /\ UNCHANGED tokens
    <2>1. LoadKeySet \in KeySets /\ LoadKeySet.current = file /\ Loaded(LoadKeySet)
        BY <1>2, InvParts, LoadIs
    <2>2. PICK set \in KeySets : set = LoadKeySet
        BY <2>1
    <2>3. ~(set.current < file)
        BY <2>1, <2>2, InvParts
    <2>4. Loaded(set) /\ SwapKeys(set)
        BY <1>6, <2>1, <2>2
    <2> QED
        BY <1>1, <1>6, <2>3, <2>4, Swaps
<1> QED
    BY <1>4, <1>5, <1>6 DEF SignToken

\* The cache is cleared, then the token is signed.
LEMMA SignResetStep ==
    ASSUME Inv, NEW t \in Threads, SignReset(t)
    PROVE  Inv'
<1>1. /\ pc[t] = "sign" /\ cache' = {} /\ recached' = {}
      /\ tokens' = tokens \cup {[key |-> file, iat |-> job[t].at]} /\ Return(t)
      /\ reloadMu' = None /\ lock' = None /\ up' = up /\ mem' = mem /\ round' = round /\ now' = now
      /\ UNCHANGED <<fileVars, refreshVars, verdicts>>
    BY DEF SignReset, ResetCache, SignWith
<1>2. /\ lastRefresh' = lastRefresh /\ lastRefreshErr' = lastRefreshErr /\ until' = until
      /\ failed' = failed /\ lastFailureRefresh' = lastFailureRefresh
      /\ lastFailureErr' = lastFailureErr /\ wronged' = wronged /\ overdue' = overdue
    BY <1>1 DEF refreshVars, verdicts
<1>3. CallOK(t) /\ file > 0 /\ reloadMu = t /\ round # t
    BY <1>1, Leads, InvParts DEF Threaded, ThreadOK, CallOK, Refreshing
<1>4. [key |-> file, iat |-> job[t].at] \in Tokens
    BY <1>3, InvParts, JobFields, Numbers DEF Tokens
<1>5. Files' /\ Advance
    BY <1>1, <1>4, FilesStay, InvParts
<1>6. /\ pc' \in [Threads -> Places] /\ job' \in [Threads -> Jobs]
      /\ pc'[t] = "idle" /\ job'[t] = NoJob
      /\ \A s \in Threads : s # t => pc'[s] = pc[s] /\ job'[s] = job[s]
    BY <1>1, InvParts, ReturnIs
<1>7. CallTypes' /\ MemTypes'
    BY <1>1, <1>2, <1>6, InvParts DEF CallTypes, MemTypes
<1>8. \A s \in Threads : reloadMu' # s
    BY <1>1, KeysAssumption
<1>9. ThreadOK(t)' /\ Alone(t) /\ Admits(t)
    BY <1>1, <1>3, <1>6, <1>8, IdleIsOK DEF Alone, Admits, Keeps
<1>10. Memory' /\ Calls'
    BY <1>1, <1>2, <1>5, <1>7, <1>9, OneMoves
<1>11. CacheInv' /\ Verdicts'
    BY <1>1, <1>2, InvParts DEF CacheInv, Verdicts
<1> QED
    BY <1>5, <1>10, <1>11 DEF Inv

-----------------------------------------------------------------------------
(* The end of a refresh                                                    *)

\* The key set was read, or its throttle set, not long after its current key was replaced.
Fresh == mem.current < file => now <= replaced[mem.current] + Interval + MaxStall

\* The callers of a refresh go on.
LEMMA ResumeIs ==
    ASSUME Inv, NEW t \in Threads, NEW err \in BOOLEAN, Resume(t, err),
           pc[t] \in {"routine", "snap-routine", "snap-miss", "rotated", "same", "installed"},
           UNCHANGED <<now, fileVars, up, mem, lock>>, tokens' = tokens,
           reloadMu' = None, reloadMu \in {None, t}, ~err => Fresh
    PROVE  /\ Calls' /\ pc'[t] \notin Refreshing
           /\ \A s \in Threads : s # t /\ pc[s] # "await" => pc'[s] = pc[s]
           /\ \A s \in Threads : s # t /\ pc[s] = "await" => pc'[s] \notin Refreshing
<1> DEFINE leads == round = t
           party == {s \in Threads : s = t \/ (leads /\ pc[s] = "await")}
<1>1. /\ file' = file /\ archive' = archive /\ replaced' = replaced /\ born' = born
      /\ now' = now /\ up' = up /\ mem' = mem
    BY DEF fileVars
<1>2. Files' /\ Advance
    BY <1>1, FilesStay, InvParts
<1>3. OpOK(t) /\ CallOK(t) /\ job[t].op \in {"verify", "touch", "retouch", "rotate"}
    BY InvParts DEF Threaded, ThreadOK, OpOK
<1>4. leads => job[t].op = "verify"
    BY Leads
<1>5. PICK place :
         /\ \/ place = "idle"
            \/ place = "miss" /\ job[t].op = "touch" /\ ~err
            \/ place = "cached" /\ job[t].op = "verify" /\ ~err
            \/ place = "again" /\ job[t].op = "verify" /\ ~err
         /\ pc' = [s \in Threads |-> IF s \in party THEN place ELSE pc[s]]
         /\ job' = [s \in Threads |->
                       IF s \notin party THEN job[s]
                       ELSE IF place = "idle" THEN NoJob
                       ELSE IF place = "miss"
                            THEN [job[s] EXCEPT !.op = "retouch", !.snap = None]
                       ELSE [job[s] EXCEPT !.snap = None]]
         /\ round' = IF leads THEN None ELSE round
    BY <1>3 DEF Resume
<1>6. place \in Places /\ place \notin Refreshing
    BY <1>5 DEF Places, Refreshing
<1>7. /\ \A s \in Threads : s \in party => pc'[s] = place
      /\ \A s \in Threads : s \notin party => pc'[s] = pc[s] /\ job'[s] = job[s]
      /\ \A s \in Threads : s \in party /\ place = "idle" => job'[s] = NoJob
      /\ \A s \in Threads : s \in party /\ place = "miss" =>
            job'[s] = [job[s] EXCEPT !.op = "retouch", !.snap = None]
      /\ \A s \in Threads : s \in party /\ place \in {"cached", "again"} =>
            job'[s] = [job[s] EXCEPT !.snap = None]
    BY <1>5
<1>8. /\ t \in party /\ \A s \in party : s \in Threads
      /\ \A s \in party : s # t => pc[s] = "await" /\ leads
    OBVIOUS
<1>R. /\ round' \in Threads \cup {None} /\ \A s \in Threads : round' = s => round = s
      /\ round' # t
    BY <1>5, InvParts, KeysAssumption DEF CallTypes
<1>M. \A s \in Threads : reloadMu' # s /\ (s # t => reloadMu # s)
    BY KeysAssumption
<1> HIDE DEF party, leads
<1>9. ASSUME NEW s \in Threads, s \in party
      PROVE  /\ job[s] \in Jobs /\ pc[s] # "idle" /\ pc[s] \notin {"create", "load"}
             /\ OpOK(s) /\ CallOK(s) /\ ~job[s].peer
             /\ job[s].start \in Nat
             /\ place \in {"cached", "again"} => job[s].op = "verify"
             /\ round' # s
    <2>1. OpOK(s) /\ CallOK(s) /\ job[s] \in Jobs /\ job[s].peer \in BOOLEAN /\ job[s].start \in Nat
        BY InvParts, JobFields DEF Threaded, ThreadOK
    <2>2. s # t => pc[s] = "await"
        BY <1>8, <1>9
    <2>3. pc[s] \in {"routine", "snap-routine", "snap-miss", "rotated", "same", "installed",
                     "await"}
        BY <2>2
    <2>4. ~job[s].peer
        BY <2>1, <2>3 DEF CallOK
    <2>5. place \in {"cached", "again"} => job[s].op = "verify"
        BY <1>5, <2>1, <2>2 DEF OpOK
    <2>6. round' # s
        <3>1. s # t => round # s
            BY <2>1, <2>2 DEF CallOK
        <3> QED
            BY <1>R, <3>1
    <2> QED
        BY <2>1, <2>3, <2>4, <2>5, <2>6
<1>10. ASSUME NEW s \in Threads, s \in party, place # "idle"
       PROVE  /\ job'[s] \in Jobs
              /\ job'[s].peer = job[s].peer /\ job'[s].tok = job[s].tok
              /\ job'[s].start = job[s].start /\ job'[s].at = job[s].at
              /\ place = "miss" => job'[s].op = "retouch"
              /\ place \in {"cached", "again"} => job'[s].op = "verify"
    <2>1. job[s] \in Jobs
        BY <1>9, <1>10
    <2>2. CASE place = "miss"
        <3> DEFINE j == [job[s] EXCEPT !.op = "retouch", !.snap = None]
        <3>1. /\ j \in Jobs /\ j.peer = job[s].peer /\ j.tok = job[s].tok /\ j.op = "retouch"
              /\ j.start = job[s].start /\ j.at = job[s].at
            BY <2>1 DEF Jobs, Ops
        <3>2. job'[s] = j
            BY <1>7, <1>10, <2>2
        <3> HIDE DEF j
        <3> QED
            BY <2>2, <3>1, <3>2
    <2>3. CASE place \in {"cached", "again"}
        <3> DEFINE j == [job[s] EXCEPT !.snap = None]
        <3>1. /\ j \in Jobs /\ j.peer = job[s].peer /\ j.tok = job[s].tok /\ j.op = job[s].op
              /\ j.start = job[s].start /\ j.at = job[s].at
            BY <2>1 DEF Jobs
        <3>2. job'[s] = j /\ job[s].op = "verify"
            BY <1>7, <1>9, <1>10, <2>3
        <3> HIDE DEF j
        <3> QED
            BY <2>3, <3>1, <3>2
    <2> QED
        BY <1>5, <1>10, <2>2, <2>3
<1>11. CallTypes'
    <2>1. \A s \in Threads : pc'[s] \in Places /\ job'[s] \in Jobs
        <3>1. TAKE s \in Threads
        <3>2. pc[s] \in Places /\ job[s] \in Jobs
            BY InvParts DEF CallTypes
        <3> QED
            BY <1>6, <1>7, <1>10, <3>2, NoJobTypes
    <2>2. pc' \in [Threads -> Places] /\ job' \in [Threads -> Jobs]
        BY <1>5, <2>1
    <2> QED
        BY <1>R, <2>2, InvParts DEF CallTypes
<1>12. ASSUME NEW s \in Threads, s \in party, place # "idle"
       PROVE  ThreadOK(s)'
    <2>1. pc'[s] = place /\ place \in {"miss", "cached", "again"}
        BY <1>5, <1>7, <1>12
    <2>2. /\ OpOK(s) /\ CallOK(s) /\ ~job[s].peer /\ pc[s] \notin {"idle", "create", "load"}
          /\ job[s].start \in Nat
        BY <1>9, <1>12
    <2>3. /\ job'[s].peer = job[s].peer /\ job'[s].tok = job[s].tok
          /\ job'[s].start = job[s].start /\ job'[s].at = job[s].at
          /\ place = "miss" => job'[s].op = "retouch"
          /\ place \in {"cached", "again"} => job'[s].op = "verify" /\ job[s].op = "verify"
        BY <1>9, <1>10, <1>12
    <2>4. OpOK(s)'
        BY <1>1, <2>1, <2>2, <2>3 DEF OpOK
    <2>5. CallOK(s)'
        <3>1. round' # s /\ reloadMu' # s
            BY <1>9, <1>12, <1>M
        <3> QED
            BY <1>1, <2>1, <2>2, <2>3, <3>1 DEF CallOK, Refreshing
    <2>6. AgeOK(s)'
        <3>1. SUFFICES ASSUME place \in {"cached", "again"}, mem.current < file
                       PROVE  job[s].start < replaced[mem.current] + 2 * Interval + MaxStall
            BY <1>1, <2>1, <2>3 DEF AgeOK
        <3>2. ~err /\ Fresh /\ up /\ job[s].start <= now
            BY <1>5, <2>2, <3>1 DEF CallOK
        <3>3. mem.current \in Key
            BY <3>2, InvParts DEF MemOK, Loaded
        <3>4. replaced[mem.current] \in Int
            BY <3>3, InvParts, Numbers
        <3> QED
            BY <2>2, <3>1, <3>2, <3>4, InvParts DEF Fresh
    <2>7. SnapOK(s)' /\ PutOK(s)' /\ MissOK(s)'
        BY <2>1, <2>3 DEF SnapOK, PutOK, MissOK
    <2> QED
        BY <2>4, <2>5, <2>6, <2>7 DEF ThreadOK
<1>13. ASSUME NEW s \in Threads PROVE ThreadOK(s)'
    <2>1. CASE s \in party /\ place = "idle"
        BY <1>7, <1>9, <1>M, <2>1, IdleIsOK
    <2>2. CASE s \in party /\ place # "idle"
        BY <1>12, <2>2
    <2>3. CASE s \notin party
        <3>1. s # t
            BY <1>8, <2>3
        <3>2. Keeps(s)
            BY <1>7, <1>M, <1>R, <2>3, <3>1 DEF Keeps
        <3>3. ThreadOK(s) /\ (pc[s] # "idle" => now' <= job[s].start + MaxStall)
            BY <1>1, InvParts DEF Threaded, ThreadOK, CallOK
        <3> QED
            BY <1>1, <1>2, <3>2, <3>3, InvParts, ThreadFrame
    <2> QED
        BY <2>1, <2>2, <2>3
<1>14. up
    BY <1>8, <1>9 DEF CallOK
<1>15. Booting'
    BY <1>1, <1>14 DEF Booting
<1>16. /\ \A s \in Threads : s # t /\ pc[s] # "await" => pc'[s] = pc[s]
       /\ \A s \in Threads : s # t /\ pc[s] = "await" => pc'[s] \in {place, "await"}
    BY <1>7, <1>8
<1> QED
    BY <1>6, <1>7, <1>8, <1>11, <1>13, <1>15, <1>16 DEF Calls, Threaded, Refreshing

\* A routine refresh is answered within the interval, or starts.
LEMMA RoutineStep ==
    ASSUME Inv, NEW t \in Threads, Routine(t)
    PROVE  Inv'
<1>1. /\ now' = now /\ UNCHANGED fileVars /\ tokens' = tokens /\ lock' = lock
      /\ up' = up /\ mem' = mem /\ lastRefreshErr' = lastRefreshErr
      /\ lastFailureRefresh' = lastFailureRefresh /\ lastFailureErr' = lastFailureErr
      /\ cache' = cache /\ recached' = recached /\ wronged' = wronged /\ overdue' = overdue
      /\ pc[t] = "routine" /\ reloadMu = None
    BY DEF Routine, cacheVars, verdicts
<1>2. Files' /\ Advance /\ file' = file /\ replaced' = replaced
    BY <1>1, FilesStay, InvParts DEF fileVars
<1>3. \A s \in Threads : reloadMu # s /\ pc[s] \notin Refreshing
    BY <1>1, KeysAssumption, InvParts DEF Threaded, ThreadOK, CallOK
<1>4. OpOK(t) /\ CallOK(t) /\ up /\ job[t].peer \in BOOLEAN /\ ~job[t].peer
    <2>1. OpOK(t) /\ CallOK(t) /\ job[t].peer \in BOOLEAN
        BY InvParts, JobFields DEF Threaded, ThreadOK
    <2> QED
        BY <1>1, <2>1 DEF CallOK
<1>5. lastRefresh \in Nat /\ lastRefreshErr \in BOOLEAN /\ Interval \in 0 .. Interval
    BY InvParts DEF MemTypes
<1>6. mem.current \in Key /\ replaced[mem.current] \in Int
    BY <1>4, InvParts, Numbers DEF MemOK, Loaded
<1>7. Verdicts'
    BY <1>1, InvParts DEF Verdicts
<1>8. CASE /\ lastRefresh > 0 /\ Remember(ThrottledErr) /\ Resume(t, ThrottledErr)
           /\ UNCHANGED <<lastRefresh, reloadMu>>
    <2>1. until' = Interval /\ failed' = lastRefreshErr /\ lastRefresh' = lastRefresh
          /\ reloadMu' = None /\ Resume(t, lastRefreshErr)
        BY <1>1, <1>8 DEF Remember, ThrottledErr
    <2>2. ~lastRefreshErr => Fresh
        <3>1. SUFFICES ASSUME ~lastRefreshErr, mem.current < file
                       PROVE  now <= replaced[mem.current] + Interval + MaxStall
            BY DEF Fresh
        <3>2. now + lastRefresh <= replaced[mem.current] + Interval + MaxStall
            BY <1>3, <1>4, <1>8, <3>1, InvParts DEF ThrottleOK, Refreshing
        <3> QED
            BY <1>5, <1>6, <3>2, InvParts
    <2>3. PICK err \in BOOLEAN : err = lastRefreshErr
        BY <1>5
    <2>4. /\ Calls' /\ pc'[t] \notin Refreshing
          /\ \A s \in Threads : s # t /\ pc[s] # "await" => pc'[s] = pc[s]
        BY <1>1, <2>1, <2>2, <2>3, ResumeIs
    <2>5. MemTypes'
        BY <1>1, <1>5, <2>1, InvParts DEF MemTypes
    <2>6. Stays({"snap-routine", "install"}) /\ Stays({"installed", "sign"})
        BY <1>3 DEF Stays, Refreshing
    <2>7. MemOK' /\ ThrottleOK'
        BY <1>1, <1>2, <2>1, <2>6, InvParts, LoadedFrame, ThrottleFrame
    <2>8. UntilOK'
        <3>1. SUFFICES ASSUME ~lastRefreshErr, mem.current < file
                       PROVE  now + Interval <= replaced[mem.current] + 2 * Interval + MaxStall
            BY <1>1, <1>2, <2>1 DEF UntilOK
        <3> QED
            BY <1>6, <2>2, <3>1, InvParts DEF Fresh
    <2>9. CacheInv'
        BY <1>1, <1>2, <2>6, InvParts, CacheFrame
    <2> QED
        BY <1>2, <1>7, <2>4, <2>5, <2>7, <2>8, <2>9 DEF Inv, Memory
<1>9. CASE /\ lastRefresh' = Interval /\ reloadMu' = t /\ Go(t, "snap-routine")
           /\ UNCHANGED <<until, failed, round, job>>
    <2>1. "snap-routine" \in Places
        BY DEF Places
    <2>2. /\ pc' \in [Threads -> Places] /\ job' \in [Threads -> Jobs]
          /\ pc'[t] = "snap-routine" /\ job'[t] = job[t]
          /\ \A s \in Threads : s # t => pc'[s] = pc[s] /\ job'[s] = job[s]
        BY <1>9, <2>1, InvParts, GoIs
    <2>3. CallTypes' /\ MemTypes'
        BY <1>1, <1>5, <1>9, <2>2, InvParts DEF CallTypes, MemTypes
    <2>4. Alone(t) /\ Admits(t)
        BY <1>3, <1>4, <1>9, <2>2 DEF Alone, Admits, Keeps
    <2>5. OpOK(t)'
        BY <1>1, <1>2, <1>4, <2>2 DEF OpOK
    <2>6. CallOK(t)'
        BY <1>1, <1>2, <1>4, <1>9, <2>2 DEF CallOK, Refreshing
    <2>7. ThreadOK(t)'
        BY <2>2, <2>5, <2>6 DEF ThreadOK, SnapOK, AgeOK, PutOK, MissOK
    <2>8. ASSUME NEW s \in Threads PROVE ThreadOK(s)'
        <3>1. CASE s # t
            <4>1. Keeps(s)
                BY <2>4, <3>1 DEF Alone
            <4>2. ThreadOK(s) /\ (pc[s] # "idle" => now' <= job[s].start + MaxStall)
                BY <1>1, InvParts DEF Threaded, ThreadOK, CallOK
            <4> QED
                BY <1>1, <1>2, <4>1, <4>2, InvParts, ThreadFrame
        <3> QED
            BY <2>7, <3>1
    <2>9. MemOK' /\ UntilOK'
        BY <1>1, <1>2, <1>9, InvParts, LoadedFrame, UntilFrame
    <2>10. ThrottleOK'
        BY <2>2 DEF ThrottleOK
    <2>11. Booting'
        BY <1>1, <1>4 DEF Booting
    <2>12. Stays({"installed", "sign"})
        BY <1>3 DEF Stays, Refreshing
    <2>13. CacheInv'
        BY <1>1, <1>2, <2>12, InvParts, CacheFrame
    <2> QED
        BY <1>2, <1>7, <2>3, <2>8, <2>9, <2>10, <2>11, <2>13 DEF Inv, Memory, Calls, Threaded
<1> QED
    BY <1>8, <1>9 DEF Routine

\* A refresh is over.
LEMMA RefreshedStep ==
    ASSUME Inv, NEW t \in Threads, Refreshed(t)
    PROVE  Inv'
<1>1. /\ now' = now /\ UNCHANGED fileVars /\ tokens' = tokens /\ lock' = lock
      /\ up' = up /\ mem' = mem /\ lastRefresh' = Interval /\ lastRefreshErr' = FALSE
      /\ lastFailureErr' = FALSE /\ lastFailureRefresh' = lastFailureRefresh
      /\ until' = Interval /\ failed' = FALSE /\ reloadMu' = None /\ Resume(t, FALSE)
      /\ wronged' = wronged /\ overdue' = overdue /\ pc[t] \in {"same", "installed"}
      /\ \/ pc[t] = "same" /\ cache' = cache /\ recached' = recached
         \/ cache' = {} /\ recached' = {}
    BY DEF Refreshed, Remember, verdicts, cacheVars, ResetCache
<1>2. Files' /\ Advance /\ file' = file /\ replaced' = replaced
    BY <1>1, FilesStay, InvParts DEF fileVars
<1>3. CallOK(t) /\ SnapOK(t) /\ reloadMu = t /\ job[t].start \in Nat /\ job[t].peer \in BOOLEAN
    BY <1>1, InvParts, JobFields DEF Threaded, ThreadOK, CallOK, Refreshing
<1>4. up /\ mem = job[t].snap /\ now <= job[t].start + MaxStall
    BY <1>1, <1>3 DEF CallOK, SnapOK
<1>5. mem.current \in Key /\ replaced[mem.current] \in Int
    BY <1>4, InvParts, Numbers DEF MemOK, Loaded
<1>6. mem.current < file => now <= replaced[mem.current] + MaxStall
    <2>1. mem.current < file => job[t].start <= replaced[mem.current]
        BY <1>1, <1>3, <1>4 DEF SnapOK
    <2> QED
        BY <1>3, <1>4, <1>5, <2>1, InvParts
<1>7. Fresh
    BY <1>5, <1>6, InvParts DEF Fresh
<1>8. /\ Calls' /\ pc'[t] \notin Refreshing
      /\ \A s \in Threads : s # t /\ pc[s] # "await" => pc'[s] = pc[s]
    BY <1>1, <1>3, <1>7, ResumeIs
<1>9. cache' \in SUBSET [tok : Tokens, exp : Nat] /\ Interval \in 0 .. Interval
    BY <1>1, InvParts DEF MemTypes
<1>10. MemTypes'
    BY <1>1, <1>9, InvParts DEF MemTypes
<1>11. MemOK'
    BY <1>1, <1>2, InvParts, LoadedFrame
<1>12. ThrottleOK' /\ UntilOK'
    <2>1. mem.current < file =>
             /\ now + Interval <= replaced[mem.current] + Interval + MaxStall
             /\ now + Interval <= replaced[mem.current] + 2 * Interval + MaxStall
        BY <1>5, <1>6, InvParts
    <2> QED
        BY <1>1, <1>2, <2>1 DEF ThrottleOK, UntilOK
<1>13. CacheInv'
    <2>1. CASE pc[t] = "same" /\ cache' = cache /\ recached' = recached
        <3>1. \A s \in Threads : pc[s] \notin {"installed", "sign"}
            BY <1>3, <2>1, InvParts DEF Threaded, ThreadOK, CallOK, Refreshing
        <3>2. Stays({"installed", "sign"})
            BY <3>1 DEF Stays
        <3> QED
            BY <1>1, <1>2, <2>1, <3>2, InvParts, CacheFrame
    <2>2. CASE cache' = {}
        BY <2>2 DEF CacheInv
    <2> QED
        BY <1>1, <2>1, <2>2
<1>14. Verdicts'
    BY <1>1, InvParts DEF Verdicts
<1> QED
    BY <1>2, <1>8, <1>10, <1>11, <1>12, <1>13, <1>14 DEF Inv, Memory

\* A refresh reads the files, or fails.
LEMMA SnapshotStep ==
    ASSUME Inv, NEW t \in Threads, Snapshot(t)
    PROVE  Inv'
<1>1. /\ now' = now /\ UNCHANGED fileVars /\ tokens' = tokens /\ lock' = lock
      /\ up' = up /\ mem' = mem /\ lastRefresh' = lastRefresh
      /\ lastFailureRefresh' = lastFailureRefresh
      /\ cache' = cache /\ recached' = recached /\ wronged' = wronged /\ overdue' = overdue
      /\ \/ pc[t] \in {"snap-routine", "snap-miss"}
         \/ pc[t] = "rotated" /\ reloadMu = None
    BY DEF Snapshot, cacheVars, verdicts
<1>2. Files' /\ Advance /\ file' = file /\ replaced' = replaced
    BY <1>1, FilesStay, InvParts DEF fileVars
<1>3. /\ OpOK(t) /\ CallOK(t) /\ reloadMu \in {None, t}
      /\ job[t].peer \in BOOLEAN /\ ~job[t].peer /\ up /\ file > 0
    <2>1. OpOK(t) /\ CallOK(t) /\ job[t].peer \in BOOLEAN
        BY InvParts, JobFields DEF Threaded, ThreadOK
    <2>2. reloadMu \in {None, t}
        BY <1>1, <2>1 DEF CallOK, Refreshing
    <2> QED
        BY <1>1, <2>1, <2>2 DEF CallOK
<1>4. Verdicts'
    BY <1>1, InvParts DEF Verdicts
<1>5. \A s \in Threads : s # t => reloadMu # s /\ pc[s] \notin Refreshing
    BY <1>3, KeysAssumption, InvParts DEF Threaded, ThreadOK, CallOK
<1>6. CASE /\ job' = [job EXCEPT ![t].snap = LoadKeySet]
           /\ Go(t, IF LoadKeySet = mem THEN "same" ELSE "install") /\ reloadMu' = t
           /\ UNCHANGED <<lastRefreshErr, lastFailureErr, until, failed, round>>
    <2>1. LoadKeySet \in KeySets /\ LoadKeySet.current = file /\ Loaded(LoadKeySet)
        BY <1>3, InvParts, LoadIs
    <2>2. PICK set \in KeySets : set = LoadKeySet
        BY <2>1
    <2>3. Loaded(set) /\ Loaded(set)' /\ set.current = file /\ ~(set.current < file)
        BY <1>2, <2>1, <2>2, InvParts DEF Advance
    <2>4. PICK place \in {"same", "install"} :
             Go(t, place) /\ (place = "same" => mem = set)
        BY <1>6, <2>2
    <2> DEFINE j == [job[t] EXCEPT !.snap = set]
    <2>5. job[t] \in Jobs
        BY InvParts, JobFields
    <2>6. /\ j \in Jobs /\ j.snap = set /\ j.op = job[t].op /\ j.peer = job[t].peer
          /\ j.tok = job[t].tok /\ j.start = job[t].start /\ j.at = job[t].at
        BY <2>5 DEF Jobs
    <2>7. pc' = [pc EXCEPT ![t] = place] /\ job' = [job EXCEPT ![t] = j] /\ place \in Places
        BY <1>6, <2>2, <2>4 DEF Go, Places
    <2> HIDE DEF j
    <2>8. /\ pc' \in [Threads -> Places] /\ job' \in [Threads -> Jobs]
          /\ pc'[t] = place /\ job'[t] = j
          /\ \A s \in Threads : s # t => pc'[s] = pc[s] /\ job'[s] = job[s]
        BY <2>6, <2>7, InvParts, MovedTypes
    <2>9. CallTypes' /\ MemTypes'
        BY <1>1, <1>6, <2>8, InvParts DEF CallTypes, MemTypes
    <2>10. OpOK(t)'
        BY <1>1, <1>2, <1>3, <2>6, <2>8 DEF OpOK
    <2>11. CallOK(t)'
        BY <1>1, <1>2, <1>3, <1>6, <2>6, <2>8 DEF CallOK, Refreshing
    <2>12. SnapOK(t)'
        <3>1. Loaded(job[t].snap)'
            BY <2>3, <2>6, <2>8 DEF Loaded
        <3> QED
            BY <1>1, <1>2, <2>3, <2>4, <2>6, <2>8, <3>1 DEF SnapOK
    <2>13. ThreadOK(t)'
        BY <2>8, <2>10, <2>11, <2>12 DEF ThreadOK, AgeOK, PutOK, MissOK
    <2>14. ASSUME NEW s \in Threads PROVE ThreadOK(s)'
        <3>1. CASE s # t
            <4>1. Keeps(s)
                BY <1>5, <1>6, <2>8, <3>1 DEF Keeps
            <4>2. ThreadOK(s) /\ (pc[s] # "idle" => now' <= job[s].start + MaxStall)
                BY <1>1, InvParts DEF Threaded, ThreadOK, CallOK
            <4> QED
                BY <1>1, <1>2, <4>1, <4>2, InvParts, ThreadFrame
        <3> QED
            BY <2>13, <3>1
    <2>15. MemOK' /\ UntilOK'
        BY <1>1, <1>2, <1>6, InvParts, LoadedFrame, UntilFrame
    <2>16. ThrottleOK'
        <3>1. CASE place = "same"
            BY <1>1, <1>2, <2>3, <2>4, <3>1 DEF ThrottleOK
        <3>2. CASE place = "install"
            BY <2>8, <3>2 DEF ThrottleOK
        <3> QED
            BY <3>1, <3>2
    <2>17. Booting'
        BY <1>1, <1>3 DEF Booting
    <2>18. Stays({"installed", "sign"})
        BY <1>1, <2>8 DEF Stays
    <2>19. CacheInv'
        BY <1>1, <1>2, <2>18, InvParts, CacheFrame
    <2> QED
        BY <1>2, <1>4, <2>9, <2>14, <2>15, <2>16, <2>17, <2>19
        DEF Inv, Memory, Calls, Threaded
<1>7. CASE /\ lastRefreshErr' = (pc[t] = "snap-routine" \/ lastRefreshErr)
           /\ lastFailureErr' = (pc[t] = "snap-miss" \/ lastFailureErr)
           /\ Remember(TRUE) /\ reloadMu' = None /\ Resume(t, TRUE)
    <2>1. until' = Interval /\ failed' = TRUE
        BY <1>7 DEF Remember
    <2>2. /\ Calls' /\ pc'[t] \notin Refreshing
          /\ \A s \in Threads : s # t /\ pc[s] # "await" => pc'[s] = pc[s]
        BY <1>1, <1>3, <1>7, ResumeIs
    <2>3. Interval \in 0 .. Interval /\ lastRefreshErr' \in BOOLEAN /\ lastFailureErr' \in BOOLEAN
        BY <1>7, InvParts DEF MemTypes
    <2>4. MemTypes'
        BY <1>1, <2>1, <2>3, InvParts DEF MemTypes
    <2>5. MemOK' /\ UntilOK'
        BY <1>1, <1>2, <2>1, InvParts, LoadedFrame DEF UntilOK
    <2>6. ThrottleOK'
        <3>1. CASE pc[t] = "snap-routine"
            BY <1>7, <3>1 DEF ThrottleOK
        <3>2. CASE pc[t] # "snap-routine"
            <4>1. lastRefreshErr' = lastRefreshErr
                BY <1>7, <3>2, InvParts DEF MemTypes
            <4>2. Stays({"snap-routine", "install"})
                BY <1>1, <2>2, <3>2 DEF Stays
            <4> QED
                BY <1>1, <1>2, <4>1, <4>2, InvParts, ThrottleFrame
        <3> QED
            BY <3>1, <3>2
    <2>7. Stays({"installed", "sign"})
        BY <1>1, <2>2 DEF Stays
    <2>8. CacheInv'
        BY <1>1, <1>2, <2>7, InvParts, CacheFrame
    <2> QED
        BY <1>2, <1>4, <2>2, <2>4, <2>5, <2>6, <2>8 DEF Inv, Memory
<1> QED
    BY <1>6, <1>7 DEF Snapshot

-----------------------------------------------------------------------------
(* Processes come and go                                                   *)

\* A call of a peer does not depend on what this process knows.
LEMMA PeerFrame ==
    ASSUME Inv, Advance, now' = now, file' \in Nat, NEW s \in Threads, ThreadOK(s),
           pc[s] = "idle" \/ job[s].peer,
           pc'[s] = pc[s], job'[s] = job[s],
           reloadMu' = s => reloadMu = s, round' = s => round = s
    PROVE  ThreadOK(s)'
<1>1. OpOK(s) /\ CallOK(s)
    BY DEF ThreadOK
<1>2. pc[s] \in {"idle", "create", "locks", "rotate"}
    BY <1>1 DEF CallOK
<1>3. file <= file' /\ \A tok \in Tokens : tok.key \in Nat
    BY InvParts, Numbers DEF Advance
<1>4. job[s].op # "verify"
    BY <1>1, <1>2 DEF OpOK
<1>5. OpOK(s)'
    BY <1>1, <1>4 DEF OpOK
<1>6. file > 0 => file' > 0
    BY <1>3, InvParts
<1>7. CallOK(s)'
    BY <1>1, <1>2, <1>4, <1>6 DEF CallOK, Refreshing
<1> QED
    BY <1>2, <1>5, <1>7 DEF ThreadOK, SnapOK, AgeOK, PutOK, MissOK

\* A process has read its keys and serves, or gives up.
LEMMA LoadKeysStep ==
    ASSUME Inv, NEW t \in Threads, LoadKeys(t)
    PROVE  Inv'
<1>1. /\ now' = now /\ UNCHANGED fileVars /\ tokens' = tokens /\ lock' = lock
      /\ round' = round /\ reloadMu' = reloadMu /\ UNCHANGED <<cacheVars, verdicts>>
      /\ cache' = cache /\ wronged' = wronged /\ overdue' = overdue
      /\ pc[t] = "load" /\ Return(t)
    BY DEF LoadKeys, cacheVars, verdicts
<1>2. Files' /\ Advance /\ file' = file
    BY <1>1, FilesStay, InvParts DEF fileVars
<1>3. pc[t] \notin Refreshing /\ round # t /\ reloadMu # t
    BY <1>1, Leads, InvParts DEF Refreshing, Threaded, ThreadOK, CallOK
<1>4. file > 0 /\ ~job[t].peer /\ ~up
    <2>1. CallOK(t) /\ job[t].peer \in BOOLEAN
        BY InvParts, JobFields DEF Threaded, ThreadOK
    <2> QED
        BY <1>1, <2>1 DEF CallOK
<1>5. CASE UNCHANGED <<up, mem, refreshVars>>
    <2>1. Rest
        BY <1>1, <1>5 DEF Rest, refreshVars
    <2>2. MemTypes' /\ lock' \in Threads \cup {None}
        BY <1>1, <1>5, InvParts DEF MemTypes, CallTypes, refreshVars
    <2> QED
        BY <1>1, <1>2, <1>3, <2>1, <2>2, CallReturns
<1>6. CASE /\ up' = TRUE /\ mem' = LoadKeySet /\ lastRefresh' = Interval /\ until' = Interval
           /\ UNCHANGED <<lastRefreshErr, lastFailureRefresh, lastFailureErr, failed>>
    <2>1. LoadKeySet \in KeySets /\ LoadKeySet.current = file /\ Loaded(LoadKeySet)
        BY <1>4, InvParts, LoadIs
    <2>2. PICK set \in KeySets : set = LoadKeySet
        BY <2>1
    <2>3. Loaded(set)' /\ set.current = file /\ ~(set.current < file) /\ mem' = set
        BY <1>2, <1>6, <2>1, <2>2, InvParts DEF Advance
    <2>4. /\ pc' \in [Threads -> Places] /\ job' \in [Threads -> Jobs]
          /\ pc'[t] = "idle" /\ job'[t] = NoJob
          /\ \A s \in Threads : s # t => pc'[s] = pc[s] /\ job'[s] = job[s]
        BY <1>1, InvParts, ReturnIs
    <2>5. Interval \in 0 .. Interval
        BY InvParts
    <2>6. CallTypes' /\ MemTypes'
        BY <1>1, <1>6, <2>3, <2>4, <2>5, InvParts DEF CallTypes, MemTypes
    <2>7. ASSUME NEW s \in Threads PROVE ThreadOK(s)'
        <3>1. CASE s = t
            BY <1>1, <1>3, <2>4, <3>1, IdleIsOK
        <3>2. CASE s # t
            <4>1. t \in Own
                BY <1>1, <1>4 DEF Own
            <4>2. s \notin Own
                BY <1>4, <3>2, <4>1, InvParts DEF Booting
            <4>3. pc[s] = "idle" \/ job[s].peer
                BY <4>2 DEF Own
            <4> QED
                BY <1>1, <1>2, <2>4, <3>2, <4>3, InvParts, PeerFrame DEF Threaded
        <3> QED
            BY <3>1, <3>2
    <2>8. MemOK' /\ ThrottleOK' /\ UntilOK' /\ Booting'
        BY <1>2, <1>6, <2>3 DEF MemOK, ThrottleOK, UntilOK, Booting, Loaded
    <2>9. cache' = {}
        BY <1>1, <1>4, InvParts DEF CacheInv
    <2>10. CacheInv' /\ Verdicts'
        BY <1>1, <2>9, InvParts DEF CacheInv, Verdicts
    <2> QED
        BY <1>2, <2>6, <2>7, <2>8, <2>10 DEF Inv, Memory, Calls, Threaded
<1> QED
    BY <1>5, <1>6 DEF LoadKeys

\* Calls die, and may leave an archive file behind.
LEMMA DieIs ==
    ASSUME Inv, NEW gone \in SUBSET Threads, Die(gone)
    PROVE  /\ Files' /\ Advance /\ file' \in Nat /\ now' = now
           /\ wronged' = wronged /\ overdue' = overdue
           /\ lock' \in Threads \cup {None}
           /\ pc' \in [Threads -> Places] /\ job' \in [Threads -> Jobs]
           /\ \A s \in gone : pc'[s] = "idle" /\ job'[s] = NoJob
           /\ \A s \in Threads \ gone : pc'[s] = pc[s] /\ job'[s] = job[s]
<1> DEFINE half == {[key |-> file, at |-> job[t].at] :
                       t \in {s \in gone : pc[s] = "rotate" /\ lock = None}}
<1>1. /\ now' = now /\ UNCHANGED <<file, lastKey, born, replaced>> /\ tokens' = tokens
      /\ wronged' = wronged /\ overdue' = overdue
      /\ lock' = IF lock \in gone THEN None ELSE lock
      /\ pc' = [t \in Threads |-> IF t \in gone THEN "idle" ELSE pc[t]]
      /\ job' = [t \in Threads |-> IF t \in gone THEN NoJob ELSE job[t]]
    BY DEF Die, verdicts
<1>2. \/ UNCHANGED <<archive, torn>>
      \/ \E a \in half \ torn : archive' = archive \cup {a} /\ UNCHANGED torn
      \/ \E a \in half \ archive : torn' = torn \cup {a} /\ UNCHANGED archive
    BY DEF Die
<1>3. ASSUME NEW a \in half PROVE a \in Entries /\ a.key = file
    <2>1. PICK s \in gone : pc[s] = "rotate" /\ a = [key |-> file, at |-> job[s].at]
        BY <1>3
    <2>2. s \in Threads /\ file > 0
        BY <2>1, InvParts DEF Threaded, ThreadOK, CallOK
    <2>3. job[s].at \in Times
        BY <2>2, InvParts, JobFields
    <2> QED
        BY <2>1, <2>2, <2>3, InvParts, Numbers DEF Entries
<1> HIDE DEF half
<1>4. Changed
    <2>1. archive \in SUBSET Entries /\ torn \in SUBSET Entries /\ archive \cap torn = {}
        BY InvParts DEF FileTypes
    <2>2. CASE UNCHANGED <<archive, torn>>
        BY <1>1, <2>1, <2>2 DEF Changed
    <2>3. CASE \E a \in half \ torn : archive' = archive \cup {a} /\ UNCHANGED torn
        BY <1>1, <1>3, <2>1, <2>3 DEF Changed
    <2>4. CASE \E a \in half \ archive : torn' = torn \cup {a} /\ UNCHANGED archive
        BY <1>1, <1>3, <2>1, <2>4 DEF Changed
    <2> QED
        BY <1>2, <2>2, <2>3, <2>4
<1>5. Files' /\ Advance
    BY <1>1, <1>4, InvParts, ChangedAdvances
<1>6. file' \in Nat
    BY <1>1, InvParts
<1>7. \A s \in Threads : pc'[s] \in Places /\ job'[s] \in Jobs
    <2>1. "idle" \in Places
        BY DEF Places
    <2> QED
        BY <1>1, <2>1, NoJobTypes, InvParts DEF CallTypes
<1>8. pc' \in [Threads -> Places] /\ job' \in [Threads -> Jobs]
    BY <1>1, <1>7
<1>9. lock' \in Threads \cup {None}
    BY <1>1, InvParts DEF CallTypes
<1> QED
    BY <1>1, <1>5, <1>6, <1>8, <1>9

\* Another process dies while it rotates.
LEMMA PeerCrashStep ==
    ASSUME Inv, NEW t \in Threads, PeerCrash(t)
    PROVE  Inv'
<1>1. /\ pc[t] = "rotate" /\ Die({t})
      /\ UNCHANGED <<up, mem, refreshVars, round, reloadMu, cacheVars>>
    BY DEF PeerCrash
<1>2. /\ Files' /\ Advance /\ now' = now /\ wronged' = wronged /\ overdue' = overdue
      /\ lock' \in Threads \cup {None}
    BY <1>1, DieIs
<1>3. Return(t)
    <2>1. /\ pc' = [s \in Threads |-> IF s \in {t} THEN "idle" ELSE pc[s]]
          /\ job' = [s \in Threads |-> IF s \in {t} THEN NoJob ELSE job[s]]
        BY <1>1 DEF Die
    <2>2. /\ pc \in [Threads -> Places] /\ job \in [Threads -> Jobs]
        BY InvParts DEF CallTypes
    <2> QED
        BY <2>1, <2>2 DEF Return
<1>4. Rest
    BY <1>1, <1>2 DEF Rest, refreshVars, verdicts
<1>5. MemTypes'
    BY <1>1, InvParts DEF MemTypes, refreshVars, cacheVars
<1>6. pc[t] \notin Refreshing /\ round # t
    BY <1>1, Leads DEF Refreshing
<1> QED
    BY <1>1, <1>2, <1>3, <1>4, <1>5, <1>6, CallReturns

\* The empty key set.
LEMMA NoSetTypes == NoSet \in KeySets
    BY DEF NoSet, KeySets

\* The process dies.
LEMMA CrashStep ==
    ASSUME Inv, Crash
    PROVE  Inv'
<1>1. /\ Die(Own) /\ up' = FALSE /\ mem' = NoSet
      /\ lastRefresh' = 0 /\ lastRefreshErr' = FALSE
      /\ lastFailureRefresh' = 0 /\ lastFailureErr' = FALSE
      /\ until' = 0 /\ failed' = FALSE
      /\ round' = None /\ reloadMu' = None /\ cache' = {} /\ recached' = {}
    BY DEF Crash
<1>2. Own \in SUBSET Threads
    BY DEF Own
<1>3. /\ Files' /\ Advance /\ file' \in Nat /\ now' = now
      /\ wronged' = wronged /\ overdue' = overdue
      /\ lock' \in Threads \cup {None}
      /\ pc' \in [Threads -> Places] /\ job' \in [Threads -> Jobs]
      /\ \A s \in Own : pc'[s] = "idle" /\ job'[s] = NoJob
      /\ \A s \in Threads \ Own : pc'[s] = pc[s] /\ job'[s] = job[s]
    BY <1>1, <1>2, DieIs
<1>4. CallTypes'
    BY <1>1, <1>3 DEF CallTypes
<1>5. MemTypes'
    <2>1. 0 \in 0 .. Interval
        BY InvParts
    <2>2. /\ up' \in BOOLEAN /\ lastRefreshErr' \in BOOLEAN /\ lastFailureErr' \in BOOLEAN
          /\ failed' \in BOOLEAN
        BY <1>1
    <2>3. cache' \in SUBSET [tok : Tokens, exp : Nat] /\ mem' \in KeySets
        BY <1>1, NoSetTypes
    <2> QED
        BY <1>1, <2>1, <2>2, <2>3 DEF MemTypes
<1>6. \A s \in Threads : reloadMu' # s /\ round' # s
    BY <1>1, KeysAssumption
<1>7. ASSUME NEW s \in Threads PROVE ThreadOK(s)'
    <2>1. CASE s \in Own
        BY <1>3, <1>6, <2>1, IdleIsOK
    <2>2. CASE s \notin Own
        <3>1. pc[s] = "idle" \/ job[s].peer
            BY <2>2 DEF Own
        <3> QED
            BY <1>3, <1>6, <2>2, <3>1, InvParts, PeerFrame DEF Threaded
    <2> QED
        BY <2>1, <2>2
<1>8. Own' = {}
    <2>1. ASSUME NEW s \in Threads, pc'[s] # "idle", ~job'[s].peer PROVE FALSE
        <3>1. s \notin Own
            BY <1>3, <2>1
        <3> QED
            BY <1>3, <2>1, <3>1 DEF Own
    <2> QED
        BY <2>1 DEF Own
<1>9. MemOK' /\ ThrottleOK' /\ UntilOK' /\ Booting'
    BY <1>1, <1>8 DEF MemOK, ThrottleOK, UntilOK, Booting
<1>10. CacheInv' /\ Verdicts'
    BY <1>1, <1>3, InvParts DEF CacheInv, Verdicts
<1> QED
    BY <1>3, <1>4, <1>5, <1>7, <1>9, <1>10 DEF Inv, Memory, Calls, Threaded

\* Time passes.
LEMMA TickStep ==
    ASSUME Inv, Tick
    PROVE  Inv'
<1>1. /\ now < MaxTime /\ now' = now + 1
      /\ \A t \in Threads : pc[t] # "idle" => now < job[t].start + MaxStall
      /\ lastRefresh' = Max({lastRefresh - 1, 0})
      /\ lastFailureRefresh' = Max({lastFailureRefresh - 1, 0})
      /\ until' = Max({until - 1, 0})
      /\ UNCHANGED <<fileVars, callVars, cacheVars, verdicts>>
      /\ lock' = lock /\ up' = up /\ mem' = mem /\ lastRefreshErr' = lastRefreshErr
      /\ lastFailureErr' = lastFailureErr /\ failed' = failed /\ round' = round
      /\ reloadMu' = reloadMu /\ tokens' = tokens
    BY DEF Tick
<1>2. /\ file' = file /\ archive' = archive /\ torn' = torn /\ lastKey' = lastKey
      /\ born' = born /\ replaced' = replaced /\ cache' = cache /\ recached' = recached
      /\ pc' = pc /\ job' = job /\ wronged' = wronged /\ overdue' = overdue
    BY <1>1 DEF fileVars, callVars, cacheVars, verdicts
<1>N. /\ now \in Nat /\ MaxTime \in Nat /\ MaxLifetime \in Nat /\ file \in Nat
      /\ \A k \in Key : born[k] \in Int /\ replaced[k] \in Int
      /\ \A a \in archive : a.at \in Nat
      /\ lastRefresh \in Nat /\ lastRefresh <= Interval /\ until \in Nat /\ until <= Interval
      /\ lastFailureRefresh \in Nat /\ lastFailureRefresh <= Interval
    BY InvParts, Numbers DEF MemTypes
<1>3. FileTypes'
    <2>1. now' \in Times
        BY <1>1, <1>N DEF Times
    <2> QED
        BY <1>1, <1>2, <2>1, InvParts DEF FileTypes
<1>4. FileInv'
    <2>1. \A k \in Key : k <= file => born[k] # Never /\ born[k] <= now'
        BY <1>1, <1>N, InvParts DEF FileInv
    <2>2. \A k \in Key : replaced[k] <= now'
        BY <1>1, <1>N, InvParts DEF FileInv
    <2> QED
        BY <1>1, <1>2, <2>1, <2>2, InvParts DEF FileInv
<1>5. Files'
    BY <1>3, <1>4 DEF Files
<1>6. Advance
    <2>1. \A a \in archive : Matters(a)' => Matters(a)
        BY <1>1, <1>N DEF Matters
    <2>2. \A set \in KeySets : Loaded(set) => Loaded(set)'
        BY <1>2, <2>1 DEF Loaded
    <2>3. \A tok \in Tokens : (Genuine(tok)' <=> Genuine(tok)) /\ (Late(tok)' <=> Late(tok))
        BY <1>2 DEF Genuine, Late, Stamp
    <2> QED
        BY <1>1, <1>2, <1>N, <2>2, <2>3 DEF Advance
<1>7. ASSUME NEW s \in Threads PROVE ThreadOK(s)'
    <2>1. job[s].start \in Nat /\ ThreadOK(s)
        BY InvParts, JobFields DEF Threaded
    <2>2. pc[s] # "idle" => now' <= job[s].start + MaxStall
        BY <1>1, <2>1, InvParts
    <2>3. Keeps(s)
        BY <1>1, <1>2 DEF Keeps
    <2> QED
        BY <1>1, <1>5, <1>6, <2>1, <2>2, <2>3, InvParts, ThreadFrame
<1>8. /\ lastRefresh' = IF lastRefresh > 0 THEN lastRefresh - 1 ELSE 0
      /\ lastFailureRefresh' = IF lastFailureRefresh > 0 THEN lastFailureRefresh - 1 ELSE 0
      /\ until' = IF until > 0 THEN until - 1 ELSE 0
    <2>1. PICK a \in Nat : a = lastRefresh
        BY <1>N
    <2>2. PICK b \in Nat : b = lastFailureRefresh
        BY <1>N
    <2>3. PICK c \in Nat : c = until
        BY <1>N
    <2>4. /\ Max({a - 1, 0}) = IF a > 0 THEN a - 1 ELSE 0
          /\ Max({b - 1, 0}) = IF b > 0 THEN b - 1 ELSE 0
          /\ Max({c - 1, 0}) = IF c > 0 THEN c - 1 ELSE 0
        BY CountDown
    <2> QED
        BY <1>1, <2>1, <2>2, <2>3, <2>4
<1>9. /\ lastRefresh' \in 0 .. Interval /\ lastFailureRefresh' \in 0 .. Interval
      /\ until' \in 0 .. Interval
    BY <1>8, <1>N, InvParts
<1>10. CallTypes' /\ MemTypes'
    BY <1>1, <1>2, <1>9, InvParts DEF CallTypes, MemTypes
<1>11. MemOK'
    BY <1>1, <1>6, InvParts, LoadedFrame
<1>12. ThrottleOK'
    <2>1. lastRefresh' > 0 => lastRefresh > 0 /\ now' + lastRefresh' = now + lastRefresh
        BY <1>1, <1>8, <1>N
    <2> QED
        BY <1>1, <1>2, <2>1, InvParts DEF ThrottleOK
<1>13. UntilOK'
    <2>1. until' > 0 => until > 0 /\ now' + until' = now + until
        BY <1>1, <1>8, <1>N
    <2> QED
        BY <1>1, <1>2, <2>1, InvParts DEF UntilOK
<1>14. Booting' /\ Verdicts'
    BY <1>1, <1>2, InvParts DEF Booting, Own, Verdicts
<1>15. Stays({"installed", "sign"})
    BY <1>2 DEF Stays
<1>16. CacheInv'
    BY <1>1, <1>2, <1>5, <1>6, <1>15, InvParts, CacheFrame
<1> QED
    BY <1>5, <1>7, <1>10, <1>11, <1>12, <1>13, <1>14, <1>16 DEF Inv, Memory, Calls, Threaded

-----------------------------------------------------------------------------
(* Theorems                                                                *)

\* The program starts in order.
LEMMA InitOK == Init => Inv
<1>1. SUFFICES ASSUME Init PROVE Inv
    OBVIOUS
<1>2. /\ now = 0 /\ file = 0 /\ archive = {} /\ torn = {} /\ lastKey = 0
      /\ born = [k \in Key |-> Never] /\ replaced = [k \in Key |-> Never]
      /\ lock = None /\ up = FALSE /\ mem = NoSet
      /\ lastRefresh = 0 /\ lastRefreshErr = FALSE
      /\ lastFailureRefresh = 0 /\ lastFailureErr = FALSE
      /\ until = 0 /\ failed = FALSE /\ round = None /\ reloadMu = None
      /\ cache = {} /\ recached = {} /\ tokens = {} /\ wronged = {} /\ overdue = {}
      /\ pc = [t \in Threads |-> "idle"] /\ job = [t \in Threads |-> NoJob]
    BY <1>1 DEF Init
<1>3. /\ MaxTime \in Nat /\ MaxKeys \in Nat /\ Interval \in Nat /\ None \notin Threads
      /\ Key = 1 .. MaxKeys
    BY KeysAssumption DEF Key
<1>4. FileTypes
    <2>1. 0 \in Times /\ 0 \in 0 .. MaxKeys
        BY <1>3 DEF Times
    <2> QED
        BY <1>2, <2>1 DEF FileTypes
<1>5. FileInv
    <2>1. \A k \in Key : ~(k <= 0) /\ ~(k < 0) /\ k \in Nat
        BY <1>3
    <2>2. \A k \in Key : replaced[k] = Never /\ Never <= 0
        BY <1>2 DEF Never
    <2>3. \A j, k \in Key : ~(k <= file)
        BY <1>2, <2>1
    <2> QED
        BY <1>2, <2>1, <2>2, <2>3 DEF FileInv
<1>6. CallTypes
    BY <1>2, NoJobTypes DEF CallTypes, Places
<1>7. MemTypes
    <2>1. 0 \in 0 .. Interval
        BY <1>3
    <2>2. /\ up \in BOOLEAN /\ lastRefreshErr \in BOOLEAN /\ lastFailureErr \in BOOLEAN
          /\ failed \in BOOLEAN
        BY <1>2
    <2>3. cache \in SUBSET [tok : Tokens, exp : Nat] /\ mem \in KeySets
        BY <1>2, NoSetTypes
    <2> QED
        BY <1>2, <2>1, <2>2, <2>3 DEF MemTypes
<1>8. ASSUME NEW s \in Threads PROVE ThreadOK(s)
    <2>1. pc[s] = "idle" /\ job[s] = NoJob /\ NoJob.op = "none" /\ NoJob.peer = FALSE
        BY <1>2 DEF NoJob
    <2>2. OpOK(s)
        BY <2>1 DEF OpOK
    <2>3. CallOK(s)
        BY <1>2, <1>3, <2>1 DEF CallOK, Refreshing
    <2> QED
        BY <2>1, <2>2, <2>3 DEF ThreadOK, SnapOK, AgeOK, PutOK, MissOK
<1>9. Booting
    BY <1>2 DEF Booting, Own
<1>10. MemOK /\ ThrottleOK /\ UntilOK /\ CacheInv /\ Verdicts
    BY <1>2 DEF MemOK, ThrottleOK, UntilOK, CacheInv, Verdicts
<1> QED
    BY <1>4, <1>5, <1>6, <1>7, <1>8, <1>9, <1>10
    DEF Inv, Files, Memory, Calls, Threaded

\* Every step keeps the invariant.
LEMMA NextOK == Inv /\ [Next]_vars => Inv'
<1>1. SUFFICES ASSUME Inv, [Next]_vars PROVE Inv'
    OBVIOUS
<1>2. ASSUME NEW t \in Threads, Call(t) PROVE Inv'
    BY <1>1, <1>2, CreateKeyStep, LoadKeysStep, RoutineStep, AfterMissStep, SnapshotStep,
       InstallStep, RefreshedStep, VerifyOnceStep, CachePutStep, SignTokenStep, SignResetStep,
       RotateKeyStep
    DEF Call
<1>3. ASSUME NEW t \in Threads, NEW peer \in BOOLEAN,
             Boot(t, peer) \/ Mint(t, peer) \/ Rotate(t, peer)
      PROVE  Inv'
    BY <1>1, <1>3, BootStep, MintStep, RotateStep
<1>4. ASSUME NEW t \in Threads,
             Touch(t) \/ PeerCrash(t) \/ \E tok \in tokens : VerifyToken(t, tok)
      PROVE  Inv'
    <2>1. CASE Touch(t)
        BY <1>1, <2>1, TouchStep
    <2>2. CASE PeerCrash(t)
        BY <1>1, <2>2, PeerCrashStep
    <2>3. CASE \E tok \in tokens : VerifyToken(t, tok)
        BY <1>1, <2>3, VerifyTokenStep
    <2> QED
        BY <1>4, <2>1, <2>2, <2>3
<1>5. ASSUME NEW k \in Key, Stray(k) PROVE Inv'
    BY <1>1, <1>5, StrayStep
<1>6. CASE Crash
    BY <1>1, <1>6, CrashStep
<1>7. CASE Tick
    BY <1>1, <1>7, TickStep
<1>8. CASE UNCHANGED vars
    BY <1>1, <1>8, StutterStep
<1> QED
    BY <1>1, <1>2, <1>3, <1>4, <1>5, <1>6, <1>7, <1>8 DEF Next

\* The invariant holds throughout.
LEMMA InvHolds == Spec => []Inv
    BY InitOK, NextOK, PTL DEF Spec

\* Types, and no archive file is both whole and torn: archiveKey never writes over either.
THEOREM TypeCorrect == Spec => []TypeOK
<1>1. Inv => TypeOK
    <2>1. SUFFICES ASSUME Inv PROVE TypeOK
        OBVIOUS
    <2>2. file \in Key \cup {0} /\ lastKey \in Key \cup {0}
        BY <2>1, InvParts, Numbers DEF FileTypes
    <2>3. \A c \in cache : c.tok \in Tokens /\ c.exp \in Nat
        BY <2>1, InvParts DEF MemTypes
    <2> QED
        BY <2>1, <2>2, <2>3, InvParts DEF TypeOK, FileTypes, CallTypes, MemTypes
<1> QED
    BY <1>1, InvHolds, PTL

\* VerifyToken never calls a genuine token invalid whose key it had two intervals to learn of.
THEOREM TokensSurviveRotations == Spec => []RotationKeepsTokens
<1>1. Inv => RotationKeepsTokens
    BY DEF Inv, Verdicts, RotationKeepsTokens
<1> QED
    BY <1>1, InvHolds, PTL

\* No later token of a replaced key is accepted two intervals on, and no such verdict outlives
\* the cache's limit.
THEOREM RetiredKeysDie == Spec => []RetiredKeyDies
<1>1. Inv => RetiredKeyDies
    BY DEF Inv, Verdicts, CacheInv, RetiredKeyDies
<1> QED
    BY <1>1, InvHolds, PTL

\* A finished refresh leaves no verdict of a key it saw retired, but those put back meanwhile.
THEOREM RefreshesForget == Spec => []RefreshForgets
<1>1. ASSUME Inv PROVE RefreshForgets
    <2>1. SUFFICES ASSUME reloadMu = None, NEW c \in cache, Late(c.tok), c.tok \notin recached
                   PROVE  mem.current = c.tok.key
        BY DEF RefreshForgets
    <2>2. \A t \in Threads : pc[t] \notin {"installed", "sign"}
        BY <1>1, <2>1, KeysAssumption, InvParts DEF Threaded, ThreadOK, CallOK, Refreshing
    <2>3. Backed(c.tok) /\ c.tok.key <= file /\ c.tok \in Tokens
        BY <1>1, <2>1, <2>2, InvParts DEF CacheInv, MemTypes
    <2>4. PICK tok \in Tokens : tok = c.tok
        BY <2>3
    <2>5. ~\E a \in archive : a.key = tok.key /\ tok.iat <= a.at
        BY <1>1, <2>1, <2>3, <2>4, InvParts, LateIs
    <2> QED
        BY <2>3, <2>4, <2>5 DEF Backed
<1> QED
    BY <1>1, InvHolds, PTL
=============================================================================

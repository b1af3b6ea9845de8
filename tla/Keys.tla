-------------------------------- MODULE Keys --------------------------------
(***************************************************************************)
(* Signing keys and the tokens they vouch for: core/pow/key.go, jwt.go,    *)
(* the verified-token cache of tokencache.go and the refreshes of          *)
(* challenge.go.                                                           *)
(*                                                                         *)
(* Replicas share a key file, an archive of retired keys and a file lock.  *)
(* Each keeps a copy of the key set, refreshed at most once an interval,   *)
(* and a cache of verified tokens: those of one replica are modelled, and  *)
(* of its peers the calls that change the files or sign.  All that a call  *)
(* does while it holds the file lock is one action, as nobody looks at the *)
(* files without it, except a signer that swaps the key set meanwhile; what*)
(* another call or another process can come between is an action of its    *)
(* own.                                                                    *)
(*                                                                         *)
(* Keys are numbered in the order in which they are made.  A token is its  *)
(* key and its time of issue; its bindings and its difficulty are verdicts *)
(* on the request and left out.                                            *)
(***************************************************************************)
EXTENDS Integers, FiniteSets, FiniteSetsExt

CONSTANTS
    Threads,        \* the calls that may be in progress at once
    Interval,       \* keyRefreshInterval
    TokenTTL,       \* token_ttl
    MaxLifetime,    \* maxAcceptedTokenLifetime
    CacheValidity,  \* cacheMaxValidity
    CacheCap,       \* maxCacheEntries
    MaxStall,       \* no call takes longer
    MaxKeys, MaxTime, MaxTokens, MaxRotations, MaxFaults,   \* bound the model
    None

ASSUME KeysAssumption ==
    /\ Interval \in Nat \ {0} /\ CacheValidity \in Nat \ {0} /\ MaxStall \in Nat
    /\ TokenTTL \in Nat \ {0} /\ MaxLifetime \in Nat /\ TokenTTL <= MaxLifetime
    /\ CacheCap \in Nat \ {0}
    /\ MaxKeys \in Nat \ {0} /\ MaxTime \in Nat /\ MaxTokens \in Nat
    /\ MaxRotations \in Nat /\ MaxFaults \in Nat
    /\ None \notin Threads

Key    == 1..MaxKeys
Times  == 0..MaxTime
Tokens == [key : Key, iat : Times]
Never  == -1

VARIABLES
    now,
    file, archive, torn,    \* the key file, the archived keys, archive files without their contents
    lock,           \* who holds the file lock between two actions
    lastKey,        \* the last key made
    up,             \* whether the replica serves
    mem,            \* Manager.keys: the signing key and the retirement of the others
    lastRefresh, lastFailureRefresh, until,     \* what is left of the interval after lastRefresh and
                    \* lastFailureRefresh, and until routineRefreshUntil
    lastRefreshErr, lastFailureErr, failed,     \* whether there is an error; failed: routineRefreshFailed
    round,          \* routineRefresh: who leads the round
    reloadMu,       \* who holds it between two actions
    cache,          \* Manager.cache
    pc, job,        \* the calls in progress
    tokens,         \* in circulation
    rotations, faults,  \* so far, bound the model
    born, replaced, \* ghost: when a key became current, when it was replaced
    recached,       \* ghost: tokens cached after a reset on the word of the keys before it
    wronged,        \* ghost: genuine tokens called invalid
    overdue         \* ghost: tokens accepted on the word of a key that was long retired

fileVars    == <<file, archive, torn, lastKey, born, replaced>>
refreshVars == <<lastRefresh, lastRefreshErr, lastFailureRefresh, lastFailureErr, until, failed>>
cacheVars   == <<cache, recached>>
callVars    == <<pc, job>>
boundVars   == <<rotations, faults>>
verdicts    == <<wronged, overdue>>
vars == <<now, fileVars, lock, up, mem, refreshVars, round, reloadMu, cacheVars, callVars,
          tokens, boundVars, verdicts>>

NoJob == [op |-> "none", peer |-> FALSE, tok |-> None, start |-> 0, at |-> 0, snap |-> None, stale |-> FALSE]
NoSet == [current |-> 0, retired |-> [k \in Key |-> Never]]

Init ==
    /\ now = 0
    /\ file = 0 /\ archive = {} /\ torn = {} /\ lastKey = 0
    /\ born = [k \in Key |-> Never] /\ replaced = [k \in Key |-> Never]
    /\ lock = None
    /\ up = FALSE
    /\ mem = NoSet
    /\ lastRefresh = 0 /\ lastRefreshErr = FALSE
    /\ lastFailureRefresh = 0 /\ lastFailureErr = FALSE
    /\ until = 0 /\ failed = FALSE
    /\ round = None
    /\ reloadMu = None
    /\ cache = {} /\ recached = {}
    /\ pc = [t \in Threads |-> "idle"]
    /\ job = [t \in Threads |-> NoJob]
    /\ tokens = {}
    /\ rotations = 0 /\ faults = 0
    /\ wronged = {} /\ overdue = {}

-----------------------------------------------------------------------------
(* Files                                                                   *)

\* Archives past the horizon are skipped before they are read.
Matters(a) == now <= a.at + MaxLifetime

\* Faulty variant: of several archives of one key the earliest counts.
LatestFirst(stamps) == Min(stamps)

\* The retirement that counts when a key was archived more than once.
Latest(stamps) == Max(stamps)

\* What loadKeySetSnapshot returns.
LoadKeySet ==
    [current |-> file,
     retired |-> [k \in Key |-> LET stamps == {a.at : a \in {b \in archive : b.key = k /\ Matters(b)}}
                                IN  IF stamps = {} THEN Never ELSE Latest(stamps)]]

\* The archive has a file that does not parse.
TornArchive == \E a \in torn : Matters(a)

Fault == faults < MaxFaults /\ faults' = faults + 1

\* generateKey looks again once it has the lock.
Creates == file = 0

\* atomicReplaceKey.
Publish ==
    /\ lastKey < MaxKeys
    /\ file' = lastKey + 1 /\ lastKey' = lastKey + 1
    /\ born' = [born EXCEPT ![lastKey + 1] = now]
    /\ replaced' = [k \in Key |-> IF k = file THEN now ELSE replaced[k]]

\* The time up to which a replaced key vouches.
Stamp(k) ==
    LET stamps == {a.at : a \in {b \in archive : b.key = k}} IN
    IF stamps = {} THEN replaced[k] ELSE Max(stamps)

-----------------------------------------------------------------------------
(* Calls                                                                   *)

Own == {t \in Threads : pc[t] # "idle" /\ ~job[t].peer}

Begin(t, peer, op, place, tok) ==
    /\ pc[t] = "idle"
    /\ pc' = [pc EXCEPT ![t] = place]
    /\ job' = [job EXCEPT ![t] = [NoJob EXCEPT !.op = op, !.peer = peer, !.tok = tok,
                                               !.start = now, !.at = now]]

Go(t, place) == pc' = [pc EXCEPT ![t] = place]

Return(t) ==
    /\ pc' = [pc EXCEPT ![t] = "idle"]
    /\ job' = [job EXCEPT ![t] = NoJob]

-----------------------------------------------------------------------------
(* NewManagerFromFiles                                                     *)

\* LoadOrCreateKey looks for the file without the lock.
Boot(t, peer) ==
    /\ ~peer => ~up /\ Own = {}
    /\ peer => file = 0
    /\ Begin(t, peer, "boot", IF file = 0 THEN "create" ELSE "load", None)
    /\ UNCHANGED <<now, fileVars, lock, up, mem, refreshVars, round, reloadMu, cacheVars, tokens,
                   boundVars, verdicts>>

\* What a peer does after it has changed the files shows nowhere else.
Proceed(t, place) ==
    \/ job[t].peer /\ Return(t)
    \/ ~job[t].peer /\ Go(t, place) /\ UNCHANGED job

CreateKey(t) ==
    /\ pc[t] = "create" /\ lock = None
    /\ \/ Creates /\ Publish /\ Proceed(t, "load") /\ UNCHANGED faults
       \/ ~Creates /\ Proceed(t, "load") /\ UNCHANGED <<faults, file, lastKey, born, replaced>>
       \/ Fault /\ Return(t) /\ UNCHANGED <<file, lastKey, born, replaced>>
    /\ UNCHANGED <<now, archive, torn, lock, up, mem, refreshVars, round, reloadMu, cacheVars,
                   tokens, rotations, verdicts>>

LoadKeys(t) ==
    /\ pc[t] = "load" /\ lock = None
    /\ \/ /\ ~TornArchive
          /\ up' = TRUE
          /\ mem' = LoadKeySet
          /\ lastRefresh' = Interval
          /\ until' = Interval
          /\ UNCHANGED <<lastRefreshErr, lastFailureRefresh, lastFailureErr, failed, faults>>
       \/ /\ (TornArchive /\ UNCHANGED faults) \/ Fault
          /\ UNCHANGED <<up, mem, refreshVars>>
    /\ Return(t)
    /\ UNCHANGED <<now, fileVars, lock, round, reloadMu, cacheVars, tokens, rotations, verdicts>>

-----------------------------------------------------------------------------
(* refreshKeys                                                             *)

\* rememberRoutineRefresh.
Remember(err) ==
    /\ failed' = err
    /\ until' = Interval

\* A token that was signed by its key in its time.
Genuine(tok) == replaced[tok.key] # Never => tok.iat <= Stamp(tok.key)
Settled(tok, start) == start >= born[tok.key] + 2 * Interval + MaxStall

\* VerifyToken calls the token invalid.
Reject(t) ==
    LET tok == job[t].tok IN
    /\ wronged' = IF Genuine(tok) /\ Settled(tok, job[t].start) /\ now < tok.iat + TokenTTL
                  THEN wronged \cup {tok} ELSE wronged
    /\ UNCHANGED overdue

\* The callers of a refresh go on: a verification consults the cache after a routine
\* one and tries again after a miss, a redemption whose MAC does not match refreshes
\* once more, the others are done.  Whoever waits for the round goes with its leader.
Resume(t, err) ==
    LET leads == round = t
        party == {s \in Threads : s = t \/ (leads /\ pc[s] = "await")}
        next == CASE err -> {"idle"}
                  [] ~err /\ job[t].op = "touch" -> {"idle", "miss"}
                  [] ~err /\ job[t].op \in {"retouch", "rotate"} -> {"idle"}
                  [] ~err /\ job[t].op = "verify" -> {IF leads THEN "cached" ELSE "again"}
    IN
    \E place \in next :
        /\ pc' = [s \in Threads |-> IF s \in party THEN place ELSE pc[s]]
        /\ job' = [s \in Threads |-> IF s \notin party THEN job[s]
                                     ELSE IF place = "idle" THEN NoJob
                                     ELSE IF place = "miss" THEN [job[s] EXCEPT !.op = "retouch", !.snap = None]
                                     ELSE [job[s] EXCEPT !.snap = None]]
        /\ round' = IF leads THEN None ELSE round

\* Faulty variant: the error of the last attempt is not repeated within the interval.
ThrottledErrForgets == FALSE

\* What a routine refresh answers within the interval.
ThrottledErr == lastRefreshErr

\* Within the interval of the last attempt of its kind the answer is that attempt's
\* error, otherwise the files are read under reloadMu.
Routine(t) ==
    /\ pc[t] = "routine" /\ reloadMu = None
    /\ \/ /\ lastRefresh > 0
          /\ Remember(ThrottledErr)
          /\ Resume(t, ThrottledErr)
          /\ UNCHANGED <<lastRefresh, reloadMu>>
       \/ /\ lastRefresh = 0
          /\ lastRefresh' = Interval
          /\ reloadMu' = t
          /\ Go(t, "snap-routine")
          /\ UNCHANGED <<until, failed, round, job>>
    /\ UNCHANGED <<now, fileVars, lock, up, mem, lastRefreshErr, lastFailureRefresh, lastFailureErr,
                   cacheVars, tokens, boundVars, verdicts>>

AfterMiss(t) ==
    /\ pc[t] = "miss" /\ reloadMu = None
    /\ \/ /\ lastFailureRefresh > 0
          /\ \/ (lastFailureErr \/ job[t].op = "retouch") /\ UNCHANGED verdicts
             \/ ~lastFailureErr /\ job[t].op = "verify" /\ Reject(t)
          /\ Return(t)
          /\ UNCHANGED <<lastFailureRefresh, reloadMu>>
       \/ /\ lastFailureRefresh = 0
          /\ lastFailureRefresh' = Interval
          /\ reloadMu' = t
          /\ Go(t, "snap-miss")
          /\ UNCHANGED <<job, verdicts>>
    /\ UNCHANGED <<now, fileVars, lock, up, mem, lastRefresh, lastRefreshErr, lastFailureErr, until,
                   failed, round, cacheVars, tokens, boundVars>>

\* loadKeySetSnapshot; keySetMatches.  Rotate comes here without a throttle.
Snapshot(t) ==
    /\ lock = None
    /\ \/ pc[t] \in {"snap-routine", "snap-miss"}
       \/ pc[t] = "rotated" /\ reloadMu = None
    /\ \/ /\ ~TornArchive
          /\ job' = [job EXCEPT ![t].snap = LoadKeySet]
          /\ Go(t, IF LoadKeySet = mem THEN "same" ELSE "install")
          /\ reloadMu' = t
          /\ UNCHANGED <<lastRefreshErr, lastFailureErr, until, failed, round, faults>>
       \/ /\ (TornArchive /\ UNCHANGED faults) \/ Fault
          /\ lastRefreshErr' = (pc[t] = "snap-routine" \/ lastRefreshErr)
          /\ lastFailureErr' = (pc[t] = "snap-miss" \/ lastFailureErr)
          /\ Remember(TRUE)
          /\ reloadMu' = None
          /\ Resume(t, TRUE)
    /\ UNCHANGED <<now, fileVars, lock, up, mem, lastRefresh, lastFailureRefresh, cacheVars, tokens,
                   rotations, verdicts>>

\* setRetiredKeys swaps the set ...
SwapKeys(set) ==
    /\ mem' = set
    /\ job' = [s \in Threads |-> IF pc[s] = "put" THEN [job[s] EXCEPT !.stale = TRUE] ELSE job[s]]

Install(t) ==
    /\ pc[t] = "install"
    /\ SwapKeys(job[t].snap)
    /\ Go(t, "installed")
    /\ UNCHANGED <<now, fileVars, lock, up, refreshVars, round, reloadMu, cacheVars, tokens,
                   boundVars, verdicts>>

\* Faulty variant: verdicts of the old keys stay.
ResetsNothing == UNCHANGED cacheVars

\* ... and then clears the cache.
ResetCache == cache' = {} /\ recached' = {}

\* The rest of reloadKeysLocked.
Refreshed(t) ==
    /\ \/ pc[t] = "same" /\ UNCHANGED cacheVars
       \/ pc[t] = "installed" /\ ResetCache
    /\ lastRefresh' = Interval
    /\ lastRefreshErr' = FALSE
    /\ lastFailureErr' = FALSE
    /\ Remember(FALSE)
    /\ reloadMu' = None
    /\ Resume(t, FALSE)
    /\ UNCHANGED <<now, fileVars, lock, up, mem, lastFailureRefresh, tokens, boundVars, verdicts>>

\* IssueStatelessWithSpec and redeemStateless refresh before they use a secret, the
\* latter again when no secret matches.
Touch(t) ==
    /\ up
    /\ Begin(t, FALSE, "touch", "routine", None)
    /\ UNCHANGED <<now, fileVars, lock, up, mem, refreshVars, round, reloadMu, cacheVars, tokens,
                   boundVars, verdicts>>

-----------------------------------------------------------------------------
(* VerifyToken                                                             *)

\* refreshKeysBeforeTokenAccept: one caller leads the refresh, the others wait for it.
VerifyToken(t, tok) ==
    /\ up /\ pc[t] = "idle"
    /\ \/ until > 0 /\ failed /\ UNCHANGED <<callVars, round>>
       \/ until > 0 /\ ~failed /\ Begin(t, FALSE, "verify", "cached", tok) /\ UNCHANGED round
       \/ until = 0 /\ round # None /\ Begin(t, FALSE, "verify", "await", tok) /\ UNCHANGED round
       \/ /\ until = 0 /\ round = None
          /\ round' = t
          /\ Begin(t, FALSE, "verify", "routine", tok)
    /\ UNCHANGED <<now, fileVars, lock, up, mem, refreshVars, reloadMu, cacheVars, tokens, boundVars,
                   verdicts>>

\* verifyTokenOnce: the current key vouches for any token, a retired one for those
\* from before its retirement.
Vouches(set, tok) ==
    /\ now < tok.iat + TokenTTL
    /\ \/ set.current = tok.key
       \/ /\ set.retired[tok.key] # Never
          /\ now <= set.retired[tok.key] + MaxLifetime
          /\ tok.iat <= set.retired[tok.key]
          /\ tok.iat + TokenTTL <= set.retired[tok.key] + MaxLifetime

\* A token that a replaced key signed after its time.
Late(tok) == replaced[tok.key] # Never /\ tok.iat > Stamp(tok.key)

CacheHit(tok) == \E c \in cache : c.tok = tok /\ now < c.exp

\* The cache, and verifyTokenOnce with the clock that was read for both.
VerifyOnce(t) ==
    LET tok == job[t].tok IN
    /\ pc[t] \in {"cached", "again"}
    /\ \/ pc[t] = "cached" /\ CacheHit(tok) /\ Return(t) /\ UNCHANGED verdicts
       \/ /\ pc[t] = "cached" => ~CacheHit(tok)
          /\ Vouches(mem, tok)
          /\ overdue' = IF Late(tok) /\ job[t].start >= replaced[tok.key] + 2 * Interval + MaxStall
                        THEN overdue \cup {tok} ELSE overdue
          /\ Go(t, "put")
          /\ job' = [job EXCEPT ![t].at = IF pc[t] = "cached" THEN now ELSE @]
          /\ UNCHANGED wronged
       \/ /\ pc[t] = "cached" /\ ~CacheHit(tok) /\ ~Vouches(mem, tok)
          /\ Go(t, "miss")
          /\ job' = [job EXCEPT ![t].at = now]
          /\ UNCHANGED verdicts
       \/ pc[t] = "again" /\ ~Vouches(mem, tok) /\ Return(t) /\ Reject(t)
    /\ UNCHANGED <<now, fileVars, lock, up, mem, refreshVars, round, reloadMu, cacheVars, tokens,
                   boundVars>>

CachedUntil(tok, at) ==
    IF tok.iat + TokenTTL < at + CacheValidity THEN tok.iat + TokenTTL ELSE at + CacheValidity

CacheFull == Cardinality(cache) >= CacheCap

\* tokenCache.put, after whatever has happened since the keys were read.
CachePut(t) ==
    LET tok == job[t].tok
        others == IF CacheFull THEN {} ELSE {c \in cache : c.tok # tok}
    IN
    /\ pc[t] = "put"
    /\ cache' = others \cup {[tok |-> tok, exp |-> CachedUntil(tok, job[t].at)]}
    /\ recached' = IF job[t].stale THEN recached \cup {tok} ELSE recached
    /\ Return(t)
    /\ UNCHANGED <<now, fileVars, lock, up, mem, refreshVars, round, reloadMu, tokens, boundVars, verdicts>>

-----------------------------------------------------------------------------
(* mintTokenWithSpec, signToken                                            *)

TokensLeft == Cardinality(tokens) + Cardinality({t \in Threads : job[t].op = "mint"}) < MaxTokens

\* The time of issue is read before the locks are taken.
Mint(t, peer) ==
    /\ (peer => file # 0) /\ (~peer => up) /\ TokensLeft
    /\ Begin(t, peer, "mint", "locks", None)
    /\ UNCHANGED <<now, fileVars, lock, up, mem, refreshVars, round, reloadMu, cacheVars, tokens,
                   boundVars, verdicts>>

SignWith(t, k) ==
    /\ tokens' = tokens \cup {[key |-> k, iat |-> job[t].at]}
    /\ Return(t)

\* Both locks are held until the token is signed.
SignToken(t) ==
    LET changed == mem.current # file IN
    /\ pc[t] = "locks" /\ lock = None /\ (job[t].peer \/ reloadMu = None)
    /\ \/ /\ job[t].peer \/ ~changed
          /\ SignWith(t, file)
          /\ UNCHANGED <<mem, reloadMu, lock, faults>>
       \/ /\ ~job[t].peer /\ changed /\ ~TornArchive
          /\ SwapKeys(LoadKeySet)
          /\ Go(t, "sign")
          /\ reloadMu' = t /\ lock' = t
          /\ UNCHANGED <<tokens, faults>>
       \/ /\ (changed /\ TornArchive /\ UNCHANGED faults) \/ Fault
          /\ Return(t)
          /\ UNCHANGED <<mem, reloadMu, lock, tokens>>
    /\ UNCHANGED <<now, fileVars, up, refreshVars, round, cacheVars, rotations, verdicts>>

SignReset(t) ==
    /\ pc[t] = "sign"
    /\ ResetCache
    /\ SignWith(t, file)
    /\ reloadMu' = None /\ lock' = None
    /\ UNCHANGED <<now, fileVars, up, mem, refreshVars, round, boundVars, verdicts>>

-----------------------------------------------------------------------------
(* Rotate, RotateKey                                                       *)

\* The time of retirement is read before the lock is taken.
Rotate(t, peer) ==
    /\ lastKey < MaxKeys
    /\ (peer => file # 0) /\ (~peer => up) /\ rotations < MaxRotations
    /\ rotations' = rotations + 1
    /\ Begin(t, peer, "rotate", "rotate", None)
    /\ UNCHANGED <<now, fileVars, lock, up, mem, refreshVars, round, reloadMu, cacheVars, tokens,
                   faults, verdicts>>

\* archiveKey compares a file of the same name with the key.
Collides(entry) == entry \in torn

\* Under the lock: archive, then replace.  Each may fail, the replacement also after
\* the rename.
RotateKey(t) ==
    LET entry == [key |-> file, at |-> job[t].at] IN
    /\ pc[t] = "rotate" /\ lock = None
    /\ \/ /\ ~Collides(entry)
          /\ archive' = archive \cup {entry}
          /\ \/ Publish /\ Proceed(t, "rotated") /\ UNCHANGED faults
             \/ Publish /\ Fault /\ Return(t)
             \/ Fault /\ Return(t) /\ UNCHANGED <<file, lastKey, born, replaced>>
       \/ /\ (Collides(entry) /\ UNCHANGED faults) \/ Fault
          /\ Return(t)
          /\ UNCHANGED <<archive, file, lastKey, born, replaced>>
    /\ UNCHANGED <<now, torn, lock, up, mem, refreshVars, round, reloadMu, cacheVars, tokens,
                   rotations, verdicts>>

-----------------------------------------------------------------------------
(* The environment                                                         *)

\* A replaced key signs a token all the same, somewhere else.
Stray(k) ==
    /\ replaced[k] # Never /\ TokensLeft
    /\ tokens' = tokens \cup {[key |-> k, iat |-> now]}
    /\ UNCHANGED <<now, fileVars, lock, up, mem, refreshVars, round, reloadMu, cacheVars, callVars,
                   boundVars, verdicts>>

\* Calls die with their process.  One that was rotating may leave an archive file
\* behind, with its contents or without.
Die(gone) ==
    LET half == {[key |-> file, at |-> job[t].at] : t \in {s \in gone : pc[s] = "rotate" /\ lock = None}} IN
    /\ Fault
    /\ \/ UNCHANGED <<archive, torn>>
       \/ \E a \in half \ torn : archive' = archive \cup {a} /\ UNCHANGED torn
       \/ \E a \in half \ archive : torn' = torn \cup {a} /\ UNCHANGED archive
    /\ lock' = IF lock \in gone THEN None ELSE lock
    /\ pc' = [t \in Threads |-> IF t \in gone THEN "idle" ELSE pc[t]]
    /\ job' = [t \in Threads |-> IF t \in gone THEN NoJob ELSE job[t]]
    /\ UNCHANGED <<now, file, lastKey, born, replaced, tokens, rotations, verdicts>>

\* Only while it rotates does it show.
PeerCrash(t) ==
    /\ job[t].peer /\ pc[t] = "rotate"
    /\ Die({t})
    /\ UNCHANGED <<up, mem, refreshVars, round, reloadMu, cacheVars>>

Crash ==
    /\ up
    /\ Die(Own)
    /\ up' = FALSE /\ mem' = NoSet
    /\ lastRefresh' = 0 /\ lastRefreshErr' = FALSE
    /\ lastFailureRefresh' = 0 /\ lastFailureErr' = FALSE
    /\ until' = 0 /\ failed' = FALSE
    /\ round' = None /\ reloadMu' = None
    /\ cache' = {} /\ recached' = {}

\* Time passes; no call outlives MaxStall.
Tick ==
    /\ now < MaxTime
    /\ \A t \in Threads : pc[t] # "idle" => now < job[t].start + MaxStall
    /\ now' = now + 1
    /\ lastRefresh' = Max({lastRefresh - 1, 0}) /\ lastFailureRefresh' = Max({lastFailureRefresh - 1, 0})
    /\ until' = Max({until - 1, 0})
    /\ UNCHANGED <<fileVars, lock, up, mem, lastRefreshErr, lastFailureErr, failed, round, reloadMu, cacheVars, callVars, tokens,
                   boundVars, verdicts>>

Call(t) ==
    \/ CreateKey(t) \/ LoadKeys(t)
    \/ Routine(t) \/ AfterMiss(t) \/ Snapshot(t) \/ Install(t) \/ Refreshed(t)
    \/ VerifyOnce(t) \/ CachePut(t)
    \/ SignToken(t) \/ SignReset(t)
    \/ RotateKey(t)

Next ==
    \/ \E t \in Threads : Call(t)
    \/ \E t \in Threads, peer \in BOOLEAN : Boot(t, peer) \/ Mint(t, peer) \/ Rotate(t, peer)
    \/ \E t \in Threads : Touch(t) \/ PeerCrash(t) \/ \E tok \in tokens : VerifyToken(t, tok)
    \/ \E k \in Key : Stray(k)
    \/ Crash
    \/ Tick

Spec == Init /\ [][Next]_vars

-----------------------------------------------------------------------------
(* Properties                                                              *)

Places ==
    {"idle", "create", "load", "routine", "miss", "rotated", "snap-routine", "snap-miss",
     "same", "install", "installed", "await", "cached", "again", "put", "locks", "sign", "rotate"}

KeySets == [current : Key \cup {0}, retired : [Key -> Times \cup {Never}]]
Entries == [key : Key, at : Times]

(* Types; a name in the archive either has its key or is torn.             *)
TypeOK ==
    /\ now \in Times
    /\ file \in Key \cup {0} /\ lastKey \in Key \cup {0}
    /\ archive \subseteq Entries /\ torn \subseteq Entries /\ archive \cap torn = {}
    /\ lock \in Threads \cup {None}
    /\ up \in BOOLEAN /\ mem \in KeySets
    /\ round \in Threads \cup {None} /\ reloadMu \in Threads \cup {None}
    /\ \A c \in cache : c.tok \in Tokens /\ c.exp \in Nat
    /\ \A t \in Threads : pc[t] \in Places
    /\ tokens \subseteq Tokens

(* A token minted before a rotation stays valid until it expires, on every *)
(* replica, through failed and repeated rotations and restarts, and a token*)
(* of a new key is recognised two refresh intervals after the key was made *)
(* at the latest.  A rotation that read its clock before the token was     *)
(* issued and took the lock after it was signed strands the token.         *)
RotationKeepsTokens == wronged = {}

(* Two refresh intervals after a key was replaced no replica takes its word*)
(* for a later token any more, also while the files cannot be read; a      *)
(* verdict it cached before dies with the cache's own limit.               *)
RetiredKeyDies ==
    /\ overdue = {}
    /\ \A c \in cache :
          Late(c.tok) => c.exp < replaced[c.tok.key] + 2 * Interval + 2 * MaxStall + CacheValidity

(* A replica that has learnt of a retirement and finished the refresh has  *)
(* forgotten the verdicts of before, except those a verification that was  *)
(* under way put back.                                                     *)
RefreshForgets ==
    reloadMu = None =>
        \A c \in cache : ~Late(c.tok) \/ mem.current = c.tok.key \/ c.tok \in recached
=============================================================================

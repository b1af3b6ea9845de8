------------------------------- MODULE Engine -------------------------------
(***************************************************************************)
(* The life of a configuration: core/engine.go's reference-counted         *)
(* snapshots against requests, Reload and Close, with the IP list feeds of *)
(* core/intel that a snapshot owns: a URL feed that a goroutine refreshes  *)
(* and persists, and a local file that is polled.                          *)
(*                                                                         *)
(* Every atomic load, swap or compare-and-swap and every file or network   *)
(* access is one action.  The rule, model and header caches are opened and *)
(* closed with the snapshot; GeoIP lookups stand for their use.            *)
(***************************************************************************)
EXTENDS Integers, FiniteSets

CONSTANTS
    Requests,       \* concurrent evaluations
    Callers,        \* goroutines that call Reload or Close
    Configs,        \* what a configuration may say: [url, file]
    Good,           \* bodies that parse to a list with entries
    Empty, Garbage, \* a body without entries, a body without a valid line
    CacheDir,       \* reputation.cache_dir is set
    MaxSnaps, MaxReloads, MaxFetches, MaxEdits, MaxBoots,   \* bounds of the model
    None

ASSUME EngineAssumption ==
    /\ CacheDir \in BOOLEAN
    /\ MaxSnaps \in Nat \ {0} /\ MaxReloads \in Nat /\ MaxFetches \in Nat
    /\ MaxEdits \in Nat /\ MaxBoots \in Nat
    /\ IsFiniteSet(Requests)
    /\ None \notin Good \cup {Empty, Garbage} /\ {Empty, Garbage} \cap Good = {}
    /\ None \notin Configs /\ None \notin Callers /\ None \notin 1..MaxSnaps

Snaps  == 1..MaxSnaps
Bodies == Good \cup {Empty, Garbage}
Lists  == Good \cup {Empty, None}   \* a feed's state; None before its first load

VARIABLES
    snap,       \* Engine.snap
    lastCfg,    \* Engine.lastCfg
    attackCfg,  \* the configuration the attack detector runs with
    lifeMu,     \* the caller inside Engine.lifeMu
    cfgOf, refs, phase,             \* the snapshots and the state of their caches
    urlList, fileList, fileHash,    \* their feeds
    fpc, fbody,                     \* their refreshLoop and the body it has read
    disk,       \* the persisted copy of the URL feed
    file,       \* the local list, None when it cannot be read
    apc, anew, aold,    \* a caller's place, the snapshot it made, the one it drops
    rpc, rsnap, rn,     \* a request's place, its snapshot, the count it read
    reloads, fetches, edits, boots, \* what has happened so far, bounds the model
    late        \* ghost: a list was fetched after the running Reload copied it

engineVars == <<snap, lastCfg, attackCfg, lifeMu>>
snapVars == <<cfgOf, refs, phase>>
feedVars == <<urlList, fileList, fileHash, fpc, fbody>>
callerVars == <<apc, anew, aold>>
requestVars == <<rpc, rsnap, rn>>
boundVars == <<reloads, fetches, edits, boots>>
vars == <<engineVars, snapVars, feedVars, disk, file, callerVars, requestVars, boundVars, late>>

(* Types of the variables.                                                 *)
TypeOK ==
    /\ snap \in Snaps \cup {None}
    /\ lastCfg \in Configs \cup {None} /\ attackCfg \in Configs \cup {None}
    /\ lifeMu \in Callers \cup {None}
    /\ cfgOf \in [Snaps -> Configs \cup {None}]
    /\ refs \in [Snaps -> 0..(1 + Cardinality(Requests))]
    /\ phase \in [Snaps -> {"unmade", "loaded", "live", "cancelled", "closed"}]
    /\ urlList \in [Snaps -> Lists] /\ fileList \in [Snaps -> Lists]
    /\ fileHash \in [Snaps -> Bodies \cup {None}]
    /\ fpc \in [Snaps -> {"off", "seed", "wait", "fetched", "save"}]
    /\ fbody \in [Snaps -> Bodies \cup {None}]
    /\ disk \in Good \cup {None}
    /\ file \in Bodies \cup {None}
    /\ apc \in [Callers -> {"idle", "seed", "start", "swap", "store", "release", "wait", "attack"}]
    /\ anew \in [Callers -> Snaps \cup {None}] /\ aold \in [Callers -> Snaps \cup {None}]
    /\ rpc \in [Requests -> {"idle", "load", "acquire", "cas", "eval", "wait"}]
    /\ rsnap \in [Requests -> Snaps \cup {None}]
    /\ rn \in [Requests -> 0..(1 + Cardinality(Requests))]
    /\ late \in BOOLEAN

\* No process: what a crash leaves besides the disk.
Init ==
    /\ snap = None /\ lastCfg = None /\ attackCfg = None /\ lifeMu = None
    /\ cfgOf = [s \in Snaps |-> None]
    /\ refs = [s \in Snaps |-> 0]
    /\ phase = [s \in Snaps |-> "unmade"]
    /\ urlList = [s \in Snaps |-> None] /\ fileList = [s \in Snaps |-> None]
    /\ fileHash = [s \in Snaps |-> None]
    /\ fpc = [s \in Snaps |-> "off"] /\ fbody = [s \in Snaps |-> None]
    /\ disk = None
    /\ file \in Good \cup {None}
    /\ apc = [c \in Callers |-> "idle"]
    /\ anew = [c \in Callers |-> None] /\ aold = [c \in Callers |-> None]
    /\ rpc = [r \in Requests |-> "idle"]
    /\ rsnap = [r \in Requests |-> None] /\ rn = [r \in Requests |-> 0]
    /\ reloads = 0 /\ fetches = 0 /\ edits = 0 /\ boots = 0
    /\ late = FALSE

Running == boots > 0 /\ lastCfg # None

-----------------------------------------------------------------------------
(* Feeds                                                                   *)

\* feed.install: an entry-less body never replaces a live list, and is believed
\* only of a local file.
Installs(old, body, source) ==
    \/ body \in Good
    \/ body = Empty /\ old \notin Good /\ source = "file"

\* A Reload has copied the lists of this snapshot and has yet to replace it.
CopiedFrom(s) == \E c \in Callers : apc[c] \in {"start", "swap"} /\ aold[c] = s

\* feed.loadCache: only a feed without a list is seeded.
LoadCache(s) ==
    /\ fpc[s] = "seed"
    /\ fpc' = [fpc EXCEPT ![s] = "wait"]
    /\ urlList' = [urlList EXCEPT ![s] =
          IF @ = None /\ CacheDir /\ disk # None /\ Installs(@, disk, "cache") THEN disk ELSE @]
    /\ late' = (late \/ CopiedFrom(s))
    /\ UNCHANGED <<engineVars, snapVars, fileList, fileHash, fbody, disk, file, callerVars,
                   requestVars, boundVars>>

\* feed.fetch has read a body; a failed fetch changes nothing.
Fetch(s) ==
    /\ fpc[s] = "wait" /\ phase[s] = "live" /\ fetches < MaxFetches
    /\ fetches' = fetches + 1
    /\ \E b \in Bodies : fbody' = [fbody EXCEPT ![s] = b]
    /\ fpc' = [fpc EXCEPT ![s] = "fetched"]
    /\ UNCHANGED <<engineVars, snapVars, urlList, fileList, fileHash, disk, file, callerVars,
                   requestVars, reloads, edits, boots, late>>

FetchInstall(s) ==
    /\ fpc[s] = "fetched"
    /\ \/ /\ Installs(urlList[s], fbody[s], "url")
          /\ urlList' = [urlList EXCEPT ![s] = fbody[s]]
          /\ fpc' = [fpc EXCEPT ![s] = IF CacheDir THEN "save" ELSE "wait"]
          /\ fbody' = IF CacheDir THEN fbody ELSE [fbody EXCEPT ![s] = None]
       \/ /\ ~Installs(urlList[s], fbody[s], "url")
          /\ fpc' = [fpc EXCEPT ![s] = "wait"]
          /\ fbody' = [fbody EXCEPT ![s] = None]
          /\ UNCHANGED urlList
    /\ late' = (late \/ CopiedFrom(s))
    /\ UNCHANGED <<engineVars, snapVars, fileList, fileHash, disk, file, callerVars,
                   requestVars, boundVars>>

\* writeFileAtomic: the whole body or, where it fails, nothing.
FetchSave(s) ==
    /\ fpc[s] = "save"
    /\ disk' \in {disk, fbody[s]}
    /\ fpc' = [fpc EXCEPT ![s] = "wait"]
    /\ fbody' = [fbody EXCEPT ![s] = None]
    /\ UNCHANGED <<engineVars, snapVars, urlList, fileList, fileHash, file, callerVars,
                   requestVars, boundVars, late>>

\* Faulty variant: the context is cancelled when the databases are closed.
CancelledLast(s) == phase[s] = "closed"

\* Provider.Close cancels before it waits.
Cancelled(s) == phase[s] = "cancelled"

\* refreshLoop sees the cancelled context.
FetchStop(s) ==
    /\ fpc[s] = "wait" /\ Cancelled(s)
    /\ fpc' = [fpc EXCEPT ![s] = "off"]
    /\ UNCHANGED <<engineVars, snapVars, urlList, fileList, fileHash, fbody, disk, file, callerVars,
                   requestVars, boundVars, late>>

\* pollLoop: feed.loadFile without force remembers a broken version too.
Poll(s) ==
    /\ phase[s] = "live" /\ cfgOf[s].file
    /\ file \notin {None, fileHash[s]}
    /\ fileHash' = [fileHash EXCEPT ![s] = file]
    /\ fileList' = [fileList EXCEPT ![s] = IF Installs(@, file, "file") THEN file ELSE @]
    /\ UNCHANGED <<engineVars, snapVars, urlList, fpc, fbody, disk, file, callerVars,
                   requestVars, boundVars, late>>

-----------------------------------------------------------------------------
(* Snapshots                                                               *)

\* intel.New: a local list must load.
Loads(c) == c.file => file # None /\ Installs(None, file, "file")

Unmade == {s \in Snaps : phase[s] = "unmade"}
Fresh == CHOOSE s \in Unmade : \A t \in Unmade : s <= t

\* loadSnapshot, owned by its caller.
LoadSnapshot(s, c, start) ==
    /\ cfgOf' = [cfgOf EXCEPT ![s] = c]
    /\ refs' = [refs EXCEPT ![s] = 1]
    /\ phase' = [phase EXCEPT ![s] = IF start THEN "live" ELSE "loaded"]
    /\ fileList' = [fileList EXCEPT ![s] = IF c.file THEN file ELSE None]
    /\ fileHash' = [fileHash EXCEPT ![s] = IF c.file THEN file ELSE None]
    /\ fpc' = IF start /\ c.url # None THEN [fpc EXCEPT ![s] = "seed"] ELSE fpc

\* Faulty variant: a nil snapshot pointer is the only thing that stops acquire.
AcquirableAlways(n) == TRUE

\* engineSnapshot.acquire refuses a snapshot nobody holds.
Acquirable(n) == n > 0

\* Faulty variant: the count has to go below zero.
LastReferenceBelow(n) == n < 0

\* engineSnapshot.release closes the caches with the last reference.
LastReference(n) == n = 0

\* release: rules, models and the intel context are closed at once.
Release(s) ==
    /\ refs' = [refs EXCEPT ![s] = @ - 1]
    /\ phase' = IF LastReference(refs[s] - 1) THEN [phase EXCEPT ![s] = "cancelled"] ELSE phase

\* Provider.Close returns when the refreshers have, and the databases are closed.
CloseCaches(s) ==
    /\ fpc[s] = "off"
    /\ phase' = [phase EXCEPT ![s] = "closed"]

-----------------------------------------------------------------------------
(* Requests                                                                *)

Step(r, place) == rpc' = [rpc EXCEPT ![r] = place]
Finish(r) ==
    /\ Step(r, "idle")
    /\ rsnap' = [rsnap EXCEPT ![r] = None]
    /\ rn' = [rn EXCEPT ![r] = 0]

Arrive(r) ==
    /\ Running /\ rpc[r] = "idle"
    /\ Step(r, "load")
    /\ UNCHANGED <<engineVars, snapVars, feedVars, disk, file, callerVars, rsnap, rn, boundVars, late>>

\* acquireSnapshot loads the pointer; a closed engine allows the request.
LoadPointer(r) ==
    /\ rpc[r] = "load"
    /\ \/ /\ snap # None
          /\ rsnap' = [rsnap EXCEPT ![r] = snap]
          /\ Step(r, "acquire")
          /\ UNCHANGED rn
       \/ snap = None /\ Finish(r)
    /\ UNCHANGED <<engineVars, snapVars, feedVars, disk, file, callerVars, boundVars, late>>

\* acquire reads the count ...
ReadRefs(r) ==
    /\ rpc[r] = "acquire"
    /\ \/ /\ Acquirable(refs[rsnap[r]])
          /\ rn' = [rn EXCEPT ![r] = refs[rsnap[r]]]
          /\ Step(r, "cas")
          /\ UNCHANGED rsnap
       \/ /\ ~Acquirable(refs[rsnap[r]])
          /\ Step(r, "load")
          /\ rsnap' = [rsnap EXCEPT ![r] = None]
          /\ UNCHANGED rn
    /\ UNCHANGED <<engineVars, snapVars, feedVars, disk, file, callerVars, boundVars, late>>

\* ... and takes a reference if it is still the same.
SwapRefs(r) ==
    /\ rpc[r] = "cas"
    /\ rn' = [rn EXCEPT ![r] = 0]
    /\ \/ /\ refs[rsnap[r]] = rn[r]
          /\ refs' = [refs EXCEPT ![rsnap[r]] = @ + 1]
          /\ Step(r, "eval")
       \/ /\ refs[rsnap[r]] # rn[r]
          /\ Step(r, "acquire")
          /\ UNCHANGED refs
    /\ UNCHANGED <<engineVars, cfgOf, phase, feedVars, disk, file, callerVars, rsnap, boundVars, late>>

\* The evaluation is done; the last one out closes the caches.
EndEvaluate(r) ==
    /\ rpc[r] = "eval"
    /\ Release(rsnap[r])
    /\ \/ LastReference(refs[rsnap[r]] - 1) /\ Step(r, "wait") /\ UNCHANGED <<rsnap, rn>>
       \/ ~LastReference(refs[rsnap[r]] - 1) /\ Finish(r)
    /\ UNCHANGED <<engineVars, cfgOf, feedVars, disk, file, callerVars, boundVars, late>>

RequestCloses(r) ==
    /\ rpc[r] = "wait"
    /\ CloseCaches(rsnap[r])
    /\ Finish(r)
    /\ UNCHANGED <<engineVars, cfgOf, refs, feedVars, disk, file, callerVars, boundVars, late>>

Request(r) ==
    \/ LoadPointer(r) \/ ReadRefs(r) \/ SwapRefs(r) \/ EndEvaluate(r) \/ RequestCloses(r)

-----------------------------------------------------------------------------
(* Reload and Close                                                        *)

Move(c, place) == apc' = [apc EXCEPT ![c] = place]

LifeFree == lifeMu = None

\* Reload builds a snapshot from a new configuration; one that does not load, or a
\* closed engine, ends it.
Reload(c) ==
    /\ Running /\ apc[c] = "idle" /\ LifeFree /\ reloads < MaxReloads
    /\ reloads' = reloads + 1
    /\ late' = FALSE
    /\ \/ /\ snap # None /\ Unmade # {}
          /\ lifeMu' = c
          /\ \E g \in Configs : Loads(g) /\ LoadSnapshot(Fresh, g, FALSE)
          /\ anew' = [anew EXCEPT ![c] = Fresh]
          /\ aold' = [aold EXCEPT ![c] = snap]
          /\ Move(c, "seed")
       \/ UNCHANGED <<lifeMu, snapVars, fileList, fileHash, fpc, callerVars>>
    /\ UNCHANGED <<snap, lastCfg, attackCfg, urlList, fbody, disk, file, requestVars,
                   fetches, edits, boots>>

\* Faulty variant: the new feeds start without the lists of the old ones.
SeedURLFeedsFromNone(new, old) == UNCHANGED urlList

\* SeedURLFeedsFrom: the same name and URL keep their list.
SeedURLFeedsFrom(new, old) ==
    urlList' = [urlList EXCEPT ![new] =
        IF cfgOf[new].url # None /\ cfgOf[new].url = cfgOf[old].url THEN urlList[old] ELSE @]

ReloadSeed(c) ==
    /\ apc[c] = "seed"
    /\ SeedURLFeedsFrom(anew[c], aold[c])
    /\ Move(c, "start")
    /\ UNCHANGED <<engineVars, snapVars, fileList, fileHash, fpc, fbody, disk, file, anew, aold,
                   requestVars, boundVars, late>>

\* startSnapshot.
ReloadStart(c) ==
    /\ apc[c] = "start"
    /\ phase' = [phase EXCEPT ![anew[c]] = "live"]
    /\ fpc' = [fpc EXCEPT ![anew[c]] = IF cfgOf[anew[c]].url # None THEN "seed" ELSE "off"]
    /\ Move(c, "swap")
    /\ UNCHANGED <<engineVars, cfgOf, refs, urlList, fileList, fileHash, fbody, disk, file,
                   anew, aold, requestVars, boundVars, late>>

ReloadSwap(c) ==
    /\ apc[c] = "swap"
    /\ snap' = anew[c]
    /\ aold' = [aold EXCEPT ![c] = snap]
    /\ Move(c, "store")
    /\ UNCHANGED <<lastCfg, attackCfg, lifeMu, snapVars, feedVars, disk, file, anew,
                   requestVars, boundVars, late>>

ReloadStore(c) ==
    /\ apc[c] = "store"
    /\ lastCfg' = cfgOf[anew[c]]
    /\ Move(c, "release")
    /\ UNCHANGED <<snap, attackCfg, lifeMu, snapVars, feedVars, disk, file, anew, aold,
                   requestVars, boundVars, late>>

\* Close swaps the pointer away, once.
Close(c) ==
    /\ Running /\ apc[c] = "idle" /\ LifeFree /\ snap # None
    /\ lifeMu' = c
    /\ snap' = None
    /\ aold' = [aold EXCEPT ![c] = snap]
    /\ Move(c, "release")
    /\ UNCHANGED <<lastCfg, attackCfg, snapVars, feedVars, disk, file, anew, requestVars, boundVars, late>>

\* What follows the release of the old snapshot: Reload configures the detector.
AfterRelease(c) ==
    \/ anew[c] # None /\ Move(c, "attack") /\ UNCHANGED <<lifeMu, aold>>
    \/ /\ anew[c] = None
       /\ Move(c, "idle")
       /\ lifeMu' = None
       /\ aold' = [aold EXCEPT ![c] = None]

ReleaseOld(c) ==
    /\ apc[c] = "release"
    /\ Release(aold[c])
    /\ \/ /\ LastReference(refs[aold[c]] - 1)
          /\ Move(c, "wait") /\ UNCHANGED <<lifeMu, aold>>
       \/ ~LastReference(refs[aold[c]] - 1) /\ AfterRelease(c)
    /\ UNCHANGED <<snap, lastCfg, attackCfg, cfgOf, feedVars, disk, file, anew, requestVars, boundVars, late>>

CallerCloses(c) ==
    /\ apc[c] = "wait"
    /\ CloseCaches(aold[c])
    /\ AfterRelease(c)
    /\ UNCHANGED <<snap, lastCfg, attackCfg, cfgOf, refs, feedVars, disk, file, anew,
                   requestVars, boundVars, late>>

AttackModeSettings(c) == cfgOf[anew[c]]

\* attack.SetConfig, and Reload returns.
ReloadAttack(c) ==
    /\ apc[c] = "attack"
    /\ attackCfg' = AttackModeSettings(c)
    /\ lifeMu' = None
    /\ Move(c, "idle")
    /\ anew' = [anew EXCEPT ![c] = None] /\ aold' = [aold EXCEPT ![c] = None]
    /\ UNCHANGED <<snap, lastCfg, snapVars, feedVars, disk, file, requestVars, boundVars, late>>

Caller(c) ==
    \/ ReloadSeed(c) \/ ReloadStart(c) \/ ReloadSwap(c) \/ ReloadStore(c)
    \/ ReleaseOld(c) \/ CallerCloses(c) \/ ReloadAttack(c)

-----------------------------------------------------------------------------
(* The process and the operator                                            *)

\* NewEngine, before anything is served.
NewEngine ==
    /\ ~Running /\ boots < MaxBoots
    /\ boots' = boots + 1
    /\ \E c \in Configs :
          /\ Loads(c)
          /\ LoadSnapshot(1, c, TRUE)
          /\ lastCfg' = c /\ attackCfg' = c
    /\ snap' = 1
    /\ UNCHANGED <<lifeMu, urlList, fbody, disk, file, callerVars, requestVars,
                   reloads, fetches, edits, late>>

\* The process ends or dies, wherever it is.
Exit ==
    /\ Running /\ boots < MaxBoots
    /\ snap' = None /\ lastCfg' = None /\ attackCfg' = None /\ lifeMu' = None
    /\ cfgOf' = [s \in Snaps |-> None]
    /\ refs' = [s \in Snaps |-> 0]
    /\ phase' = [s \in Snaps |-> "unmade"]
    /\ urlList' = [s \in Snaps |-> None] /\ fileList' = [s \in Snaps |-> None]
    /\ fileHash' = [s \in Snaps |-> None]
    /\ fpc' = [s \in Snaps |-> "off"] /\ fbody' = [s \in Snaps |-> None]
    /\ apc' = [c \in Callers |-> "idle"]
    /\ anew' = [c \in Callers |-> None] /\ aold' = [c \in Callers |-> None]
    /\ rpc' = [r \in Requests |-> "idle"]
    /\ rsnap' = [r \in Requests |-> None] /\ rn' = [r \in Requests |-> 0]
    /\ UNCHANGED <<disk, file, boundVars, late>>

EditFile ==
    /\ edits < MaxEdits
    /\ edits' = edits + 1
    /\ file' \in Bodies \cup {None}
    /\ UNCHANGED <<engineVars, snapVars, feedVars, disk, callerVars, requestVars,
                   reloads, fetches, boots, late>>

Feed(s) == LoadCache(s) \/ FetchInstall(s) \/ FetchSave(s) \/ FetchStop(s)

Next ==
    \/ \E r \in Requests : Arrive(r) \/ Request(r)
    \/ \E c \in Callers : Reload(c) \/ Close(c) \/ Caller(c)
    \/ \E s \in Snaps : Feed(s) \/ Fetch(s) \/ Poll(s)
    \/ NewEngine \/ Exit \/ EditFile

Spec == Init /\ [][Next]_vars

\* Goroutines run on; nothing makes a fetch succeed, a caller call or a request arrive.
Fairness ==
    /\ \A r \in Requests : WF_vars(Request(r))
    /\ \A c \in Callers : WF_vars(Caller(c))
    /\ \A s \in Snaps : WF_vars(Feed(s))
FairSpec == Spec /\ Fairness

-----------------------------------------------------------------------------
(* Properties                                                              *)

Held(s) == {r \in Requests : rsnap[r] = s /\ rpc[r] = "eval"}

(* A request evaluates on caches that are open and refreshed: whatever     *)
(* Reload and Close do between its reading the pointer and its taking a    *)
(* reference, acquire never revives a snapshot that was given up.          *)
NoUseAfterClose ==
    \A r \in Requests : rpc[r] = "eval" => phase[rsnap[r]] = "live"

(* Reload and Close are all or nothing.  Once they have returned no other  *)
(* snapshot than the engine's is open unless a request still holds it or,  *)
(* having held it last, is closing it; and the configuration is in force   *)
(* everywhere: the accessor for stragglers and the attack detector follow  *)
(* the snapshot, and keep the last one after Close.                        *)
ReloadIsWhole ==
    lifeMu = None =>
        /\ \A s \in Snaps \ {snap} : phase[s] \in {"loaded", "live"} => Held(s) # {}
        /\ Running => /\ lastCfg = attackCfg
                      /\ snap # None => lastCfg = cfgOf[snap]

(* SeedURLFeedsFrom's promise, and install's: while the engine serves the  *)
(* same URL feed, a list with entries never gives way to nothing, through  *)
(* reloads, empty bodies and error pages; a list that arrives between      *)
(* Reload's copy and its swap is left behind.                              *)
URLListSurvives ==
    [][Running' /\ snap # None /\ snap' # None /\ cfgOf[snap].url # None
         /\ cfgOf'[snap'].url = cfgOf[snap].url /\ urlList[snap] \in Good
         /\ ~late
         => urlList'[snap'] \in Good]_vars

(* Close and Reload return, and so does the request that gave up the last  *)
(* reference, although each may have to wait for a refresher that is in    *)
(* the middle of a fetch.                                                  *)
AllReturn ==
    /\ \A r \in Requests : rpc[r] \in {"eval", "wait"} ~> rpc[r] \in {"idle", "load"}
    /\ \A c \in Callers : apc[c] # "idle" ~> apc[c] = "idle"
=============================================================================

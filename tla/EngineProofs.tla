---------------------------- MODULE EngineProofs ----------------------------
(***************************************************************************)
(* Reference-counted snapshots, for every number of requests, callers and  *)
(* snapshots: nobody evaluates on closed caches, a Reload or Close is      *)
(* whole, and a reload keeps the lists of a URL feed.                      *)
(*                                                                         *)
(* The heart of the inductive invariant is Counting: a reference count is  *)
(* the number of evaluations on the snapshot, and one more while the       *)
(* engine or a caller inside lifeMu owns it.                               *)
(***************************************************************************)
EXTENDS Engine, TLAPS, FiniteSetTheorems

USE DEF Snaps

Places == {"idle", "seed", "start", "swap", "store", "release", "wait", "attack"}

\* The types the other parts rest on; the counts' bound follows from Counting.
EngineTypes ==
    /\ snap \in Snaps \cup {None}
    /\ lastCfg \in Configs \cup {None} /\ attackCfg \in Configs \cup {None}
    /\ lifeMu \in Callers \cup {None}
    /\ boots \in Nat

SnapTypes ==
    /\ cfgOf \in [Snaps -> Configs \cup {None}]
    /\ refs \in [Snaps -> Nat]
    /\ phase \in [Snaps -> {"unmade", "loaded", "live", "cancelled", "closed"}]

CallerTypes ==
    /\ apc \in [Callers -> Places]
    /\ anew \in [Callers -> Snaps \cup {None}] /\ aold \in [Callers -> Snaps \cup {None}]

RequestTypes ==
    /\ rpc \in [Requests -> {"idle", "load", "acquire", "cas", "eval", "wait"}]
    /\ rsnap \in [Requests -> Snaps \cup {None}]
    /\ rn \in [Requests -> Nat]

CoreTypes == EngineTypes /\ SnapTypes /\ CallerTypes /\ RequestTypes

\* Reload and Close run inside lifeMu.
Mutex == \A c \in Callers : apc[c] # "idle" <=> lifeMu = c

\* What a caller has in hand at each place; after a Close both sides of anew[c] = snap
\* are None.
CallerShape ==
    /\ snap # None => cfgOf[snap] \in Configs
    /\ \A c \in Callers :
          /\ apc[c] = "idle" => anew[c] = None /\ aold[c] = None
          /\ apc[c] \in {"seed", "start", "swap"} =>
                /\ snap # None /\ aold[c] = snap
                /\ anew[c] \in Snaps \ {snap} /\ cfgOf[anew[c]] \in Configs
          /\ apc[c] \in {"store", "release", "wait"} =>
                aold[c] \in Snaps \ {snap} /\ anew[c] = snap
          /\ apc[c] \in {"store", "attack"} => anew[c] = snap /\ snap # None

Loaded == {"acquire", "cas", "eval", "wait"}

\* A request that has loaded the pointer has it in hand, and swaps a positive count.
RequestShape ==
    \A r \in Requests :
        /\ rpc[r] \in Loaded => rsnap[r] \in Snaps
        /\ rpc[r] = "cas" => rn[r] > 0

\* The engine, or a caller that made the snapshot or has yet to release it.
Owned(s) ==
    \/ snap = s
    \/ \E c \in Callers :
          \/ apc[c] \in {"seed", "start", "swap"} /\ anew[c] = s
          \/ apc[c] \in {"store", "release"} /\ aold[c] = s

Counting ==
    \A s \in Snaps : refs[s] = Cardinality(Held(s)) + (IF Owned(s) THEN 1 ELSE 0)

\* The caches are open as long as somebody holds the snapshot.
PhaseFollowsRefs ==
    \A s \in Snaps : refs[s] > 0 <=> phase[s] \in {"loaded", "live"}

Started(s) == phase[s] \in {"live", "cancelled", "closed"}
GivenUp(s) == phase[s] \in {"cancelled", "closed"}

\* Whatever a request can have in hand has been started.
StartedInv ==
    /\ snap # None => Started(snap)
    /\ \A c \in Callers :
          /\ apc[c] = "swap" => Started(anew[c])
          /\ apc[c] = "wait" => GivenUp(aold[c])
    /\ \A r \in Requests :
          /\ rpc[r] \in Loaded => Started(rsnap[r])
          /\ rpc[r] = "wait" => GivenUp(rsnap[r])

\* Without a process nothing is left but the disk.
Down ==
    /\ boots = 0 => lastCfg = None
    /\ lastCfg = None =>
          /\ snap = None /\ attackCfg = None /\ lifeMu = None
          /\ \A r \in Requests : rpc[r] = "idle"
          /\ \A s \in Snaps : phase[s] = "unmade"

\* Between ReloadStore and ReloadAttack the detector lags, between ReloadSwap and
\* ReloadStore the accessor.
ConfigInv ==
    /\ (\A c \in Callers : apc[c] \in {"release", "wait", "attack"} => anew[c] = None)
          => lastCfg = attackCfg
    /\ snap # None /\ (\A c \in Callers : apc[c] # "store") => lastCfg = cfgOf[snap]

CoreInv ==
    /\ CoreTypes /\ Mutex /\ CallerShape /\ RequestShape
    /\ Counting /\ PhaseFollowsRefs /\ StartedInv /\ Down /\ ConfigInv

\* The feeds; what is about to be persisted is a list with entries.
FeedTypes ==
    /\ urlList \in [Snaps -> Lists] /\ fileList \in [Snaps -> Lists]
    /\ fileHash \in [Snaps -> Bodies \cup {None}]
    /\ fpc \in [Snaps -> {"off", "seed", "wait", "fetched", "save"}]
    /\ fbody \in [Snaps -> Bodies \cup {None}]
    /\ \A s \in Snaps : fpc[s] = "save" => fbody[s] \in Good
    /\ disk \in Good \cup {None}
    /\ file \in Bodies \cup {None}
    /\ late \in BOOLEAN

\* A replacement that was seeded has the list of the snapshot it will replace.
SeedInv ==
    \A c \in Callers :
        /\ apc[c] \in {"start", "swap"} /\ ~late
        /\ cfgOf[anew[c]].url # None /\ cfgOf[anew[c]].url = cfgOf[snap].url
        /\ urlList[snap] \in Good
        => urlList[anew[c]] \in Good

\* acquire read a count that was possible.
CountRead == \A r \in Requests : rn[r] <= 1 + Cardinality(Requests)

-----------------------------------------------------------------------------
(* Facts about the parts                                                   *)

USE DEF engineVars, snapVars, feedVars, callerVars, requestVars, boundVars

coreVars == <<engineVars, snapVars, callerVars, requestVars, boots>>

\* The evaluations on a snapshot can be counted, and are at most the requests.
LEMMA HeldCounts ==
    ASSUME NEW s
    PROVE  /\ IsFiniteSet(Held(s)) /\ Cardinality(Held(s)) \in Nat
           /\ Cardinality(Requests) \in Nat
           /\ Cardinality(Held(s)) <= Cardinality(Requests)
<1>1. Held(s) \subseteq Requests
    BY DEF Held
<1>2. IsFiniteSet(Requests)
    BY EngineAssumption
<1> QED
    BY <1>1, <1>2, FS_Subset, FS_CardinalityType

\* The same of the evaluations after a step.
LEMMA HeldCountsNext ==
    ASSUME NEW s
    PROVE  Cardinality(Held(s)') \in Nat /\ Cardinality(Held(s)') <= Cardinality(Requests)
<1>1. Held(s)' \subseteq Requests
    BY DEF Held
<1>2. IsFiniteSet(Requests)
    BY EngineAssumption
<1> QED
    BY <1>1, <1>2, FS_Subset, FS_CardinalityType

\* A snapshot that somebody owns or evaluates on is open.
LEMMA OpenWhileHeld ==
    ASSUME CoreTypes, Counting, PhaseFollowsRefs, NEW s \in Snaps, Owned(s) \/ Held(s) # {}
    PROVE  refs[s] > 0 /\ phase[s] \in {"loaded", "live"}
<1>1. Cardinality(Held(s)) \in Nat /\ (Held(s) # {} => Cardinality(Held(s)) # 0)
    BY HeldCounts, FS_EmptySet
<1>2. refs[s] > 0
    BY <1>1 DEF Counting, CoreTypes, SnapTypes
<1> QED
    BY <1>2 DEF PhaseFollowsRefs

\* Only one caller is inside lifeMu.
LEMMA Alone ==
    ASSUME Mutex, NEW c \in Callers, apc[c] # "idle"
    PROVE  lifeMu = c /\ \A d \in Callers \ {c} : apc[d] = "idle"
    BY DEF Mutex

\* When the engine's mutex is free no caller is anywhere.
LEMMA NobodyInside ==
    ASSUME Mutex, lifeMu = None
    PROVE  \A d \in Callers : apc[d] = "idle"
    BY EngineAssumption DEF Mutex

\* What the feeds and the operator do leaves the snapshots alone.
LEMMA CoreUnchanged ==
    ASSUME CoreInv, UNCHANGED coreVars
    PROVE  CoreInv'
<1> USE DEF coreVars
<1>1. CoreTypes' /\ Mutex' /\ CallerShape' /\ RequestShape'
    BY DEF CoreInv, CoreTypes, EngineTypes, SnapTypes, CallerTypes, RequestTypes, Mutex,
           CallerShape, RequestShape
<1>2. Counting'
    BY DEF CoreInv, Counting, Held, Owned
<1>3. PhaseFollowsRefs' /\ StartedInv' /\ Down' /\ ConfigInv'
    BY DEF CoreInv, PhaseFollowsRefs, StartedInv, Started, GivenUp, Down, ConfigInv
<1> QED
    BY <1>1, <1>2, <1>3 DEF CoreInv

\* A request's step disturbs no caller: what is left of the invariant speaks of the
\* counts and the caches.
LEMMA RequestFrame ==
    ASSUME CoreInv, UNCHANGED <<engineVars, cfgOf, callerVars, boots>>, lastCfg # None
    PROVE  /\ Mutex' /\ CallerShape' /\ Down' /\ ConfigInv'
           /\ \A s : Owned(s)' <=> Owned(s)
<1>1. Mutex' /\ CallerShape' /\ \A s : Owned(s)' <=> Owned(s)
    BY DEF CoreInv, Mutex, CallerShape, Owned
<1>2. Down' /\ ConfigInv'
    BY DEF CoreInv, Down, ConfigInv
<1> QED
    BY <1>1, <1>2

\* A request under way has a process.
LEMMA RequestHasProcess ==
    ASSUME CoreInv, NEW r \in Requests, rpc[r] # "idle"
    PROVE  lastCfg # None
    BY DEF CoreInv, Down

\* A step that leaves every count and holder alone.
LEMMA CountingKept ==
    ASSUME Counting, refs' = refs,
           \A s \in Snaps : Held(s)' = Held(s),
           \A s \in Snaps : Owned(s)' <=> Owned(s)
    PROVE  Counting'
    BY DEF Counting

\* release by somebody who holds a reference: the caches go with the last one.
LEMMA ReleaseKeeps ==
    ASSUME CoreTypes, PhaseFollowsRefs, NEW s \in Snaps, refs[s] > 0, Release(s)
    PROVE  /\ refs' \in [Snaps -> Nat]
           /\ refs'[s] = refs[s] - 1 /\ \A t \in Snaps \ {s} : refs'[t] = refs[t]
           /\ phase' \in [Snaps -> {"unmade", "loaded", "live", "cancelled", "closed"}]
           /\ PhaseFollowsRefs'
           /\ \A t \in Snaps : (Started(t) => Started(t)') /\ (GivenUp(t) => GivenUp(t)')
           /\ LastReference(refs[s] - 1) => GivenUp(s)'
<1> USE DEF CoreTypes, SnapTypes, Release, LastReference
<1>1. refs' \in [Snaps -> Nat] /\ refs'[s] = refs[s] - 1
    OBVIOUS
<1>2. \A t \in Snaps \ {s} : refs'[t] = refs[t]
    OBVIOUS
<1>3. phase' \in [Snaps -> {"unmade", "loaded", "live", "cancelled", "closed"}]
    OBVIOUS
<1>4. PhaseFollowsRefs'
    BY <1>1, <1>2 DEF PhaseFollowsRefs
<1>5. \A t \in Snaps : (Started(t) => Started(t)') /\ (GivenUp(t) => GivenUp(t)')
    BY DEF Started, GivenUp
<1>6. LastReference(refs[s] - 1) => GivenUp(s)'
    BY DEF GivenUp
<1> QED
    BY <1>1, <1>2, <1>3, <1>4, <1>5, <1>6

\* Provider.Close on caches that were given up.
LEMMA CloseKeeps ==
    ASSUME CoreTypes, PhaseFollowsRefs, NEW s \in Snaps, GivenUp(s), CloseCaches(s), refs' = refs
    PROVE  /\ phase' \in [Snaps -> {"unmade", "loaded", "live", "cancelled", "closed"}]
           /\ PhaseFollowsRefs'
           /\ \A t \in Snaps : (Started(t) => Started(t)') /\ (GivenUp(t) => GivenUp(t)')
    BY DEF CoreTypes, SnapTypes, PhaseFollowsRefs, GivenUp, Started, CloseCaches

-----------------------------------------------------------------------------
(* Requests                                                                *)

\* A step that only moves a request that evaluates neither before nor after.
LEMMA QuietRequest ==
    ASSUME CoreInv, NEW r \in Requests, lastCfg # None,
           UNCHANGED <<engineVars, snapVars, callerVars, boots>>,
           CoreTypes', RequestShape',
           rpc[r] # "eval", rpc'[r] # "eval",
           \A q \in Requests \ {r} : rpc'[q] = rpc[q] /\ rsnap'[q] = rsnap[q],
           rpc'[r] \in Loaded => Started(rsnap'[r]),
           rpc'[r] # "wait"
    PROVE  CoreInv'
<1>1. Mutex' /\ CallerShape' /\ Down' /\ ConfigInv' /\ \A s : Owned(s)' <=> Owned(s)
    BY RequestFrame
<1>2. \A s \in Snaps : Held(s)' = Held(s)
    BY DEF Held
<1>3. Counting'
    BY <1>1, <1>2, CountingKept DEF CoreInv
<1>4. PhaseFollowsRefs'
    BY DEF CoreInv, PhaseFollowsRefs
<1>5. StartedInv'
    BY DEF CoreInv, StartedInv, Started, GivenUp
<1> QED
    BY <1>1, <1>3, <1>4, <1>5 DEF CoreInv

\* A request arrives at a running engine.
LEMMA ArriveInv ==
    ASSUME CoreInv, NEW r \in Requests, Arrive(r)
    PROVE  CoreInv'
<1> USE DEF Arrive, Step, Running
<1>1. CoreTypes'
    BY DEF CoreInv, CoreTypes, EngineTypes, SnapTypes, CallerTypes, RequestTypes
<1>2. RequestShape'
    BY DEF CoreInv, CoreTypes, SnapTypes, RequestTypes, RequestShape, Loaded
<1>3. rpc'[r] = "load" /\ \A q \in Requests \ {r} : rpc'[q] = rpc[q] /\ rsnap'[q] = rsnap[q]
    BY DEF CoreInv, CoreTypes, RequestTypes
<1> QED
    BY <1>1, <1>2, <1>3, QuietRequest DEF Loaded

\* The pointer that acquireSnapshot loads has been started.
LEMMA LoadPointerInv ==
    ASSUME CoreInv, NEW r \in Requests, LoadPointer(r)
    PROVE  CoreInv'
<1> USE DEF LoadPointer, Step, Finish
<1>0. lastCfg # None
    BY RequestHasProcess
<1>1. CoreTypes'
    <2>1. EngineTypes' /\ CallerTypes' /\ SnapTypes'
        BY DEF CoreInv, CoreTypes, EngineTypes, SnapTypes, CallerTypes
    <2>2. RequestTypes'
        BY DEF CoreInv, CoreTypes, EngineTypes, RequestTypes
    <2> QED
        BY <2>1, <2>2 DEF CoreTypes
<1>2. RequestShape'
    BY DEF CoreInv, CoreTypes, EngineTypes, RequestTypes, RequestShape, Loaded
<1>3. /\ rpc'[r] \in {"acquire", "idle"}
      /\ \A q \in Requests \ {r} : rpc'[q] = rpc[q] /\ rsnap'[q] = rsnap[q]
    BY DEF CoreInv, CoreTypes, RequestTypes
<1>4. rpc'[r] \in Loaded => Started(rsnap'[r])
    BY DEF CoreInv, CoreTypes, SnapTypes, RequestTypes, StartedInv, Loaded
<1> QED
    BY <1>0, <1>1, <1>2, <1>3, <1>4, QuietRequest

\* acquire reads the count.
LEMMA ReadRefsInv ==
    ASSUME CoreInv, NEW r \in Requests, ReadRefs(r)
    PROVE  CoreInv'
<1> USE DEF ReadRefs, Step, Acquirable
<1>0. lastCfg # None /\ rsnap[r] \in Snaps /\ refs[rsnap[r]] \in Nat /\ Started(rsnap[r])
    BY RequestHasProcess DEF CoreInv, CoreTypes, SnapTypes, RequestTypes, RequestShape,
                             StartedInv, Loaded
<1>1. CoreTypes'
    <2>1. EngineTypes' /\ CallerTypes' /\ SnapTypes'
        BY <1>0 DEF CoreInv, CoreTypes, EngineTypes, SnapTypes, CallerTypes
    <2>2. RequestTypes'
        BY <1>0 DEF CoreInv, CoreTypes, EngineTypes, RequestTypes
    <2> QED
        BY <2>1, <2>2 DEF CoreTypes
<1>2. RequestShape'
    BY <1>0 DEF CoreInv, CoreTypes, SnapTypes, RequestTypes, RequestShape, Loaded
<1>3. /\ rpc'[r] \in {"cas", "load"} /\ (rpc'[r] = "cas" => rsnap' = rsnap)
      /\ \A q \in Requests \ {r} : rpc'[q] = rpc[q] /\ rsnap'[q] = rsnap[q]
    BY DEF CoreInv, CoreTypes, RequestTypes
<1>4. rpc'[r] \in Loaded => Started(rsnap'[r])
    BY <1>0, <1>3 DEF Loaded
<1> QED
    BY <1>0, <1>1, <1>2, <1>3, <1>4, QuietRequest

\* The compare-and-swap takes a reference of a snapshot that somebody still holds, or
\* nothing.
LEMMA SwapRefsInv ==
    ASSUME CoreInv, NEW r \in Requests, SwapRefs(r)
    PROVE  CoreInv'
<1> USE DEF SwapRefs, Step
<1>0. /\ lastCfg # None /\ rsnap[r] \in Snaps /\ refs[rsnap[r]] \in Nat
      /\ Started(rsnap[r]) /\ rn[r] > 0
    BY RequestHasProcess DEF CoreInv, CoreTypes, SnapTypes, RequestTypes, RequestShape,
                             StartedInv, Loaded
<1>1. CoreTypes'
    <2>1. EngineTypes' /\ CallerTypes' /\ SnapTypes'
        BY <1>0 DEF CoreInv, CoreTypes, EngineTypes, SnapTypes, CallerTypes
    <2>2. RequestTypes'
        BY <1>0 DEF CoreInv, CoreTypes, EngineTypes, RequestTypes
    <2> QED
        BY <2>1, <2>2 DEF CoreTypes
<1>2. RequestShape'
    BY <1>0 DEF CoreInv, CoreTypes, SnapTypes, RequestTypes, RequestShape, Loaded
<1>3. CASE refs[rsnap[r]] = rn[r] /\ refs' = [refs EXCEPT ![rsnap[r]] = @ + 1] /\ Step(r, "eval")
    <2> USE <1>3
    <2>1. Mutex' /\ CallerShape' /\ Down' /\ ConfigInv' /\ \A s : Owned(s)' <=> Owned(s)
        BY <1>0, RequestFrame
    <2>2. Counting'
        <3> SUFFICES ASSUME NEW s \in Snaps
                     PROVE  refs'[s] = Cardinality(Held(s)') + (IF Owned(s) THEN 1 ELSE 0)
            BY <2>1 DEF Counting
        <3>0. refs[s] = Cardinality(Held(s)) + (IF Owned(s) THEN 1 ELSE 0)
            BY DEF CoreInv, Counting
        <3>1. CASE s = rsnap[r]
            <4>1. Held(s)' = Held(s) \cup {r} /\ r \notin Held(s)
                BY <3>1 DEF Held, CoreInv, CoreTypes, RequestTypes
            <4>2. Cardinality(Held(s)') = Cardinality(Held(s)) + 1
                BY <4>1, HeldCounts, FS_AddElement
            <4> QED
                BY <4>2, <3>0, <3>1, HeldCounts DEF CoreInv, CoreTypes, SnapTypes
        <3>2. CASE s # rsnap[r]
            <4>1. Held(s)' = Held(s)
                BY <3>2 DEF Held, CoreInv, CoreTypes, RequestTypes
            <4> QED
                BY <4>1, <3>0, <3>2 DEF CoreInv, CoreTypes, SnapTypes
        <3> QED
            BY <3>1, <3>2
    <2>3. PhaseFollowsRefs'
        BY <1>0 DEF CoreInv, CoreTypes, SnapTypes, RequestTypes, PhaseFollowsRefs
    <2>4. StartedInv'
        BY <1>0 DEF CoreInv, CoreTypes, SnapTypes, RequestTypes, StartedInv, Started, GivenUp,
                    Loaded
    <2> QED
        BY <1>1, <1>2, <2>1, <2>2, <2>3, <2>4 DEF CoreInv
<1>4. CASE refs[rsnap[r]] # rn[r] /\ Step(r, "acquire") /\ UNCHANGED refs
    <2>1. /\ rpc'[r] = "acquire"
          /\ \A q \in Requests \ {r} : rpc'[q] = rpc[q] /\ rsnap'[q] = rsnap[q]
        BY <1>4 DEF CoreInv, CoreTypes, RequestTypes
    <2> QED
        BY <1>0, <1>1, <1>2, <1>4, <2>1, QuietRequest
<1> QED
    BY <1>3, <1>4

\* An evaluation ends; the last one out gives the caches up.
LEMMA EndEvaluateInv ==
    ASSUME CoreInv, NEW r \in Requests, EndEvaluate(r)
    PROVE  CoreInv'
<1> DEFINE s == rsnap[r]
<1> USE DEF EndEvaluate, Step, Finish
<1>0. lastCfg # None /\ s \in Snaps /\ Started(s) /\ r \in Held(s)
    BY RequestHasProcess DEF CoreInv, RequestShape, StartedInv, Loaded, Held
<1>1. refs[s] > 0
    BY <1>0, OpenWhileHeld DEF CoreInv
<1>2. /\ refs' \in [Snaps -> Nat]
      /\ refs'[s] = refs[s] - 1 /\ \A t \in Snaps \ {s} : refs'[t] = refs[t]
      /\ phase' \in [Snaps -> {"unmade", "loaded", "live", "cancelled", "closed"}]
      /\ PhaseFollowsRefs'
      /\ \A t \in Snaps : (Started(t) => Started(t)') /\ (GivenUp(t) => GivenUp(t)')
      /\ LastReference(refs[s] - 1) => GivenUp(s)'
    BY <1>0, <1>1, ReleaseKeeps DEF CoreInv
<1>3. Mutex' /\ CallerShape' /\ Down' /\ ConfigInv' /\ \A t : Owned(t)' <=> Owned(t)
    BY <1>0, RequestFrame
<1>4. /\ rpc'[r] \in {"wait", "idle"}
      /\ rpc'[r] = "wait" => LastReference(refs[s] - 1) /\ rsnap' = rsnap
      /\ \A q \in Requests \ {r} : rpc'[q] = rpc[q] /\ rsnap'[q] = rsnap[q] /\ rn'[q] = rn[q]
    BY DEF CoreInv, CoreTypes, RequestTypes
<1>5. CoreTypes'
    <2>1. EngineTypes' /\ CallerTypes'
        BY DEF CoreInv, CoreTypes, EngineTypes, CallerTypes
    <2>2. SnapTypes'
        BY <1>2 DEF CoreInv, CoreTypes, SnapTypes
    <2>3. RequestTypes'
        BY DEF CoreInv, CoreTypes, RequestTypes
    <2> QED
        BY <2>1, <2>2, <2>3 DEF CoreTypes
<1>6. RequestShape'
    BY <1>0, <1>4 DEF CoreInv, RequestShape, Loaded
<1>7. Counting'
    <2> SUFFICES ASSUME NEW t \in Snaps
                 PROVE  refs'[t] = Cardinality(Held(t)') + (IF Owned(t) THEN 1 ELSE 0)
        BY <1>3 DEF Counting
    <2>0. refs[t] = Cardinality(Held(t)) + (IF Owned(t) THEN 1 ELSE 0)
        BY DEF CoreInv, Counting
    <2>1. CASE t = s
        <3>1. Held(t)' = Held(t) \ {r} /\ r \in Held(t)
            BY <2>1, <1>0, <1>4 DEF Held
        <3>2. Cardinality(Held(t)') = Cardinality(Held(t)) - 1
            BY <3>1, HeldCounts, FS_RemoveElement
        <3> QED
            BY <3>2, <2>0, <2>1, <1>2, HeldCounts
    <2>2. CASE t # s
        <3>1. Held(t)' = Held(t)
            BY <2>2, <1>4 DEF Held
        <3> QED
            BY <3>1, <2>0, <2>2, <1>2
    <2> QED
        BY <2>1, <2>2
<1>8. StartedInv'
    <2>1. (snap # None => Started(snap))'
        BY <1>2 DEF CoreInv, CoreTypes, EngineTypes, StartedInv
    <2>2. ASSUME NEW c \in Callers
          PROVE  (apc'[c] = "swap" => Started(anew[c])') /\ (apc'[c] = "wait" => GivenUp(aold[c])')
        BY <1>2 DEF CoreInv, CallerShape, StartedInv
    <2>3. ASSUME NEW q \in Requests
          PROVE  /\ rpc'[q] \in Loaded => Started(rsnap[q])'
                 /\ rpc'[q] = "wait" => GivenUp(rsnap[q])'
        <3>1. CASE q = r
            BY <3>1, <1>0, <1>2, <1>4 DEF Loaded, Started, GivenUp
        <3>2. CASE q # r
            <4>1. rpc[q] \in Loaded => rsnap[q] \in Snaps
                BY DEF CoreInv, RequestShape
            <4> QED
                BY <3>2, <4>1, <1>2, <1>4 DEF CoreInv, StartedInv, Loaded, Started, GivenUp
        <3> QED
            BY <3>1, <3>2
    <2> QED
        BY <2>1, <2>2, <2>3 DEF StartedInv
<1> QED
    BY <1>2, <1>3, <1>5, <1>6, <1>7, <1>8 DEF CoreInv

\* The request that was last has closed the caches.
LEMMA RequestClosesInv ==
    ASSUME CoreInv, NEW r \in Requests, RequestCloses(r)
    PROVE  CoreInv'
<1> DEFINE s == rsnap[r]
<1> USE DEF RequestCloses, Step, Finish
<1>0. lastCfg # None /\ s \in Snaps /\ GivenUp(s)
    BY RequestHasProcess DEF CoreInv, RequestShape, StartedInv, Loaded
<1>2. /\ phase' \in [Snaps -> {"unmade", "loaded", "live", "cancelled", "closed"}]
      /\ PhaseFollowsRefs'
      /\ \A t \in Snaps : (Started(t) => Started(t)') /\ (GivenUp(t) => GivenUp(t)')
    BY <1>0, CloseKeeps DEF CoreInv
<1>3. Mutex' /\ CallerShape' /\ Down' /\ ConfigInv' /\ \A t : Owned(t)' <=> Owned(t)
    BY <1>0, RequestFrame
<1>4. /\ rpc'[r] = "idle"
      /\ \A q \in Requests \ {r} : rpc'[q] = rpc[q] /\ rsnap'[q] = rsnap[q] /\ rn'[q] = rn[q]
    BY DEF CoreInv, CoreTypes, RequestTypes
<1>5. CoreTypes'
    <2>1. EngineTypes' /\ CallerTypes'
        BY DEF CoreInv, CoreTypes, EngineTypes, CallerTypes
    <2>2. SnapTypes'
        BY <1>2 DEF CoreInv, CoreTypes, SnapTypes
    <2>3. RequestTypes'
        BY DEF CoreInv, CoreTypes, RequestTypes
    <2> QED
        BY <2>1, <2>2, <2>3 DEF CoreTypes
<1>6. RequestShape'
    BY <1>0, <1>4 DEF CoreInv, RequestShape, Loaded
<1>7. Counting'
    <2>1. \A t \in Snaps : Held(t)' = Held(t)
        BY <1>4 DEF Held
    <2> QED
        BY <2>1, <1>3, CountingKept DEF CoreInv
<1>8. StartedInv'
    <2>1. (snap # None => Started(snap))'
        BY <1>2 DEF CoreInv, CoreTypes, EngineTypes, StartedInv
    <2>2. ASSUME NEW c \in Callers
          PROVE  (apc'[c] = "swap" => Started(anew[c])') /\ (apc'[c] = "wait" => GivenUp(aold[c])')
        BY <1>2 DEF CoreInv, CallerShape, StartedInv
    <2>3. ASSUME NEW q \in Requests
          PROVE  /\ rpc'[q] \in Loaded => Started(rsnap[q])'
                 /\ rpc'[q] = "wait" => GivenUp(rsnap[q])'
        <3>1. CASE q = r
            BY <3>1, <1>4 DEF Loaded
        <3>2. CASE q # r
            <4>1. rpc[q] \in Loaded => rsnap[q] \in Snaps
                BY DEF CoreInv, RequestShape
            <4> QED
                BY <3>2, <4>1, <1>2, <1>4 DEF CoreInv, StartedInv, Loaded, Started, GivenUp
        <3> QED
            BY <3>1, <3>2
    <2> QED
        BY <2>1, <2>2, <2>3 DEF StartedInv
<1> QED
    BY <1>2, <1>3, <1>5, <1>6, <1>7, <1>8 DEF CoreInv

-----------------------------------------------------------------------------
(* Reload and Close                                                        *)

\* A caller inside lifeMu has a process.
LEMMA CallerHasProcess ==
    ASSUME CoreInv, NEW c \in Callers, apc[c] # "idle"
    PROVE  lastCfg # None
    BY EngineAssumption DEF CoreInv, Mutex, Down

\* A caller's step disturbs no request as long as nothing started is taken back.
LEMMA CallerFrame ==
    ASSUME CoreInv, UNCHANGED <<requestVars, boots>>, lastCfg # None, lastCfg' # None,
           \A t \in Snaps : (Started(t) => Started(t)') /\ (GivenUp(t) => GivenUp(t)')
    PROVE  /\ RequestTypes' /\ RequestShape' /\ Down'
           /\ \A t \in Snaps : Held(t)' = Held(t)
           /\ \A r \in Requests :
                 /\ rpc'[r] \in Loaded => Started(rsnap[r])'
                 /\ rpc'[r] = "wait" => GivenUp(rsnap[r])'
<1>1. RequestTypes' /\ RequestShape' /\ Down' /\ \A t \in Snaps : Held(t)' = Held(t)
    BY DEF CoreInv, CoreTypes, RequestTypes, RequestShape, Down, Held
<1>2. ASSUME NEW r \in Requests
      PROVE  (rpc'[r] \in Loaded => Started(rsnap[r])') /\ (rpc'[r] = "wait" => GivenUp(rsnap[r])')
    <2>1. rpc[r] \in Loaded => rsnap[r] \in Snaps
        BY DEF CoreInv, RequestShape
    <2> QED
        BY <2>1 DEF CoreInv, StartedInv, Loaded, Started, GivenUp
<1> QED
    BY <1>1, <1>2

\* The snapshot that Reload makes is one nobody has seen.
LEMMA FreshUnmade ==
    ASSUME Unmade # {}
    PROVE  Fresh \in Unmade /\ Fresh \in Snaps /\ phase[Fresh] = "unmade"
<1> DEFINE R == {p \in Nat \X Nat : p[1] < p[2]}
<1>1. Unmade \subseteq Nat
    BY EngineAssumption DEF Unmade
<1>2. \E s \in Unmade : \A t \in Unmade : ~(<<t, s>> \in R)
    <2>1. IsWellFoundedOn(R, Nat)
        BY NatLessThanWellFounded, Zenon DEF OpToRel
    <2> HIDE DEF R
    <2> QED
        BY <1>1, <2>1, WFMin
<1>3. \A s, t \in Nat : t < s => <<t, s>> \in R
    OBVIOUS
<1> HIDE DEF R
<1>4. \E s \in Unmade : \A t \in Unmade : s <= t
    <2>1. PICK s \in Unmade : \A t \in Unmade : ~(<<t, s>> \in R)
        BY <1>2
    <2>2. ASSUME NEW t \in Unmade PROVE s <= t
        <3>1. s \in Nat /\ t \in Nat
            BY <1>1
        <3>2. ~(t < s)
            BY <3>1, <2>1, <1>3, Zenon
        <3> QED
            BY <3>1, <3>2
    <2> QED
        BY <2>2
<1>5. Fresh \in Unmade
    BY <1>4 DEF Fresh
<1> QED
    BY <1>5 DEF Unmade

\* Reload builds a snapshot, or returns with an error.
LEMMA ReloadInv ==
    ASSUME CoreInv, NEW c \in Callers, Reload(c)
    PROVE  CoreInv'
<1> USE DEF Reload
<1>0. lastCfg # None /\ lastCfg' = lastCfg /\ \A d \in Callers : apc[d] = "idle"
    BY NobodyInside DEF Running, LifeFree, CoreInv
<1>1. CASE UNCHANGED <<lifeMu, snapVars, fileList, fileHash, fpc, callerVars>>
    BY <1>1, CoreUnchanged DEF coreVars
<1>2. CASE /\ snap # None /\ Unmade # {}
           /\ lifeMu' = c
           /\ \E g \in Configs : Loads(g) /\ LoadSnapshot(Fresh, g, FALSE)
           /\ anew' = [anew EXCEPT ![c] = Fresh]
           /\ aold' = [aold EXCEPT ![c] = snap]
           /\ Move(c, "seed")
    <2> DEFINE n == Fresh
    <2>0. n \in Snaps /\ phase[n] = "unmade"
        BY <1>2, FreshUnmade
    <2> HIDE DEF n
    <2>1. PICK g \in Configs : LoadSnapshot(n, g, FALSE)
        BY <1>2 DEF n
    <2>2. /\ lifeMu' = c /\ snap \in Snaps
          /\ anew' = [anew EXCEPT ![c] = n] /\ aold' = [aold EXCEPT ![c] = snap]
          /\ apc' = [apc EXCEPT ![c] = "seed"]
        BY <1>2 DEF n, Move, CoreInv, CoreTypes, EngineTypes
    <2>3. n # snap
        BY <2>0, <1>2 DEF CoreInv, StartedInv, Started
    <2>4. SnapTypes' /\ cfgOf'[n] = g /\ refs'[n] = 1 /\ phase'[n] = "loaded"
        BY <2>0, <2>1 DEF LoadSnapshot, CoreInv, CoreTypes, SnapTypes
    <2>5. \A t \in Snaps \ {n} : cfgOf'[t] = cfgOf[t] /\ refs'[t] = refs[t] /\ phase'[t] = phase[t]
        BY <2>1 DEF LoadSnapshot, CoreInv, CoreTypes, SnapTypes
    <2>6. /\ RequestTypes' /\ RequestShape' /\ Down'
          /\ \A t \in Snaps : Held(t)' = Held(t)
          /\ \A r \in Requests :
                /\ rpc'[r] \in Loaded => Started(rsnap[r])'
                /\ rpc'[r] = "wait" => GivenUp(rsnap[r])'
        <3>1. \A t \in Snaps : (Started(t) => Started(t)') /\ (GivenUp(t) => GivenUp(t)')
            BY <2>0, <2>5 DEF Started, GivenUp
        <3> QED
            BY <3>1, <1>0, CallerFrame
    <2>7. EngineTypes' /\ CallerTypes'
        BY <2>0, <2>2 DEF CoreInv, CoreTypes, EngineTypes, CallerTypes, Places
    <2>8. /\ apc'[c] = "seed" /\ anew'[c] = n /\ aold'[c] = snap
          /\ \A d \in Callers \ {c} :
                apc'[d] = "idle" /\ anew'[d] = anew[d] /\ aold'[d] = aold[d]
        BY <1>0, <2>2 DEF CoreInv, CoreTypes, CallerTypes
    <2>9. Mutex'
        BY <2>2, <2>8 DEF Mutex
    <2>10. CallerShape'
        BY <2>0, <2>2, <2>3, <2>4, <2>5, <2>8, <1>0, EngineAssumption DEF CoreInv, CallerShape
    <2>11. Counting'
        <3> SUFFICES ASSUME NEW t \in Snaps
                     PROVE  refs'[t] = Cardinality(Held(t)') + (IF Owned(t)' THEN 1 ELSE 0)
            BY DEF Counting
        <3>0. refs[t] = Cardinality(Held(t)) + (IF Owned(t) THEN 1 ELSE 0)
            BY DEF CoreInv, Counting
        <3>1. CASE t = n
            <4>1. ~Owned(t) /\ Held(t) = {}
                BY <2>0, <3>1, OpenWhileHeld DEF CoreInv
            <4>2. Owned(t)'
                BY <2>8, <3>1 DEF Owned
            <4>3. Cardinality(Held(t)') = 0
                BY <2>6, <4>1, FS_EmptySet
            <4> QED
                BY <4>2, <4>3, <3>1, <2>4
        <3>2. CASE t # n
            <4>1. Owned(t)' <=> Owned(t)
                BY <1>0, <2>8, <3>2 DEF Owned
            <4> QED
                BY <4>1, <3>0, <3>2, <2>5, <2>6
        <3> QED
            BY <3>1, <3>2
    <2>12. PhaseFollowsRefs'
        BY <2>4, <2>5 DEF CoreInv, PhaseFollowsRefs
    <2>13. StartedInv'
        <3>1. (snap # None => Started(snap))'
            BY <2>2, <2>3, <2>5 DEF CoreInv, StartedInv, Started
        <3> QED
            BY <3>1, <2>6, <2>8 DEF StartedInv
    <2>14. ConfigInv'
        BY <1>0, <2>2, <2>3, <2>5, <2>8 DEF CoreInv, ConfigInv
    <2> QED
        BY <2>4, <2>6, <2>7, <2>9, <2>10, <2>11, <2>12, <2>13, <2>14 DEF CoreInv, CoreTypes
<1> QED
    BY <1>1, <1>2

\* A caller that only moves on, holding what it held: SeedURLFeedsFrom and the store of
\* the configuration.
LEMMA CallerMoves ==
    ASSUME CoreInv, NEW c \in Callers, NEW place \in Places, apc[c] # "idle",
           apc' = [apc EXCEPT ![c] = place],
           UNCHANGED <<snap, attackCfg, lifeMu, snapVars, anew, aold, requestVars, boots>>,
           lastCfg' \in Configs, place # "idle",
           CallerShape', ConfigInv',
           \A s \in Snaps : Owned(s)' <=> Owned(s),
           place = "swap" => Started(anew[c]), place = "wait" => GivenUp(aold[c])
    PROVE  CoreInv'
<1>0. lastCfg # None /\ lastCfg' # None
    BY CallerHasProcess, EngineAssumption
<1>1. \A t \in Snaps : (Started(t) => Started(t)') /\ (GivenUp(t) => GivenUp(t)')
    BY DEF Started, GivenUp
<1>2. /\ RequestTypes' /\ RequestShape' /\ Down'
      /\ \A t \in Snaps : Held(t)' = Held(t)
      /\ \A r \in Requests :
            /\ rpc'[r] \in Loaded => Started(rsnap[r])'
            /\ rpc'[r] = "wait" => GivenUp(rsnap[r])'
    BY <1>0, <1>1, CallerFrame
<1>3. EngineTypes' /\ SnapTypes' /\ CallerTypes'
    BY DEF CoreInv, CoreTypes, EngineTypes, SnapTypes, CallerTypes
<1>4. apc'[c] = place /\ \A d \in Callers \ {c} : apc'[d] = apc[d]
    BY DEF CoreInv, CoreTypes, CallerTypes
<1>5. Mutex'
    BY <1>4 DEF CoreInv, Mutex
<1>6. Counting'
    BY <1>2, CountingKept DEF CoreInv
<1>7. PhaseFollowsRefs'
    BY DEF CoreInv, PhaseFollowsRefs
<1>8. StartedInv'
    <2>1. (snap # None => Started(snap))'
        BY DEF CoreInv, StartedInv, Started
    <2>2. ASSUME NEW d \in Callers
          PROVE  (apc'[d] = "swap" => Started(anew[d])') /\ (apc'[d] = "wait" => GivenUp(aold[d])')
        BY <1>4 DEF CoreInv, StartedInv, Started, GivenUp
    <2> QED
        BY <2>1, <2>2, <1>2 DEF StartedInv
<1> QED
    BY <1>2, <1>3, <1>5, <1>6, <1>7, <1>8 DEF CoreInv, CoreTypes

\* SeedURLFeedsFrom touches the lists alone.
LEMMA ReloadSeedInv ==
    ASSUME CoreInv, NEW c \in Callers, ReloadSeed(c)
    PROVE  CoreInv'
<1> USE DEF ReloadSeed, Move
<1>0. apc'[c] = "start" /\ \A d \in Callers \ {c} : apc'[d] = apc[d]
    BY DEF CoreInv, CoreTypes, CallerTypes
<1>1. CallerShape'
    BY <1>0 DEF CoreInv, CallerShape
<1>2. ConfigInv'
    BY <1>0 DEF CoreInv, ConfigInv
<1>3. \A s \in Snaps : Owned(s)' <=> Owned(s)
    BY <1>0 DEF Owned
<1>4. lastCfg' \in Configs
    BY CallerHasProcess DEF CoreInv, CoreTypes, EngineTypes
<1> QED
    BY <1>1, <1>2, <1>3, <1>4, CallerMoves DEF Places

\* The store of the configuration that was swapped in.
LEMMA ReloadStoreInv ==
    ASSUME CoreInv, NEW c \in Callers, ReloadStore(c)
    PROVE  CoreInv'
<1> USE DEF ReloadStore, Move
<1>0. apc'[c] = "release" /\ \A d \in Callers \ {c} : apc'[d] = apc[d] /\ apc[d] = "idle"
    BY Alone DEF CoreInv, CoreTypes, CallerTypes
<1>1. CallerShape'
    BY <1>0 DEF CoreInv, CallerShape
<1>2. anew[c] = snap /\ snap # None /\ cfgOf[snap] \in Configs
    BY DEF CoreInv, CallerShape
<1>3. ConfigInv'
    BY <1>0, <1>2 DEF CoreInv, ConfigInv
<1>4. \A s \in Snaps : Owned(s)' <=> Owned(s)
    BY <1>0 DEF Owned
<1> QED
    BY <1>1, <1>2, <1>3, <1>4, CallerMoves DEF Places

\* startSnapshot.
LEMMA ReloadStartInv ==
    ASSUME CoreInv, NEW c \in Callers, ReloadStart(c)
    PROVE  CoreInv'
<1> DEFINE n == anew[c]
<1> USE DEF ReloadStart, Move
<1>0. /\ lastCfg # None /\ apc'[c] = "swap"
      /\ \A d \in Callers \ {c} : apc'[d] = apc[d] /\ apc[d] = "idle"
    BY CallerHasProcess, Alone DEF CoreInv, CoreTypes, CallerTypes
<1>1. n \in Snaps /\ n # snap /\ Owned(n)
    BY DEF CoreInv, CallerShape, Owned
<1>2. refs[n] > 0
    BY <1>1, OpenWhileHeld DEF CoreInv
<1>3. phase'[n] = "live" /\ \A t \in Snaps \ {n} : phase'[t] = phase[t]
    BY <1>1 DEF CoreInv, CoreTypes, SnapTypes
<1>4. \A t \in Snaps : (Started(t) => Started(t)') /\ (GivenUp(t) => GivenUp(t)')
    BY <1>1, <1>2, <1>3 DEF CoreInv, PhaseFollowsRefs, Started, GivenUp
<1>5. /\ RequestTypes' /\ RequestShape' /\ Down'
      /\ \A t \in Snaps : Held(t)' = Held(t)
      /\ \A r \in Requests :
            /\ rpc'[r] \in Loaded => Started(rsnap[r])'
            /\ rpc'[r] = "wait" => GivenUp(rsnap[r])'
    BY <1>0, <1>4, CallerFrame
<1>6. EngineTypes' /\ SnapTypes' /\ CallerTypes'
    BY DEF CoreInv, CoreTypes, EngineTypes, SnapTypes, CallerTypes, Places
<1>7. Mutex' /\ CallerShape'
    BY <1>0 DEF CoreInv, Mutex, CallerShape
<1>8. Counting'
    <2>1. \A s \in Snaps : Owned(s)' <=> Owned(s)
        BY <1>0 DEF Owned
    <2> QED
        BY <2>1, <1>5, CountingKept DEF CoreInv
<1>9. PhaseFollowsRefs'
    BY <1>2, <1>3 DEF CoreInv, PhaseFollowsRefs
<1>10. StartedInv'
    <2>1. (snap # None => Started(snap))'
        BY <1>1, <1>4 DEF CoreInv, CoreTypes, EngineTypes, StartedInv
    <2>2. ASSUME NEW d \in Callers
          PROVE  (apc'[d] = "swap" => Started(anew[d])') /\ (apc'[d] = "wait" => GivenUp(aold[d])')
        BY <1>0, <1>3 DEF Started
    <2> QED
        BY <2>1, <2>2, <1>5 DEF StartedInv
<1>11. ConfigInv'
    BY <1>0 DEF CoreInv, ConfigInv
<1> QED
    BY <1>5, <1>6, <1>7, <1>8, <1>9, <1>10, <1>11 DEF CoreInv, CoreTypes

\* The pointer changes hands, and with it who owns what.
LEMMA ReloadSwapInv ==
    ASSUME CoreInv, NEW c \in Callers, ReloadSwap(c)
    PROVE  CoreInv'
<1> USE DEF ReloadSwap, Move
<1>0. /\ lastCfg # None /\ apc'[c] = "store" /\ aold'[c] = snap
      /\ \A d \in Callers \ {c} : apc'[d] = "idle" /\ apc[d] = "idle" /\ aold'[d] = aold[d]
    BY CallerHasProcess, Alone DEF CoreInv, CoreTypes, CallerTypes
<1>1. /\ snap \in Snaps /\ aold[c] = snap /\ anew[c] \in Snaps \ {snap}
      /\ cfgOf[anew[c]] \in Configs /\ anew[c] # None
    BY EngineAssumption DEF CoreInv, CoreTypes, EngineTypes, CallerShape
<1>2. \A t \in Snaps : (Started(t) => Started(t)') /\ (GivenUp(t) => GivenUp(t)')
    BY DEF Started, GivenUp
<1>3. /\ RequestTypes' /\ RequestShape' /\ Down'
      /\ \A t \in Snaps : Held(t)' = Held(t)
      /\ \A r \in Requests :
            /\ rpc'[r] \in Loaded => Started(rsnap[r])'
            /\ rpc'[r] = "wait" => GivenUp(rsnap[r])'
    BY <1>0, <1>2, CallerFrame
<1>4. EngineTypes' /\ SnapTypes' /\ CallerTypes'
    BY <1>1 DEF CoreInv, CoreTypes, EngineTypes, SnapTypes, CallerTypes, Places
<1>5. Mutex'
    BY <1>0 DEF CoreInv, Mutex
<1>6. CallerShape'
    BY <1>0, <1>1 DEF CoreInv, CallerShape
<1>7. Counting'
    <2>1. \A s \in Snaps : Owned(s)' <=> Owned(s)
        BY <1>0, <1>1 DEF Owned
    <2> QED
        BY <2>1, <1>3, CountingKept DEF CoreInv
<1>8. PhaseFollowsRefs'
    BY DEF CoreInv, PhaseFollowsRefs
<1>9. StartedInv'
    <2>1. (snap # None => Started(snap))'
        BY <1>1 DEF CoreInv, StartedInv, Started
    <2>2. \A d \in Callers : apc'[d] # "swap" /\ apc'[d] # "wait"
        BY <1>0
    <2> QED
        BY <2>1, <2>2, <1>3 DEF StartedInv
<1>10. ConfigInv'
    BY <1>0 DEF CoreInv, ConfigInv
<1> QED
    BY <1>3, <1>4, <1>5, <1>6, <1>7, <1>8, <1>9, <1>10 DEF CoreInv, CoreTypes

\* Close takes the pointer away and owns what it pointed to.
LEMMA CloseInv ==
    ASSUME CoreInv, NEW c \in Callers, Close(c)
    PROVE  CoreInv'
<1> USE DEF Close, Move
<1>0. lastCfg # None /\ \A d \in Callers : apc[d] = "idle"
    BY NobodyInside DEF Running, LifeFree, CoreInv
<1>1. /\ apc'[c] = "release" /\ aold'[c] = snap /\ anew[c] = None /\ snap \in Snaps
      /\ \A d \in Callers \ {c} : apc'[d] = "idle" /\ aold'[d] = aold[d]
    BY <1>0 DEF CoreInv, CoreTypes, CallerTypes, EngineTypes, CallerShape
<1>2. \A t \in Snaps : (Started(t) => Started(t)') /\ (GivenUp(t) => GivenUp(t)')
    BY DEF Started, GivenUp
<1>3. /\ RequestTypes' /\ RequestShape' /\ Down'
      /\ \A t \in Snaps : Held(t)' = Held(t)
      /\ \A r \in Requests :
            /\ rpc'[r] \in Loaded => Started(rsnap[r])'
            /\ rpc'[r] = "wait" => GivenUp(rsnap[r])'
    BY <1>0, <1>2, CallerFrame
<1>4. EngineTypes' /\ SnapTypes' /\ CallerTypes'
    BY <1>1 DEF CoreInv, CoreTypes, EngineTypes, SnapTypes, CallerTypes, Places
<1>5. Mutex'
    BY <1>1 DEF Mutex
<1>6. CallerShape'
    BY <1>0, <1>1, EngineAssumption DEF CoreInv, CallerShape
<1>7. Counting'
    <2>1. \A s \in Snaps : Owned(s)' <=> Owned(s)
        BY <1>0, <1>1, EngineAssumption DEF Owned
    <2> QED
        BY <2>1, <1>3, CountingKept DEF CoreInv
<1>8. PhaseFollowsRefs'
    BY DEF CoreInv, PhaseFollowsRefs
<1>9. StartedInv'
    BY <1>1, <1>3 DEF StartedInv
<1>10. ConfigInv'
    <2>1. lastCfg = attackCfg
        BY <1>0 DEF CoreInv, ConfigInv
    <2> QED
        BY <2>1 DEF ConfigInv
<1> QED
    BY <1>3, <1>4, <1>5, <1>6, <1>7, <1>8, <1>9, <1>10 DEF CoreInv, CoreTypes

\* What follows the release keeps lifeMu, or leaves it with nothing in hand.
LEMMA AfterReleaseKeeps ==
    ASSUME CoreInv, NEW c \in Callers, apc[c] \in {"release", "wait"}, AfterRelease(c),
           UNCHANGED <<snap, lastCfg, attackCfg, cfgOf, anew, boots>>
    PROVE  /\ EngineTypes' /\ CallerTypes' /\ Mutex' /\ CallerShape' /\ ConfigInv'
           /\ apc'[c] \in {"attack", "idle"} /\ \A d \in Callers \ {c} : apc'[d] = "idle"
<1> USE DEF AfterRelease, Move
<1>0. lifeMu = c /\ \A d \in Callers \ {c} : apc[d] = "idle"
    BY Alone DEF CoreInv
<1>1. EngineTypes' /\ CallerTypes'
    BY EngineAssumption DEF CoreInv, CoreTypes, EngineTypes, CallerTypes, Places
<1>2. /\ apc'[c] = IF anew[c] # None THEN "attack" ELSE "idle"
      /\ aold'[c] = IF anew[c] # None THEN aold[c] ELSE None
      /\ \A d \in Callers \ {c} : apc'[d] = "idle" /\ aold'[d] = aold[d]
    BY <1>0 DEF CoreInv, CoreTypes, CallerTypes
<1>3. Mutex'
    BY <1>0, <1>2, EngineAssumption DEF Mutex
<1>4. CallerShape'
    BY <1>0, <1>2 DEF CoreInv, CallerShape
<1>5. ConfigInv'
    <2>1. anew[c] = None => lastCfg = attackCfg
        BY <1>0 DEF CoreInv, ConfigInv
    <2>2. snap # None => lastCfg = cfgOf[snap]
        BY <1>0 DEF CoreInv, ConfigInv
    <2> QED
        BY <1>2, <2>1, <2>2 DEF ConfigInv
<1> QED
    BY <1>1, <1>2, <1>3, <1>4, <1>5

\* The caller gives its reference up; a request may keep the caches open.
LEMMA ReleaseOldInv ==
    ASSUME CoreInv, NEW c \in Callers, ReleaseOld(c)
    PROVE  CoreInv'
<1> DEFINE s == aold[c]
<1> USE DEF ReleaseOld
<1>0. /\ lastCfg # None /\ lifeMu = c /\ s \in Snaps /\ s # snap /\ Owned(s)
      /\ \A d \in Callers \ {c} : apc[d] = "idle"
    BY CallerHasProcess, Alone DEF CoreInv, CallerShape, Owned
<1>1. refs[s] > 0
    BY <1>0, OpenWhileHeld DEF CoreInv
<1>2. /\ refs' \in [Snaps -> Nat]
      /\ refs'[s] = refs[s] - 1 /\ \A t \in Snaps \ {s} : refs'[t] = refs[t]
      /\ phase' \in [Snaps -> {"unmade", "loaded", "live", "cancelled", "closed"}]
      /\ PhaseFollowsRefs'
      /\ \A t \in Snaps : (Started(t) => Started(t)') /\ (GivenUp(t) => GivenUp(t)')
      /\ LastReference(refs[s] - 1) => GivenUp(s)'
    BY <1>0, <1>1, ReleaseKeeps DEF CoreInv
<1>3. /\ RequestTypes' /\ RequestShape' /\ Down'
      /\ \A t \in Snaps : Held(t)' = Held(t)
      /\ \A r \in Requests :
            /\ rpc'[r] \in Loaded => Started(rsnap[r])'
            /\ rpc'[r] = "wait" => GivenUp(rsnap[r])'
    BY <1>0, <1>2, CallerFrame
<1>4. /\ EngineTypes' /\ CallerTypes' /\ Mutex' /\ CallerShape' /\ ConfigInv'
      /\ apc'[c] \in {"attack", "idle", "wait"} /\ \A d \in Callers \ {c} : apc'[d] = "idle"
      /\ apc'[c] = "wait" => GivenUp(aold[c])'
    <2>1. CASE AfterRelease(c)
        BY <2>1, AfterReleaseKeeps
    <2>2. CASE LastReference(refs[s] - 1) /\ Move(c, "wait") /\ UNCHANGED <<lifeMu, aold>>
        <3> USE <2>2 DEF Move
        <3>1. apc'[c] = "wait" /\ \A d \in Callers \ {c} : apc'[d] = "idle"
            BY <1>0 DEF CoreInv, CoreTypes, CallerTypes
        <3>2. EngineTypes' /\ CallerTypes'
            BY DEF CoreInv, CoreTypes, EngineTypes, CallerTypes, Places
        <3>3. Mutex'
            BY <1>0, <3>1 DEF CoreInv, Mutex
        <3>4. CallerShape'
            BY <1>0, <3>1 DEF CoreInv, CallerShape
        <3>5. ConfigInv'
            BY <1>0, <3>1 DEF CoreInv, ConfigInv
        <3> QED
            BY <1>2, <3>1, <3>2, <3>3, <3>4, <3>5
    <2> QED
        BY <2>1, <2>2
<1>5. Counting'
    <2> SUFFICES ASSUME NEW t \in Snaps
                 PROVE  refs'[t] = Cardinality(Held(t)') + (IF Owned(t)' THEN 1 ELSE 0)
        BY DEF Counting
    <2>0. refs[t] = Cardinality(Held(t)) + (IF Owned(t) THEN 1 ELSE 0) /\ Held(t)' = Held(t)
        BY <1>3 DEF CoreInv, Counting
    <2>1. Owned(t)' <=> snap = t
        BY <1>4 DEF Owned
    <2>2. Owned(t) <=> snap = t \/ s = t
        BY <1>0 DEF Owned
    <2> QED
        BY <2>0, <2>1, <2>2, <1>0, <1>2, HeldCounts DEF CoreInv, CoreTypes, SnapTypes
<1>6. SnapTypes'
    BY <1>2 DEF CoreInv, CoreTypes, SnapTypes
<1>7. StartedInv'
    <2>1. (snap # None => Started(snap))'
        BY <1>2 DEF CoreInv, CoreTypes, EngineTypes, StartedInv
    <2> QED
        BY <2>1, <1>3, <1>4 DEF StartedInv
<1> QED
    BY <1>2, <1>3, <1>4, <1>5, <1>6, <1>7 DEF CoreInv, CoreTypes

\* The caches are closed, and the caller goes on.
LEMMA CallerClosesInv ==
    ASSUME CoreInv, NEW c \in Callers, CallerCloses(c)
    PROVE  CoreInv'
<1> DEFINE s == aold[c]
<1> USE DEF CallerCloses
<1>0. /\ lastCfg # None /\ s \in Snaps /\ s # snap /\ GivenUp(s)
      /\ \A d \in Callers \ {c} : apc[d] = "idle"
    BY CallerHasProcess, Alone DEF CoreInv, CallerShape, StartedInv
<1>2. /\ phase' \in [Snaps -> {"unmade", "loaded", "live", "cancelled", "closed"}]
      /\ PhaseFollowsRefs'
      /\ \A t \in Snaps : (Started(t) => Started(t)') /\ (GivenUp(t) => GivenUp(t)')
    BY <1>0, CloseKeeps DEF CoreInv
<1>3. /\ RequestTypes' /\ RequestShape' /\ Down'
      /\ \A t \in Snaps : Held(t)' = Held(t)
      /\ \A r \in Requests :
            /\ rpc'[r] \in Loaded => Started(rsnap[r])'
            /\ rpc'[r] = "wait" => GivenUp(rsnap[r])'
    BY <1>0, <1>2, CallerFrame
<1>4. /\ EngineTypes' /\ CallerTypes' /\ Mutex' /\ CallerShape' /\ ConfigInv'
      /\ apc'[c] \in {"attack", "idle"} /\ \A d \in Callers \ {c} : apc'[d] = "idle"
    BY AfterReleaseKeeps
<1>5. Counting'
    <2>1. \A t \in Snaps : Owned(t)' <=> Owned(t)
        BY <1>0, <1>4 DEF Owned
    <2> QED
        BY <2>1, <1>3, CountingKept DEF CoreInv
<1>6. SnapTypes'
    BY <1>2 DEF CoreInv, CoreTypes, SnapTypes
<1>7. StartedInv'
    <2>1. (snap # None => Started(snap))'
        BY <1>2 DEF CoreInv, CoreTypes, EngineTypes, StartedInv
    <2> QED
        BY <2>1, <1>3, <1>4 DEF StartedInv
<1> QED
    BY <1>2, <1>3, <1>4, <1>5, <1>6, <1>7 DEF CoreInv, CoreTypes

\* The detector has the configuration too, and Reload returns.
LEMMA ReloadAttackInv ==
    ASSUME CoreInv, NEW c \in Callers, ReloadAttack(c)
    PROVE  CoreInv'
<1> USE DEF ReloadAttack, Move, AttackModeSettings
<1>0. /\ lastCfg # None /\ lifeMu = c /\ snap # None /\ anew[c] = snap /\ cfgOf[snap] \in Configs
      /\ \A d \in Callers \ {c} : apc[d] = "idle"
    BY CallerHasProcess, Alone DEF CoreInv, CallerShape
<1>1. /\ \A d \in Callers : apc'[d] = "idle" /\ anew'[d] = None /\ aold'[d] = None
    BY <1>0 DEF CoreInv, CoreTypes, CallerTypes, CallerShape
<1>2. \A t \in Snaps : (Started(t) => Started(t)') /\ (GivenUp(t) => GivenUp(t)')
    BY DEF Started, GivenUp
<1>3. /\ RequestTypes' /\ RequestShape' /\ Down'
      /\ \A t \in Snaps : Held(t)' = Held(t)
      /\ \A r \in Requests :
            /\ rpc'[r] \in Loaded => Started(rsnap[r])'
            /\ rpc'[r] = "wait" => GivenUp(rsnap[r])'
    BY <1>0, <1>2, CallerFrame
<1>4. EngineTypes' /\ SnapTypes' /\ CallerTypes'
    BY <1>0 DEF CoreInv, CoreTypes, EngineTypes, SnapTypes, CallerTypes, Places
<1>5. Mutex' /\ CallerShape'
    BY <1>0, <1>1, EngineAssumption DEF CoreInv, Mutex, CallerShape
<1>6. Counting'
    <2>1. \A t \in Snaps : Owned(t)' <=> Owned(t)
        BY <1>0, <1>1 DEF Owned
    <2> QED
        BY <2>1, <1>3, CountingKept DEF CoreInv
<1>7. PhaseFollowsRefs'
    BY DEF CoreInv, PhaseFollowsRefs
<1>8. StartedInv'
    <2>1. (snap # None => Started(snap))'
        BY DEF CoreInv, StartedInv, Started
    <2> QED
        BY <2>1, <1>1, <1>3 DEF StartedInv
<1>9. ConfigInv'
    <2>1. lastCfg = cfgOf[snap]
        BY <1>0 DEF CoreInv, ConfigInv
    <2> QED
        BY <2>1, <1>0 DEF ConfigInv
<1> QED
    BY <1>3, <1>4, <1>5, <1>6, <1>7, <1>8, <1>9 DEF CoreInv, CoreTypes

-----------------------------------------------------------------------------
(* The process                                                             *)

\* No process.
LEMMA InitInv ==
    ASSUME Init
    PROVE  CoreInv
<1> USE DEF Init
<1>1. CoreTypes
    BY EngineAssumption DEF CoreTypes, EngineTypes, SnapTypes, CallerTypes, RequestTypes, Places
<1>2. Mutex /\ CallerShape /\ RequestShape
    BY EngineAssumption DEF Mutex, CallerShape, RequestShape, Loaded
<1>3. Counting
    <2> SUFFICES ASSUME NEW s \in Snaps
                 PROVE  refs[s] = Cardinality(Held(s)) + (IF Owned(s) THEN 1 ELSE 0)
        BY DEF Counting
    <2>1. Held(s) = {} /\ ~Owned(s)
        BY EngineAssumption DEF Held, Owned
    <2> QED
        BY <2>1, FS_EmptySet
<1>4. PhaseFollowsRefs /\ StartedInv /\ Down /\ ConfigInv
    BY DEF PhaseFollowsRefs, StartedInv, Down, ConfigInv, Loaded
<1> QED
    BY <1>1, <1>2, <1>3, <1>4 DEF CoreInv

\* The process ends.
LEMMA ExitInv ==
    ASSUME CoreInv, Exit
    PROVE  CoreInv'
<1> USE DEF Exit
<1>1. CoreTypes'
    BY EngineAssumption
       DEF CoreInv, CoreTypes, EngineTypes, SnapTypes, CallerTypes, RequestTypes, Places
<1>2. Mutex' /\ CallerShape' /\ RequestShape'
    BY EngineAssumption DEF Mutex, CallerShape, RequestShape, Loaded
<1>3. Counting'
    <2> SUFFICES ASSUME NEW s \in Snaps
                 PROVE  refs'[s] = Cardinality(Held(s)') + (IF Owned(s)' THEN 1 ELSE 0)
        BY DEF Counting
    <2>1. Held(s)' = {} /\ ~Owned(s)'
        BY EngineAssumption DEF Held, Owned
    <2> QED
        BY <2>1, FS_EmptySet
<1>4. PhaseFollowsRefs' /\ StartedInv' /\ Down' /\ ConfigInv'
    BY DEF PhaseFollowsRefs, StartedInv, Down, ConfigInv, Loaded
<1> QED
    BY <1>1, <1>2, <1>3, <1>4 DEF CoreInv

\* NewEngine, on what a process leaves.
LEMMA NewEngineInv ==
    ASSUME CoreInv, NewEngine
    PROVE  CoreInv'
<1> USE DEF NewEngine, LoadSnapshot
<1>0. /\ lastCfg = None /\ snap = None /\ attackCfg = None /\ lifeMu = None /\ boots \in Nat
      /\ \A r \in Requests : rpc[r] = "idle"
      /\ \A s \in Snaps : phase[s] = "unmade"
    BY DEF CoreInv, CoreTypes, EngineTypes, Down, Running
<1>1. 1 \in Snaps /\ 1 # None
    BY EngineAssumption
<1>2. \A d \in Callers : apc[d] = "idle"
    BY <1>0, NobodyInside DEF CoreInv
<1>3. PICK g \in Configs : LoadSnapshot(1, g, TRUE) /\ lastCfg' = g /\ attackCfg' = g
    OBVIOUS
<1>4. /\ SnapTypes' /\ cfgOf'[1] = g /\ refs'[1] = 1 /\ phase'[1] = "live"
      /\ \A t \in Snaps \ {1} : refs'[t] = refs[t] /\ phase'[t] = "unmade"
    BY <1>0, <1>1, <1>3 DEF CoreInv, CoreTypes, SnapTypes
<1>5. EngineTypes' /\ CallerTypes' /\ RequestTypes'
    BY <1>0, <1>1, <1>3 DEF CoreInv, CoreTypes, EngineTypes, CallerTypes, RequestTypes
<1>6. Mutex' /\ CallerShape' /\ RequestShape'
    BY <1>0, <1>2, <1>3, <1>4 DEF CoreInv, Mutex, CallerShape, RequestShape, Loaded
<1>7. Counting'
    <2> SUFFICES ASSUME NEW s \in Snaps
                 PROVE  refs'[s] = Cardinality(Held(s)') + (IF Owned(s)' THEN 1 ELSE 0)
        BY DEF Counting
    <2>1. Held(s)' = {} /\ Held(s) = {}
        BY <1>0 DEF Held
    <2>2. Cardinality(Held(s)') = 0 /\ Cardinality(Held(s)) = 0
        BY <2>1, FS_EmptySet
    <2>3. (Owned(s)' <=> s = 1) /\ ~Owned(s)
        BY <1>0, <1>2, EngineAssumption DEF Owned
    <2>4. refs[s] = 0
        BY <2>2, <2>3 DEF CoreInv, Counting
    <2> QED
        BY <2>2, <2>3, <2>4, <1>4
<1>8. PhaseFollowsRefs'
    BY <1>0, <1>4 DEF CoreInv, PhaseFollowsRefs
<1>9. StartedInv'
    BY <1>0, <1>1, <1>2, <1>4 DEF StartedInv, Started, Loaded
<1>10. Down' /\ ConfigInv'
    <2>1. g # None /\ boots' # 0
        BY <1>0, EngineAssumption
    <2> QED
        BY <2>1, <1>1, <1>2, <1>3, <1>4 DEF Down, ConfigInv
<1> QED
    BY <1>4, <1>5, <1>6, <1>7, <1>8, <1>9, <1>10 DEF CoreInv, CoreTypes

\* Every step keeps the invariant of the snapshots.
LEMMA CoreStep ==
    ASSUME CoreInv, [Next]_vars
    PROVE  CoreInv'
<1>1. ASSUME NEW r \in Requests, Arrive(r) \/ Request(r)
      PROVE  CoreInv'
    BY <1>1, ArriveInv, LoadPointerInv, ReadRefsInv, SwapRefsInv, EndEvaluateInv, RequestClosesInv
       DEF Request
<1>2. ASSUME NEW c \in Callers, Reload(c) \/ Close(c) \/ Caller(c)
      PROVE  CoreInv'
    BY <1>2, ReloadInv, CloseInv, ReloadSeedInv, ReloadStartInv, ReloadSwapInv, ReloadStoreInv,
       ReleaseOldInv, CallerClosesInv, ReloadAttackInv DEF Caller
<1>3. ASSUME NEW s \in Snaps, Feed(s) \/ Fetch(s) \/ Poll(s)
      PROVE  CoreInv'
    <2>1. UNCHANGED coreVars
        BY <1>3 DEF coreVars, Feed, LoadCache, FetchInstall, FetchSave, FetchStop, Fetch, Poll
    <2> QED
        BY <2>1, CoreUnchanged
<1>4. CASE EditFile
    BY <1>4, CoreUnchanged DEF EditFile, coreVars
<1>5. CASE UNCHANGED vars
    BY <1>5, CoreUnchanged DEF vars, coreVars
<1> QED
    BY <1>1, <1>2, <1>3, <1>4, <1>5, NewEngineInv, ExitInv DEF Next

\* A request evaluates on caches that are open and refreshed: acquire never revives a
\* snapshot that Reload or Close gave up, and nobody closes one that is held.
THEOREM EvaluatesOpenCaches == Spec => []NoUseAfterClose
<1>1. CoreInv => NoUseAfterClose
    <2> SUFFICES ASSUME CoreInv, NEW r \in Requests, rpc[r] = "eval"
                 PROVE  phase[rsnap[r]] = "live"
        BY DEF NoUseAfterClose
    <2>1. rsnap[r] \in Snaps /\ Started(rsnap[r]) /\ r \in Held(rsnap[r])
        BY DEF CoreInv, RequestShape, StartedInv, Loaded, Held
    <2> QED
        BY <2>1, OpenWhileHeld DEF CoreInv, Started
<1> QED
    BY <1>1, InitInv, CoreStep, PTL DEF Spec

\* Once Reload and Close have returned, only the engine's snapshot is open besides those
\* that requests hold, and one configuration is in force everywhere.
THEOREM ReloadsAreWhole == Spec => []ReloadIsWhole
<1>1. CoreInv => ReloadIsWhole
    <2> SUFFICES ASSUME CoreInv, lifeMu = None
                 PROVE  /\ \A s \in Snaps \ {snap} :
                              phase[s] \in {"loaded", "live"} => Held(s) # {}
                        /\ Running => /\ lastCfg = attackCfg
                                      /\ snap # None => lastCfg = cfgOf[snap]
        BY DEF ReloadIsWhole
    <2>0. \A d \in Callers : apc[d] = "idle"
        BY NobodyInside DEF CoreInv
    <2>1. ASSUME NEW s \in Snaps \ {snap}, phase[s] \in {"loaded", "live"}, Held(s) = {}
          PROVE  FALSE
        <3>1. ~Owned(s)
            BY <2>0, <2>1 DEF Owned
        <3>2. refs[s] = 0
            BY <2>1, <3>1, FS_EmptySet DEF CoreInv, Counting
        <3> QED
            BY <2>1, <3>2 DEF CoreInv, PhaseFollowsRefs
    <2>2. lastCfg = attackCfg /\ (snap # None => lastCfg = cfgOf[snap])
        BY <2>0 DEF CoreInv, ConfigInv
    <2> QED
        BY <2>1, <2>2
<1> QED
    BY <1>1, InitInv, CoreStep, PTL DEF Spec

-----------------------------------------------------------------------------
(* Feeds                                                                   *)

\* A list with entries is replaced by nothing but another one: what installs over a URL
\* feed or from its cache has entries.
LEMMA InstallsGood ==
    ASSUME NEW old, NEW body
    PROVE  Installs(old, body, "url") \/ Installs(old, body, "cache") => body \in Good
    BY DEF Installs

\* A local list that loads is a list.
LEMMA InstallsList ==
    ASSUME NEW old, NEW body, Installs(old, body, "file")
    PROVE  body \in Lists
    BY DEF Installs, Lists

\* The refreshers, the poller and the operator.
LEMMA FeedActionTypes ==
    ASSUME FeedTypes, NEW s \in Snaps, Feed(s) \/ Fetch(s) \/ Poll(s) \/ EditFile
    PROVE  FeedTypes'
<1>1. CASE LoadCache(s)
    BY <1>1, InstallsGood DEF LoadCache, FeedTypes, Lists
<1>2. CASE Fetch(s)
    BY <1>2 DEF Fetch, FeedTypes
<1>3. CASE FetchInstall(s)
    <2> USE DEF FeedTypes, Lists
    <2>1. CASE Installs(urlList[s], fbody[s], "url")
        <3>1. fbody[s] \in Good
            BY <2>1, InstallsGood
        <3>2. /\ urlList' = [urlList EXCEPT ![s] = fbody[s]]
              /\ fpc' = [fpc EXCEPT ![s] = IF CacheDir THEN "save" ELSE "wait"]
              /\ fbody' = IF CacheDir THEN fbody ELSE [fbody EXCEPT ![s] = None]
              /\ UNCHANGED <<fileList, fileHash, disk, file>>
            BY <1>3, <2>1 DEF FetchInstall
        <3>3. late' \in BOOLEAN
            BY <1>3 DEF FetchInstall
        <3> QED
            BY <3>1, <3>2, <3>3
    <2>2. CASE ~Installs(urlList[s], fbody[s], "url")
        <3>2. /\ urlList' = urlList
              /\ fpc' = [fpc EXCEPT ![s] = "wait"]
              /\ fbody' = [fbody EXCEPT ![s] = None]
              /\ UNCHANGED <<fileList, fileHash, disk, file>>
            BY <1>3, <2>2 DEF FetchInstall
        <3>3. late' \in BOOLEAN
            BY <1>3 DEF FetchInstall
        <3> QED
            BY <3>2, <3>3
    <2> QED
        BY <2>1, <2>2
<1>4. CASE FetchSave(s)
    BY <1>4 DEF FetchSave, FeedTypes
<1>5. CASE FetchStop(s)
    BY <1>5 DEF FetchStop, FeedTypes
<1>6. CASE Poll(s)
    BY <1>6, InstallsList DEF Poll, FeedTypes
<1>7. CASE EditFile
    BY <1>7 DEF EditFile, FeedTypes
<1> QED
    BY <1>1, <1>2, <1>3, <1>4, <1>5, <1>6, <1>7 DEF Feed

\* loadSnapshot and what it does to the feeds.
LEMMA LoadSnapshotTypes ==
    ASSUME FeedTypes, NEW s \in Snaps, NEW g \in Configs, NEW start \in BOOLEAN,
           Loads(g), LoadSnapshot(s, g, start), UNCHANGED <<urlList, fbody, disk, file>>,
           late' \in BOOLEAN
    PROVE  FeedTypes'
<1>1. g.file => file \in Lists
    BY InstallsList DEF Loads
<1>2. (fileList \in [Snaps -> Lists])' /\ (fileHash \in [Snaps -> Bodies \cup {None}])'
    BY <1>1 DEF LoadSnapshot, FeedTypes, Lists, Bodies
<1>3. /\ (fpc \in [Snaps -> {"off", "seed", "wait", "fetched", "save"}])'
      /\ \A t \in Snaps : fpc'[t] = "save" => fpc[t] = "save"
    BY DEF LoadSnapshot, FeedTypes
<1> QED
    BY <1>2, <1>3 DEF FeedTypes

\* The callers and the process.
LEMMA CallerFeedTypes ==
    ASSUME CoreInv, FeedTypes, NEW c \in Callers, Reload(c) \/ Close(c) \/ Caller(c)
    PROVE  FeedTypes'
<1>1. CASE Reload(c)
    <2>1. CASE UNCHANGED <<fileList, fileHash, fpc>>
        BY <1>1, <2>1 DEF Reload, FeedTypes
    <2>2. CASE Unmade # {} /\ \E g \in Configs : Loads(g) /\ LoadSnapshot(Fresh, g, FALSE)
        <3>1. Fresh \in Snaps
            BY <2>2, FreshUnmade
        <3>2. UNCHANGED <<urlList, fbody, disk, file>> /\ late' \in BOOLEAN
            BY <1>1 DEF Reload
        <3> QED
            BY <2>2, <3>1, <3>2, LoadSnapshotTypes
    <2> QED
        BY <1>1, <2>1, <2>2 DEF Reload
<1>2. CASE ReloadSeed(c)
    <2>1. anew[c] \in Snaps /\ aold[c] \in Snaps
        BY <1>2 DEF ReloadSeed, CoreInv, CoreTypes, EngineTypes, CallerShape
    <2> QED
        BY <1>2, <2>1 DEF ReloadSeed, SeedURLFeedsFrom, FeedTypes
<1>3. CASE ReloadStart(c)
    BY <1>3 DEF ReloadStart, FeedTypes
<1>4. CASE Close(c) \/ ReloadSwap(c) \/ ReloadStore(c) \/ ReleaseOld(c) \/ CallerCloses(c)
           \/ ReloadAttack(c)
    BY <1>4 DEF Close, ReloadSwap, ReloadStore, ReleaseOld, CallerCloses, ReloadAttack, FeedTypes
<1> QED
    BY <1>1, <1>2, <1>3, <1>4 DEF Caller

\* Every step keeps the feeds in their types.
LEMMA FeedTypesStep ==
    ASSUME CoreInv, FeedTypes, [Next]_vars
    PROVE  FeedTypes'
<1>1. ASSUME NEW r \in Requests, Arrive(r) \/ Request(r)
      PROVE  FeedTypes'
    BY <1>1 DEF Arrive, Request, LoadPointer, ReadRefs, SwapRefs, EndEvaluate, RequestCloses,
                FeedTypes
<1>2. ASSUME NEW c \in Callers, Reload(c) \/ Close(c) \/ Caller(c)
      PROVE  FeedTypes'
    BY <1>2, CallerFeedTypes
<1>3. ASSUME NEW s \in Snaps, Feed(s) \/ Fetch(s) \/ Poll(s)
      PROVE  FeedTypes'
    BY <1>3, FeedActionTypes
<1>4. CASE NewEngine
    <2>1. 1 \in Snaps /\ UNCHANGED <<urlList, fbody, disk, file>> /\ late' \in BOOLEAN
        BY <1>4, EngineAssumption DEF NewEngine, FeedTypes
    <2> QED
        BY <1>4, <2>1, LoadSnapshotTypes DEF NewEngine
<1>5. CASE Exit
    BY <1>5 DEF Exit, FeedTypes, Lists, Bodies
<1>6. CASE EditFile
    BY <1>6 DEF EditFile, FeedTypes
<1>7. CASE UNCHANGED vars
    BY <1>7 DEF vars, FeedTypes
<1> QED
    BY <1>1, <1>2, <1>3, <1>4, <1>5, <1>6, <1>7 DEF Next

\* What a refresher does to the lists: one with entries stays one with entries.
LEMMA ListsKept ==
    ASSUME FeedTypes, NEW s \in Snaps, LoadCache(s) \/ FetchInstall(s), NEW t \in Snaps
    PROVE  /\ urlList[t] \in Good => urlList'[t] \in Good
           /\ t # s => urlList'[t] = urlList[t]
<1>1. None \notin Good
    BY EngineAssumption
<1>2. CASE LoadCache(s)
    BY <1>1, <1>2, InstallsGood DEF LoadCache, FeedTypes
<1>3. CASE FetchInstall(s)
    BY <1>3, InstallsGood DEF FetchInstall, FeedTypes
<1> QED
    BY <1>2, <1>3

\* Every step keeps a seeded replacement seeded.
LEMMA SeedStep ==
    ASSUME CoreInv, FeedTypes, SeedInv, [Next]_vars
    PROVE  SeedInv'
<1>1. CASE UNCHANGED <<snap, cfgOf, apc, anew, urlList, late>>
    BY <1>1 DEF SeedInv
<1>2. CASE \A c \in Callers : apc'[c] \notin {"start", "swap"}
    BY <1>2 DEF SeedInv
<1>3. ASSUME NEW s \in Snaps, LoadCache(s) \/ FetchInstall(s)
      PROVE  SeedInv'
    <2> SUFFICES ASSUME NEW c \in Callers, (apc[c] \in {"start", "swap"})', ~late',
                        (cfgOf[anew[c]].url # None /\ cfgOf[anew[c]].url = cfgOf[snap].url)',
                        (urlList[snap] \in Good)'
                 PROVE  (urlList[anew[c]] \in Good)'
        BY DEF SeedInv
    <2>1. UNCHANGED <<snap, cfgOf, apc, anew, aold>> /\ late' = (late \/ CopiedFrom(s))
        BY <1>3 DEF LoadCache, FetchInstall
    <2>2. snap \in Snaps /\ anew[c] \in Snaps /\ aold[c] = snap
        BY <2>1 DEF CoreInv, CoreTypes, EngineTypes, CallerShape
    <2>3. ~late /\ s # snap
        BY <2>1, <2>2 DEF CopiedFrom
    <2>4. urlList[snap] \in Good
        BY <1>3, <2>1, <2>2, <2>3, ListsKept
    <2>5. urlList[anew[c]] \in Good
        BY <2>1, <2>3, <2>4 DEF SeedInv
    <2> QED
        BY <1>3, <2>1, <2>2, <2>5, ListsKept
<1>4. ASSUME NEW r \in Requests, Arrive(r) \/ Request(r)
      PROVE  SeedInv'
    BY <1>1, <1>4 DEF Arrive, Request, LoadPointer, ReadRefs, SwapRefs, EndEvaluate, RequestCloses
<1>5. ASSUME NEW c \in Callers, Reload(c) \/ Close(c) \/ Caller(c)
      PROVE  SeedInv'
    <2>1. CASE ReloadSeed(c)
        <3> DEFINE n == anew[c]
        <3> USE <2>1 DEF ReloadSeed, Move
        <3>1. /\ n \in Snaps \ {snap} /\ snap \in Snaps /\ aold[c] = snap
              /\ \A d \in Callers \ {c} : apc[d] = "idle"
            BY Alone DEF CoreInv, CoreTypes, EngineTypes, CallerShape
        <3>2. \A d \in Callers \ {c} : apc'[d] = "idle"
            BY <3>1 DEF CoreInv, CoreTypes, CallerTypes
        <3>3. /\ urlList'[snap] = urlList[snap]
              /\ cfgOf[n].url # None /\ cfgOf[n].url = cfgOf[snap].url => urlList'[n] = urlList[snap]
            BY <3>1 DEF SeedURLFeedsFrom, FeedTypes
        <3> QED
            BY <3>2, <3>3 DEF SeedInv
    <2>2. CASE ReloadStart(c)
        <3>1. apc'[c] = "swap" /\ apc[c] = "start" /\ \A d \in Callers \ {c} : apc'[d] = apc[d]
            BY <2>2 DEF ReloadStart, Move, CoreInv, CoreTypes, CallerTypes
        <3>2. UNCHANGED <<snap, cfgOf, anew, urlList, late>>
            BY <2>2 DEF ReloadStart
        <3> QED
            BY <3>1, <3>2 DEF SeedInv
    <2>3. CASE Reload(c) \/ Close(c)
        <3>1. \A d \in Callers : apc[d] = "idle"
            BY <2>3, NobodyInside DEF Reload, Close, LifeFree, CoreInv
        <3>2. \A d \in Callers : apc'[d] \in {"idle", "seed", "release"}
            BY <2>3, <3>1 DEF Reload, Close, Move, CoreInv, CoreTypes, CallerTypes
        <3> QED
            BY <1>2, <3>2
    <2>4. CASE ReloadSwap(c) \/ ReloadStore(c) \/ ReleaseOld(c) \/ CallerCloses(c) \/ ReloadAttack(c)
        <3>1. apc[c] # "idle"
            BY <2>4 DEF ReloadSwap, ReloadStore, ReleaseOld, CallerCloses, ReloadAttack
        <3>2. \A d \in Callers \ {c} : apc[d] = "idle"
            BY <3>1, Alone DEF CoreInv
        <3>3. \E place \in {"store", "release", "wait", "attack", "idle"} :
                 apc' = [apc EXCEPT ![c] = place]
            BY <2>4 DEF ReloadSwap, ReloadStore, ReleaseOld, CallerCloses, ReloadAttack,
                        AfterRelease, Move
        <3>4. \A d \in Callers : apc'[d] \notin {"start", "swap"}
            BY <3>2, <3>3 DEF CoreInv, CoreTypes, CallerTypes
        <3> QED
            BY <1>2, <3>4
    <2> QED
        BY <1>5, <2>1, <2>2, <2>3, <2>4 DEF Caller
<1>6. ASSUME NEW s \in Snaps, FetchSave(s) \/ FetchStop(s) \/ Fetch(s) \/ Poll(s)
      PROVE  SeedInv'
    BY <1>1, <1>6 DEF FetchSave, FetchStop, Fetch, Poll
<1>7. CASE NewEngine
    <2>1. lifeMu = None
        BY <1>7 DEF NewEngine, Running, CoreInv, CoreTypes, EngineTypes, Down
    <2>2. \A d \in Callers : apc'[d] = "idle"
        BY <1>7, <2>1, NobodyInside DEF NewEngine, CoreInv
    <2> QED
        BY <1>2, <2>2
<1>8. CASE Exit
    BY <1>2, <1>8 DEF Exit
<1>9. CASE EditFile \/ UNCHANGED vars
    BY <1>1, <1>9 DEF EditFile, vars
<1> QED
    BY <1>3, <1>4, <1>5, <1>6, <1>7, <1>8, <1>9 DEF Next, Feed

\* The count that acquire read was possible.
LEMMA CountReadStep ==
    ASSUME CoreInv, CountRead, [Next]_vars
    PROVE  CountRead'
<1> USE DEF CoreInv, CoreTypes, RequestTypes, CountRead
<1>0. Cardinality(Requests) \in Nat
    BY HeldCounts
<1>1. CASE UNCHANGED rn
    BY <1>1
<1>2. ASSUME NEW r \in Requests, rn' = [rn EXCEPT ![r] = 0]
      PROVE  CountRead'
    BY <1>0, <1>2
<1>3. ASSUME NEW r \in Requests, ReadRefs(r)
      PROVE  CountRead'
    <2>1. rsnap[r] \in Snaps
        BY <1>3 DEF ReadRefs, RequestShape, Loaded
    <2>2. refs[rsnap[r]] <= 1 + Cardinality(Requests)
        BY <2>1, HeldCounts DEF Counting
    <2> QED
        BY <1>3, <2>2 DEF ReadRefs
<1>4. CASE Exit
    BY <1>0, <1>4 DEF Exit
<1>5. ASSUME NEW r \in Requests, Arrive(r) \/ Request(r)
      PROVE  CountRead'
    BY <1>1, <1>2, <1>3, <1>5
       DEF Arrive, Request, LoadPointer, SwapRefs, EndEvaluate, RequestCloses, Finish
<1>6. ASSUME NEW c \in Callers, Reload(c) \/ Close(c) \/ Caller(c)
      PROVE  UNCHANGED rn
    BY <1>6 DEF Reload, Close, Caller, ReloadSeed, ReloadStart, ReloadSwap, ReloadStore, ReleaseOld,
                CallerCloses, ReloadAttack
<1>7. ASSUME NEW s \in Snaps, Feed(s) \/ Fetch(s) \/ Poll(s)
      PROVE  UNCHANGED rn
    BY <1>7 DEF Feed, LoadCache, FetchInstall, FetchSave, FetchStop, Fetch, Poll
<1>8. CASE NewEngine \/ EditFile \/ UNCHANGED vars
    BY <1>1, <1>8 DEF NewEngine, EditFile, vars
<1> QED
    BY <1>1, <1>4, <1>5, <1>6, <1>7, <1>8 DEF Next

\* The inductive invariant.
Inv == CoreInv /\ FeedTypes /\ SeedInv /\ CountRead

\* The inductive invariant holds throughout.
LEMMA InvHolds == Spec => []Inv
<1>1. Init => Inv
    <2> SUFFICES ASSUME Init PROVE Inv
        OBVIOUS
    <2>1. FeedTypes /\ SeedInv
        BY DEF Init, FeedTypes, SeedInv, Lists, Bodies
    <2>2. CountRead
        BY HeldCounts DEF Init, CountRead
    <2> QED
        BY <2>1, <2>2, InitInv DEF Inv
<1>2. Inv /\ [Next]_vars => Inv'
    BY CoreStep, FeedTypesStep, SeedStep, CountReadStep DEF Inv
<1> QED
    BY <1>1, <1>2, PTL DEF Spec

\* Types; in particular no count passes the number of requests by more than the owner.
THEOREM TypeCorrect == Spec => []TypeOK
<1>1. Inv => TypeOK
    <2> SUFFICES ASSUME Inv PROVE TypeOK
        OBVIOUS
    <2>1. Cardinality(Requests) \in Nat
        BY HeldCounts
    <2>2. refs \in [Snaps -> 0..(1 + Cardinality(Requests))]
        <3>1. ASSUME NEW s \in Snaps
              PROVE  refs[s] \in 0..(1 + Cardinality(Requests))
            BY <2>1, HeldCounts DEF Inv, CoreInv, CoreTypes, SnapTypes, Counting
        <3> QED
            BY <3>1 DEF Inv, CoreInv, CoreTypes, SnapTypes
    <2>3. rn \in [Requests -> 0..(1 + Cardinality(Requests))]
        BY <2>1 DEF Inv, CoreInv, CoreTypes, RequestTypes, CountRead
    <2> QED
        BY <2>2, <2>3 DEF Inv, CoreInv, CoreTypes, EngineTypes, SnapTypes, CallerTypes,
                          RequestTypes, FeedTypes, TypeOK, Places
<1> QED
    BY <1>1, InvHolds, PTL

\* While the engine serves the same URL feed a list with entries never gives way to
\* nothing, through reloads, empty bodies and error pages.
THEOREM ListsSurvive == Spec => URLListSurvives
<1> DEFINE A == Running' /\ snap # None /\ snap' # None /\ cfgOf[snap].url # None
                  /\ cfgOf'[snap'].url = cfgOf[snap].url /\ urlList[snap] \in Good
                  /\ ~late
                  => urlList'[snap'] \in Good
<1>1. Inv /\ [Next]_vars => [A]_vars
    <2> SUFFICES ASSUME Inv, Next, snap # None, snap' # None, urlList[snap] \in Good, ~late,
                        cfgOf[snap].url # None, cfgOf'[snap'].url = cfgOf[snap].url
                 PROVE  urlList'[snap'] \in Good
        OBVIOUS
    <2>0. snap \in Snaps
        BY DEF Inv, CoreInv, CoreTypes, EngineTypes
    <2>1. CASE UNCHANGED <<snap, urlList>>
        BY <2>1
    <2>2. ASSUME NEW s \in Snaps, LoadCache(s) \/ FetchInstall(s)
          PROVE  urlList'[snap'] \in Good
        <3>1. snap' = snap
            BY <2>2 DEF LoadCache, FetchInstall
        <3> QED
            BY <2>0, <2>2, <3>1, ListsKept DEF Inv
    <2>3. ASSUME NEW c \in Callers, ReloadSeed(c)
          PROVE  urlList'[snap'] \in Good
        <3>1. anew[c] \in Snaps \ {snap} /\ snap' = snap
            BY <2>3 DEF ReloadSeed, Inv, CoreInv, CallerShape
        <3> QED
            BY <2>0, <2>3, <3>1 DEF ReloadSeed, SeedURLFeedsFrom, Inv, FeedTypes
    <2>4. ASSUME NEW c \in Callers, ReloadSwap(c)
          PROVE  urlList'[snap'] \in Good
        BY <2>4 DEF ReloadSwap, Inv, SeedInv
    <2>5. ASSUME NEW r \in Requests, Arrive(r) \/ Request(r)
          PROVE  UNCHANGED <<snap, urlList>>
        BY <2>5 DEF Arrive, Request, LoadPointer, ReadRefs, SwapRefs, EndEvaluate, RequestCloses
    <2>6. ASSUME NEW c \in Callers,
                 Reload(c) \/ ReloadStart(c) \/ ReloadStore(c) \/ ReleaseOld(c) \/ CallerCloses(c)
                    \/ ReloadAttack(c)
          PROVE  UNCHANGED <<snap, urlList>>
        BY <2>6 DEF Reload, ReloadStart, ReloadStore, ReleaseOld, CallerCloses, ReloadAttack
    <2>7. ASSUME NEW c \in Callers, Close(c)
          PROVE  FALSE
        BY <2>7 DEF Close
    <2>8. ASSUME NEW s \in Snaps, FetchSave(s) \/ FetchStop(s) \/ Fetch(s) \/ Poll(s)
          PROVE  UNCHANGED <<snap, urlList>>
        BY <2>8 DEF FetchSave, FetchStop, Fetch, Poll
    <2>9. ~NewEngine /\ ~Exit
        <3>1. lastCfg # None /\ boots \in Nat /\ boots # 0
            BY DEF Inv, CoreInv, CoreTypes, EngineTypes, Down
        <3>2. Running
            BY <3>1 DEF Running
        <3>3. ~NewEngine
            BY <3>2 DEF NewEngine
        <3>4. ~Exit
            BY DEF Exit
        <3> QED
            BY <3>3, <3>4
    <2>10. CASE EditFile
        BY <2>1, <2>10 DEF EditFile
    <2> QED
        BY <2>1, <2>2, <2>3, <2>4, <2>5, <2>6, <2>7, <2>8, <2>9, <2>10 DEF Next, Caller, Feed
<1> QED
    BY <1>1, InvHolds, PTL DEF Spec, URLListSurvives
=============================================================================

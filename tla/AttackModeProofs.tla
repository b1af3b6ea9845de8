-------------------------- MODULE AttackModeProofs --------------------------
(***************************************************************************)
(* The attack posture, for every number of replicas, every dwell, every    *)
(* set of configurations and pin lifetimes: an operator's pin sticks, a    *)
(* replica that may not share has no vote, and the posture falls slowly.   *)
(***************************************************************************)
EXTENDS AttackMode, TLAPS

Admin(r) == <<r, "admin">>

\* The goroutine between resolvePin's read and its drop of the pin is inside evalMu.
EvalLock ==
    \A g \in Goroutines : pc[g] = "expire" <=> evalBy[g[1]] = g

\* The places of an admin call: what is being set, what the operator was told and
\* what the detector has agree.
AdminShape(r) ==
    /\ pc[Admin(r)] \in {"idle", "clear", "eval", "expire", "set", "recompute"}
    /\ pc[Admin(r)] = "idle" => goal[r] = None
    /\ pc[Admin(r)] = "set" => goal[r] # None
    /\ pc[Admin(r)] \in {"eval", "expire", "recompute"} => want[r] = None
    /\ goal[r] # None => goal[r] = pin[r] /\ want[r] = None
    /\ want[r] # None => want[r] = pin[r]

\* The ticker's places.
TickShape(r) ==
    pc[<<r, "tick">>] \in {"idle", "local", "share", "max", "clear", "eval", "expire"}

Unexpired(p) == p.timed => p.left > 0

\* Whoever is about to drop a pin drops an expired one, or one that a new pin replaces,
\* or one that Unpin has dropped already.
ExpireInv(r) ==
    evalBy[r] # None =>
        \/ pinned[r] /\ ~Unexpired(pin[r])
        \/ /\ goal[r] # None /\ replaces[r]
           /\ pc[Admin(r)] \in {"set", "recompute", "eval"}
        \/ /\ goal[r] = None /\ want[r] = None
           /\ pc[Admin(r)] \in {"recompute", "eval"}

\* The pin that is in force, or will be when the call returns, from the flag on.
StickInv(r) ==
    up[r] /\ ~replaces[r] /\ Unexpired(pin[r]) =>
        /\ goal[r] # None /\ pc[Admin(r)] # "set" => pinned[r]
        /\ (goal[r] # None /\ pc[Admin(r)] = "clear") \/ want[r] # None =>
              pinned[r] /\ state[r].level = pin[r].level

PinInv ==
    /\ EvalLock
    /\ \A r \in Replicas : AdminShape(r) /\ TickShape(r) /\ ExpireInv(r) /\ StickInv(r)

\* The admin call that muted the replica has yet to clear its vote.
YetToClear(r) ==
    \/ pc[Admin(r)] = "clear"
    \/ goal[r] # None /\ pc[Admin(r)] \in {"set", "recompute", "eval", "expire"}

\* A live vote is known, and a muted replica has none unless its removal failed.
VoteOK(r) ==
    /\ votes[r].left > 0 => voteLive[r]
    /\ up[r] /\ Muted(r) /\ ~dirty[r] /\ ~YetToClear(r) => votes[r].left = 0
VoteInv == \A r \in Replicas : VoteOK(r)

\* The detector forgets a signal no earlier than the observer.
CalmInv == \A r \in Replicas, l \in Levels : lastAbove[r][l] <= calm[r][l]

-----------------------------------------------------------------------------
(* Types                                                                   *)

USE DEF detectorVars, lockVars, threadVars, boundVars, ghostVars

DetectorTypes ==
    /\ cfg \in [Replicas -> Configs]
    /\ sig \in [Replicas -> Signals]
    /\ state \in [Replicas -> State]
    /\ localLvl \in [Replicas -> Levels]
    /\ lastAbove \in [Replicas -> [Levels -> Ages]]
    /\ calm \in [Replicas -> [Levels -> Ages]]

PinTypes ==
    /\ pinned \in [Replicas -> BOOLEAN]
    /\ pin \in [Replicas -> Pin]
    /\ goal \in [Replicas -> Pin \cup {None}]
    /\ want \in [Replicas -> Pin \cup {None}]
    /\ replaces \in [Replicas -> BOOLEAN]

VoteTypes ==
    /\ voteLive \in [Replicas -> BOOLEAN]
    /\ votes \in [Replicas -> [level : Levels, left : 0..Window]]
    /\ up \in [Replicas -> BOOLEAN] /\ due \in [Replicas -> BOOLEAN]
    /\ dirty \in [Replicas -> BOOLEAN]

LockTypes ==
    /\ evalBy \in [Replicas -> Goroutines \cup {None}]
    /\ shareBy \in [Replicas -> Goroutines \cup {None}]

Steps == {"idle", "local", "share", "max", "clear", "eval", "expire", "set", "recompute"}

ThreadTypes ==
    /\ pc \in [Goroutines -> Steps]
    /\ gcfg \in [Goroutines -> Configs]
    /\ gsig \in [Goroutines -> Signals]
    /\ glocal \in [Goroutines -> Levels]
    /\ gpeer \in [Goroutines -> Levels]

\* TypeOK by the parts that the actions disturb separately.
LEMMA TypeParts ==
    TypeOK <=> DetectorTypes /\ PinTypes /\ VoteTypes /\ LockTypes /\ ThreadTypes
    BY DEF TypeOK, DetectorTypes, PinTypes, VoteTypes, LockTypes, ThreadTypes, Steps

\* The same after a step.
LEMMA TypePartsNext ==
    TypeOK' <=> DetectorTypes' /\ PinTypes' /\ VoteTypes' /\ LockTypes' /\ ThreadTypes'
    BY DEF TypeOK, DetectorTypes, PinTypes, VoteTypes, LockTypes, ThreadTypes, Steps

\* A goroutine is a replica's ticker or admin call.
LEMMA GoroutineIs ==
    /\ \A g \in Goroutines : g[1] \in Replicas /\ g[2] \in Threads /\ g = <<g[1], g[2]>>
    /\ \A r \in Replicas : \A t \in Threads :
          <<r, t>> \in Goroutines /\ <<r, t>>[1] = r /\ <<r, t>>[2] = t
    BY DEF Goroutines

\* The two goroutines of a replica.
LEMMA TwoOf ==
    ASSUME NEW r \in Replicas
    PROVE  /\ Admin(r) \in Goroutines /\ Admin(r)[1] = r /\ Admin(r)[2] = "admin"
           /\ <<r, "tick">> \in Goroutines /\ <<r, "tick">>[1] = r /\ <<r, "tick">>[2] = "tick"
           /\ Admin(r) # <<r, "tick">>
           /\ \A g \in Goroutines : g[1] = r => g = Admin(r) \/ g = <<r, "tick">>
           /\ \A g \in Goroutines : g[1] = r /\ g[2] = "admin" => g = Admin(r)
           /\ \A g \in Goroutines : g[1] = r /\ g[2] = "tick" => g = <<r, "tick">>
    BY GoroutineIs DEF Admin, Threads

\* The score raise of a level.
LEMMA RaiseIsNat ==
    ASSUME NEW l \in Levels, NEW n \in Nat
    PROVE  l * n \in Nat
<1>1. l = 0 \/ l = 1 \/ l = 2
    BY DEF Levels
<1>2. 0 * n \in Nat /\ 1 * n \in Nat /\ 2 * n \in Nat
    OBVIOUS
<1> QED
    BY <1>1, <1>2

Reasons == {"", "signal", "peer", "forced"}

\* publish keeps the posture a posture, and sets its level.
LEMMA PublishTypes ==
    ASSUME state \in [Replicas -> State], NEW r \in Replicas, NEW c \in Configs,
           NEW l \in Levels, NEW reason \in Reasons,
           Publish(r, c, l, reason)
    PROVE  /\ state' \in [Replicas -> State]
           /\ state'[r].level = l
           /\ \A q \in Replicas \ {r} : state'[q] = state[q]
           /\ reason = "forced" => state'[r].reason = "forced"
<1>1. c.raise \in Nat
    BY AttackModeAssumption
<1>2. l * c.raise \in Nat
    BY <1>1, RaiseIsNat
<1> DEFINE n == l * c.raise
<1>3. state' = [state EXCEPT ![r] =
        [level |-> l, raise |-> n,
         reason |-> IF reason = "" /\ l = @.level THEN @.reason ELSE reason]]
    BY DEF Publish
<1> HIDE DEF n
<1> QED
    BY <1>2, <1>3 DEF State, Reasons, n

\* Stamping keeps ages ages.
LEMMA StampTypes ==
    ASSUME NEW ages \in [Levels -> Ages], NEW S
    PROVE  /\ Stamp(ages, S) \in [Levels -> Ages]
           /\ \A l \in Levels : Stamp(ages, S)[l] = IF l \in S THEN 0 ELSE ages[l]
    BY AttackModeAssumption DEF Stamp, Ages

\* A decay is at most one level, and only from a level that was left alone for MinDwell.
LEMMA DecayTypes ==
    ASSUME NEW ages \in [Levels -> Ages], NEW l \in Levels
    PROVE  /\ DecayFrom(ages, l) \in Levels
           /\ DecayFrom(ages, l) = l \/ (DecayFrom(ages, l) = l - 1 /\ l > 0 /\ ages[l] >= MinDwell)
    BY AttackModeAssumption DEF DecayFrom, Ages, Levels

\* evaluate of a replica that is not pinned: a posture, and unless the detector is off or
\* a pin has just ended it is at most one level below the last, whose own dwell is over.
LEMMA DecideKeeps ==
    ASSUME DetectorTypes, CalmInv, NEW r \in Replicas, NEW c \in Configs, NEW s \in Signals,
           NEW peer \in Levels, Decide(r, c, s, peer)
    PROVE  /\ (state \in [Replicas -> State])' /\ (localLvl \in [Replicas -> Levels])'
           /\ (lastAbove \in [Replicas -> [Levels -> Ages]])'
           /\ (calm \in [Replicas -> [Levels -> Ages]])'
           /\ CalmInv'
           /\ \A q \in Replicas \ {r} : state'[q] = state[q]
           /\ \/ ~c.enabled
              \/ state'[r].level >= state[r].level
              \/ state[r].reason = "forced"
              \/ /\ state'[r].level = state[r].level - 1
                 /\ lastAbove[r][state[r].level] >= MinDwell
<1>0. /\ state \in [Replicas -> State] /\ localLvl \in [Replicas -> Levels]
      /\ lastAbove \in [Replicas -> [Levels -> Ages]] /\ calm \in [Replicas -> [Levels -> Ages]]
    BY DEF DetectorTypes
<1>1. CASE ~c.enabled
    <2>1. /\ localLvl' = [localLvl EXCEPT ![r] = 0]
          /\ Publish(r, c, 0, "")
          /\ UNCHANGED <<lastAbove, calm>>
        BY <1>1 DEF Decide
    <2>2. 0 \in Levels /\ "" \in Reasons
        BY DEF Levels, Reasons
    <2> QED
        BY <1>0, <1>1, <2>1, <2>2, PublishTypes DEF CalmInv
<1>2. CASE c.enabled
    <2> DEFINE ages   == Stamp(lastAbove[r], Stamped(s))
               cur    == localLvl[r]
               local  == IF s.entered = 2 THEN 2
                         ELSE IF s.entered = 1 /\ cur < 2 THEN 1
                         ELSE DecayFrom(ages, cur)
               reason == IF s.entered = 2 \/ (s.entered = 1 /\ cur < 2) THEN "signal" ELSE ""
               desired == Larger(local, peer)
               ages2  == Stamp(ages, {peer} \ {0})
               published == state[r].level
               falls  == desired < published /\ state[r].reason # "forced"
               target == IF falls THEN Larger(DecayFrom(ages2, published), desired) ELSE desired
               treason == IF falls /\ target = published THEN ""
                          ELSE IF peer > local THEN "peer" ELSE reason
               next   == IF falls /\ target < published /\ target > 0 THEN Stamp(ages2, {target})
                         ELSE ages2
    <2>1. /\ localLvl' = [localLvl EXCEPT ![r] = local]
          /\ lastAbove' = [lastAbove EXCEPT ![r] = next]
          /\ Publish(r, c, target, treason)
          /\ calm' = [calm EXCEPT ![r] = Stamp(@, s.half \cup ({peer} \ {0}))]
        BY <1>2 DEF Decide
    <2>2. ages \in [Levels -> Ages] /\ ages2 \in [Levels -> Ages]
        BY <1>0, StampTypes
    <2>3. cur \in Levels /\ published \in Levels
        BY <1>0 DEF State
    <2>4. local \in Levels
        <3>1. DecayFrom(ages, cur) \in Levels
            BY <2>2, <2>3, DecayTypes
        <3>2. 1 \in Levels /\ 2 \in Levels
            BY DEF Levels
        <3> QED
            BY <3>1, <3>2
    <2>5. desired \in Levels
        BY <2>4 DEF Larger
    <2>6. /\ DecayFrom(ages2, published) \in Levels
          /\ \/ DecayFrom(ages2, published) = published
             \/ /\ DecayFrom(ages2, published) = published - 1
                /\ published > 0 /\ ages2[published] >= MinDwell
        BY <2>2, <2>3, DecayTypes
    <2>7. target \in Levels
        BY <2>5, <2>6 DEF Larger
    <2>7a. treason \in Reasons
        BY DEF Reasons
    <2>8. \A l \in Levels :
             ages2[l] = IF l \in s.half \cup ({peer} \ {0}) THEN 0 ELSE lastAbove[r][l]
        <3>1. \A l \in Levels : ages[l] = IF l \in s.half THEN 0 ELSE lastAbove[r][l]
            BY <1>0, StampTypes DEF Stamped
        <3>2. \A l \in Levels : ages2[l] = IF l \in {peer} \ {0} THEN 0 ELSE ages[l]
            BY <2>2, StampTypes
        <3> HIDE DEF ages, ages2
        <3> QED
            BY <3>1, <3>2
    <2>9. target >= published \/ state[r].reason = "forced"
              \/ (target = published - 1 /\ lastAbove[r][published] >= MinDwell)
        <3> HIDE DEF ages2
        <3>1. CASE falls
            <4>1. target >= DecayFrom(ages2, published)
                BY <3>1, <2>5, <2>6 DEF Larger, Levels
            <4>2. target < published => ages2[published] >= MinDwell /\ target = published - 1
                BY <4>1, <2>3, <2>6, <3>1, <2>5 DEF Larger, Levels
            <4>3. ages2[published] >= MinDwell => lastAbove[r][published] >= MinDwell
                <5>1. MinDwell \in Nat /\ MinDwell > 0
                    BY AttackModeAssumption
                <5>2. ages2[published] = 0 \/ ages2[published] = lastAbove[r][published]
                    BY <2>3, <2>8
                <5> QED
                    BY <5>1, <5>2
            <4> HIDE DEF target, falls
            <4> QED
                BY <4>2, <4>3, <2>3, <2>7 DEF Levels
        <3>2. CASE ~falls
            BY <3>2, <2>3, <2>5 DEF Levels
        <3> QED
            BY <3>1, <3>2
    <2> HIDE DEF ages, ages2, local, reason, desired, falls, target, treason
    <2>10. next \in [Levels -> Ages] /\ \A l \in Levels : next[l] <= ages2[l]
        <3> DEFINE stamped == Stamp(ages2, {target})
        <3>1. stamped \in [Levels -> Ages]
            BY <2>2, StampTypes
        <3>2. \A l \in Levels : stamped[l] = IF l \in {target} THEN 0 ELSE ages2[l]
            BY <2>2, StampTypes
        <3>3. \A l \in Levels : ages2[l] \in Nat
            BY <2>2, AttackModeAssumption DEF Ages
        <3>4. next = ages2 \/ next = stamped
            OBVIOUS
        <3> HIDE DEF next, stamped
        <3>5. CASE next = ages2
            BY <2>2, <3>3, <3>5
        <3>6. CASE next = stamped
            BY <3>1, <3>2, <3>3, <3>6
        <3> QED
            BY <3>4, <3>5, <3>6
    <2> HIDE DEF next
    <2>11. /\ (state \in [Replicas -> State])' /\ state'[r].level = target
           /\ \A q \in Replicas \ {r} : state'[q] = state[q]
        <3>1. PICK l \in Levels, w \in Reasons : l = target /\ w = treason
            BY <2>7, <2>7a
        <3>2. state \in [Replicas -> State] /\ Publish(r, c, l, w)
            BY <1>0, <2>1, <3>1
        <3>3. /\ (state \in [Replicas -> State])' /\ state'[r].level = l
              /\ \A q \in Replicas \ {r} : state'[q] = state[q]
            BY <3>2, PublishTypes
        <3> QED
            BY <3>1, <3>3
    <2>12. (localLvl \in [Replicas -> Levels])' /\ (lastAbove \in [Replicas -> [Levels -> Ages]])'
        BY <1>0, <2>1, <2>4, <2>10
    <2>13. Stamp(calm[r], s.half \cup ({peer} \ {0})) \in [Levels -> Ages]
        BY <1>0, StampTypes
    <2>14. (calm \in [Replicas -> [Levels -> Ages]])'
        BY <1>0, <2>1, <2>13
    <2>15. CalmInv'
        <3> SUFFICES ASSUME NEW q \in Replicas, NEW l \in Levels
                     PROVE  lastAbove'[q][l] <= calm'[q][l]
            BY DEF CalmInv
        <3>1. CASE q = r
            <4>1. calm'[q][l] = IF l \in s.half \cup ({peer} \ {0}) THEN 0 ELSE calm[r][l]
                BY <1>0, <2>1, <3>1, StampTypes
            <4>2. lastAbove'[q][l] <= ages2[l]
                BY <1>0, <2>1, <2>10, <3>1
            <4>3. /\ lastAbove'[q][l] \in Nat /\ ages2[l] \in Nat
                  /\ lastAbove[r][l] \in Nat /\ calm[r][l] \in Nat
                BY <1>0, <2>2, <2>12, <3>1 DEF Ages
            <4>4. lastAbove[r][l] <= calm[r][l]
                BY DEF CalmInv
            <4> QED
                BY <4>1, <4>2, <4>3, <4>4, <2>8
        <3>2. CASE q # r
            BY <1>0, <2>1, <3>2 DEF CalmInv
        <3> QED
            BY <3>1, <3>2
    <2> QED
        BY <2>9, <2>11, <2>12, <2>14, <2>15
<1> QED
    BY <1>1, <1>2

\* What a tick heard from its peers is a level.
LEMMA PeerLevelIsLevel ==
    ASSUME VoteTypes, NEW r \in Replicas
    PROVE  (CHOOSE l \in PeerLevels(r) \cup {0} : \A m \in PeerLevels(r) : m <= l) \in Levels
<1> DEFINE S == PeerLevels(r) \cup {0}
<1>1. S \subseteq Levels /\ 0 \in S
    BY DEF VoteTypes, PeerLevels, Levels
<1>2. \E l \in S : \A m \in S : m <= l
    <2>1. CASE 2 \in S
        BY <1>1, <2>1 DEF Levels
    <2>2. CASE 2 \notin S /\ 1 \in S
        BY <1>1, <2>2 DEF Levels
    <2>3. CASE 2 \notin S /\ 1 \notin S
        BY <1>1, <2>3 DEF Levels
    <2> QED
        BY <2>1, <2>2, <2>3
<1>3. \E l \in PeerLevels(r) \cup {0} : \A m \in PeerLevels(r) : m <= l
    BY <1>2
<1> QED
    BY <1>1, <1>3

\* A vote on its way out: gone, or the failure is remembered; a live one is known.
LEMMA RemoveVoteKeeps ==
    ASSUME VoteTypes, NEW r \in Replicas, RemoveVote(r), votes[r].left > 0 => voteLive[r]
    PROVE  /\ (voteLive \in [Replicas -> BOOLEAN])' /\ (dirty \in [Replicas -> BOOLEAN])'
           /\ (votes \in [Replicas -> [level : Levels, left : 0..Window]])'
           /\ \A q \in Replicas \ {r} :
                 votes'[q] = votes[q] /\ voteLive'[q] = voteLive[q] /\ dirty'[q] = dirty[q]
           /\ votes'[r].left > 0 => voteLive'[r]
           /\ dirty'[r] \/ votes'[r].left = 0
<1>1. NoVote \in [level : Levels, left : 0..Window] /\ NoVote.left = 0
    BY AttackModeAssumption DEF NoVote, Levels
<1>2. CASE /\ votes' = [votes EXCEPT ![r] = NoVote]
           /\ voteLive' = [voteLive EXCEPT ![r] = FALSE]
           /\ dirty' = [dirty EXCEPT ![r] = FALSE]
    BY <1>1, <1>2 DEF VoteTypes
<1>3. CASE votes' = votes /\ dirty' = [dirty EXCEPT ![r] = TRUE] /\ UNCHANGED voteLive
    BY <1>3 DEF VoteTypes
<1>4. CASE votes' = [votes EXCEPT ![r] = NoVote] /\ UNCHANGED <<voteLive, dirty>>
    BY <1>1, <1>4 DEF VoteTypes
<1> QED
    BY <1>2, <1>3, <1>4 DEF RemoveVote

\* clearSharedVoteLocked: the same of a replica that may have no vote.
LEMMA ClearSharedKeeps ==
    ASSUME VoteTypes, NEW r \in Replicas, ClearShared(r), votes[r].left > 0 => voteLive[r]
    PROVE  /\ (voteLive \in [Replicas -> BOOLEAN])' /\ (dirty \in [Replicas -> BOOLEAN])'
           /\ (votes \in [Replicas -> [level : Levels, left : 0..Window]])'
           /\ \A q \in Replicas \ {r} :
                 votes'[q] = votes[q] /\ voteLive'[q] = voteLive[q] /\ dirty'[q] = dirty[q]
           /\ votes'[r].left > 0 => voteLive'[r]
           /\ dirty'[r] \/ votes'[r].left = 0
<1>1. CASE RemoveVote(r)
    BY <1>1, RemoveVoteKeeps
<1>2. CASE ~voteLive[r] /\ UNCHANGED <<votes, voteLive, dirty>>
    <2>1. votes[r].left \in 0..Window
        BY DEF VoteTypes
    <2> QED
        BY <1>2, <2>1, AttackModeAssumption DEF VoteTypes
<1> QED
    BY <1>1, <1>2 DEF ClearShared

\* SetPostureVote leaves a vote that is known, whether or not it was stored.
LEMMA CastVoteKeeps ==
    ASSUME VoteTypes, NEW r \in Replicas, NEW l \in Levels, CastVote(r, l)
    PROVE  /\ (voteLive \in [Replicas -> BOOLEAN])'
           /\ (votes \in [Replicas -> [level : Levels, left : 0..Window]])'
           /\ \A q \in Replicas \ {r} : votes'[q] = votes[q] /\ voteLive'[q] = voteLive[q]
           /\ voteLive'[r]
<1>1. [level |-> l, left |-> Window] \in [level : Levels, left : 0..Window]
    BY AttackModeAssumption
<1> QED
    BY <1>1 DEF VoteTypes, CastVote

\* A goroutine moves on.
LEMMA GotoTypes ==
    ASSUME ThreadTypes, NEW g, NEW step \in Steps, Goto(g, step)
    PROVE  (pc \in [Goroutines -> Steps])'
    BY DEF ThreadTypes, Goto

\* The end of evaluate.
LEMMA EvaluatedTypes ==
    ASSUME ThreadTypes, VoteTypes, NEW g \in Goroutines, Evaluated(g), Forget(g), gcfg' = gcfg
    PROVE  ThreadTypes' /\ (due \in [Replicas -> BOOLEAN])'
<1>1. (pc \in [Goroutines -> Steps])'
    BY GotoTypes DEF Evaluated, Steps
<1>2. (due \in [Replicas -> BOOLEAN])'
    BY DEF Evaluated, VoteTypes
<1>3. Quiet \in Signals /\ 0 \in Levels
    BY DEF Quiet, Signals, Levels
<1> QED
    BY <1>1, <1>2, <1>3 DEF ThreadTypes, Forget

\* evaluate of a pinned replica publishes the pinned level.
LEMMA ForcedKeeps ==
    ASSUME DetectorTypes, PinTypes, CalmInv, NEW r \in Replicas, NEW c \in Configs, Forced(r, c)
    PROVE  /\ (state \in [Replicas -> State])' /\ (localLvl \in [Replicas -> Levels])'
           /\ UNCHANGED <<lastAbove, calm>>
           /\ state'[r].level = pin[r].level /\ state'[r].reason = "forced"
           /\ \A q \in Replicas \ {r} : state'[q] = state[q]
<1>1. PICK l \in Levels : l = pin[r].level
    BY DEF PinTypes, Pin
<1>2. "forced" \in Reasons /\ state \in [Replicas -> State] /\ Publish(r, c, l, "forced")
    BY <1>1 DEF Reasons, DetectorTypes, Forced
<1>3. /\ (state \in [Replicas -> State])' /\ state'[r].level = l /\ state'[r].reason = "forced"
      /\ \A q \in Replicas \ {r} : state'[q] = state[q]
    BY <1>2, PublishTypes
<1>4. (localLvl \in [Replicas -> Levels])' /\ UNCHANGED <<lastAbove, calm>>
    BY <1>1 DEF DetectorTypes, Forced
<1> QED
    BY <1>1, <1>3, <1>4

\* How the posture of a replica may change.
SlowFall(r) ==
    \/ state'[r].level >= state[r].level
    \/ state[r].reason = "forced" \/ state'[r].reason = "forced"
    \/ \E g \in Goroutines : g[1] = r /\ pc[g] \in {"eval", "expire"} /\ ~gcfg[g].enabled
    \/ /\ state'[r].level = state[r].level - 1
       /\ calm[r][state[r].level] >= MinDwell

\* A replica whose posture stays falls in no way.
LEMMA StaysSlow ==
    ASSUME DetectorTypes, NEW r \in Replicas, state'[r] = state[r]
    PROVE  SlowFall(r)
<1>1. state[r].level \in Levels
    BY DEF DetectorTypes, State
<1> QED
    BY <1>1 DEF SlowFall, Levels

\* evaluate, of either kind, on what the goroutine had read.
LEMMA EvaluateDetector ==
    ASSUME TypeOK, CalmInv, NEW g \in Goroutines, pc[g] \in {"eval", "expire"},
           UNCHANGED <<cfg, sig>>,
           \/ Decide(g[1], gcfg[g], gsig[g], gpeer[g])
           \/ Forced(g[1], gcfg[g])
    PROVE  DetectorTypes' /\ CalmInv' /\ \A r \in Replicas : SlowFall(r)
<1> DEFINE r == g[1]
<1>0. r \in Replicas /\ gcfg[g] \in Configs /\ gsig[g] \in Signals /\ gpeer[g] \in Levels
    BY GoroutineIs, TypeParts DEF ThreadTypes
<1>1. DetectorTypes /\ PinTypes
    BY TypeParts
<1>2. PICK c \in Configs, s \in Signals, l \in Levels : c = gcfg[g] /\ s = gsig[g] /\ l = gpeer[g]
    BY <1>0
<1>3. ASSUME NEW q \in Replicas \ {r}, state'[q] = state[q]
      PROVE  SlowFall(q)
    BY <1>1, <1>3, StaysSlow
<1>4. CASE Decide(r, c, s, l)
    <2>1. /\ (state \in [Replicas -> State])' /\ (localLvl \in [Replicas -> Levels])'
          /\ (lastAbove \in [Replicas -> [Levels -> Ages]])'
          /\ (calm \in [Replicas -> [Levels -> Ages]])'
          /\ CalmInv'
          /\ \A q \in Replicas \ {r} : state'[q] = state[q]
          /\ \/ ~c.enabled
             \/ state'[r].level >= state[r].level
             \/ state[r].reason = "forced"
             \/ /\ state'[r].level = state[r].level - 1
                /\ lastAbove[r][state[r].level] >= MinDwell
        BY <1>0, <1>1, <1>4, DecideKeeps
    <2>2. lastAbove[r][state[r].level] >= MinDwell => calm[r][state[r].level] >= MinDwell
        <3>1. PICK v \in Levels : v = state[r].level
            BY <1>0, <1>1 DEF DetectorTypes, State
        <3>2. lastAbove[r][v] <= calm[r][v] /\ lastAbove[r][v] \in Nat /\ calm[r][v] \in Nat
            BY <1>0, <1>1 DEF CalmInv, DetectorTypes, Ages
        <3> QED
            BY <3>1, <3>2, AttackModeAssumption
    <2>3. SlowFall(r)
        <3>1. CASE ~c.enabled
            BY <3>1, <1>2 DEF SlowFall
        <3>2. CASE c.enabled
            BY <3>2, <2>1, <2>2 DEF SlowFall
        <3> QED
            BY <3>1, <3>2
    <2>4. DetectorTypes'
        BY <2>1, <1>1 DEF DetectorTypes
    <2> QED
        BY <2>1, <2>3, <2>4, <1>3
<1>5. CASE Forced(r, c)
    <2>1. /\ (state \in [Replicas -> State])' /\ (localLvl \in [Replicas -> Levels])'
          /\ UNCHANGED <<lastAbove, calm>> /\ state'[r].reason = "forced"
          /\ \A q \in Replicas \ {r} : state'[q] = state[q]
        BY <1>0, <1>1, <1>5, ForcedKeeps
    <2>2. DetectorTypes' /\ CalmInv'
        BY <2>1, <1>1 DEF DetectorTypes, CalmInv
    <2> QED
        BY <2>1, <2>2, <1>3 DEF SlowFall
<1> QED
    BY <1>2, <1>4, <1>5
-----------------------------------------------------------------------------
(* Types of every step                                                     *)

\* localLevel.
LEMMA TickLocalTypes ==
    ASSUME TypeOK, CalmInv, VoteInv, NEW g \in Goroutines, TickLocal(g)
    PROVE  TypeOK'
<1>0. DetectorTypes /\ PinTypes /\ VoteTypes /\ LockTypes /\ ThreadTypes
    BY TypeParts
<1>1. g[1] \in Replicas /\ g[2] \in Threads
    BY GoroutineIs
<1>a. DetectorTypes'
    BY <1>0 DEF TickLocal, DetectorTypes
<1>b. PinTypes'
    BY <1>0 DEF TickLocal, PinTypes
<1>c. VoteTypes'
    BY <1>0 DEF TickLocal, VoteTypes
<1>d. LockTypes'
    BY <1>0 DEF TickLocal, LockTypes
<1>e. ThreadTypes'
    BY <1>0, <1>1 DEF TickLocal, Goto, ThreadTypes, DetectorTypes, Steps
<1> QED
    BY <1>a, <1>b, <1>c, <1>d, <1>e, TypePartsNext

\* sharePosture.
LEMMA TickShareTypes ==
    ASSUME TypeOK, CalmInv, VoteInv, NEW g \in Goroutines, TickShare(g)
    PROVE  TypeOK'
<1>0. DetectorTypes /\ PinTypes /\ VoteTypes /\ LockTypes /\ ThreadTypes
    BY TypeParts
<1>1. g[1] \in Replicas /\ g[2] \in Threads
    BY GoroutineIs
<1>2. votes[g[1]].left > 0 => voteLive[g[1]]
    BY <1>1 DEF VoteInv, VoteOK
<1>3. /\ (voteLive \in [Replicas -> BOOLEAN])' /\ (dirty \in [Replicas -> BOOLEAN])'
      /\ (votes \in [Replicas -> [level : Levels, left : 0..Window]])'
    <2>1. CASE ClearShared(g[1])
        BY <1>0, <1>1, <1>2, <2>1, ClearSharedKeeps
    <2>2. CASE RemoveVote(g[1])
        BY <1>0, <1>1, <1>2, <2>2, RemoveVoteKeeps
    <2>3. CASE CastVote(g[1], glocal[g]) /\ UNCHANGED dirty
        <3>1. PICK l \in Levels : l = glocal[g]
            BY <1>0 DEF ThreadTypes
        <3>2. CastVote(g[1], l)
            BY <2>3, <3>1
        <3> QED
            BY <1>0, <1>1, <2>3, <3>2, CastVoteKeeps DEF VoteTypes
    <2> QED
        BY <2>1, <2>2, <2>3 DEF TickShare
<1>a. DetectorTypes'
    BY <1>0 DEF TickShare, DetectorTypes
<1>b. PinTypes'
    BY <1>0 DEF TickShare, PinTypes
<1>c. VoteTypes'
    BY <1>0, <1>3 DEF TickShare, VoteTypes
<1>d. LockTypes'
    BY <1>0, <1>1 DEF TickShare, LockTypes
<1>e. ThreadTypes'
    BY <1>0 DEF TickShare, Goto, ThreadTypes, Steps
<1> QED
    BY <1>a, <1>b, <1>c, <1>d, <1>e, TypePartsNext

\* MaxPostureVote.
LEMMA TickMaxTypes ==
    ASSUME TypeOK, CalmInv, VoteInv, NEW g \in Goroutines, TickMax(g)
    PROVE  TypeOK'
<1>0. DetectorTypes /\ PinTypes /\ VoteTypes /\ LockTypes /\ ThreadTypes
    BY TypeParts
<1>1. g[1] \in Replicas /\ g[2] \in Threads
    BY GoroutineIs
<1>2. PICK l \in Levels :
        l = CHOOSE n \in PeerLevels(g[1]) \cup {0} : \A m \in PeerLevels(g[1]) : m <= n
    BY <1>0, <1>1, PeerLevelIsLevel
<1>a. DetectorTypes'
    BY <1>0 DEF TickMax, DetectorTypes
<1>b. PinTypes'
    BY <1>0 DEF TickMax, PinTypes
<1>c. VoteTypes'
    BY <1>0 DEF TickMax, VoteTypes
<1>d. LockTypes'
    BY <1>0, <1>1 DEF TickMax, LockTypes
<1>e. ThreadTypes'
    <2>1. pc' = [pc EXCEPT ![g] = "eval"] /\ UNCHANGED <<gcfg, gsig, glocal>>
        BY DEF TickMax, Goto
    <2>2. gpeer' = [gpeer EXCEPT ![g] = l] \/ gpeer' = gpeer
        BY <1>2 DEF TickMax
    <2> QED
        BY <1>0, <2>1, <2>2 DEF ThreadTypes, Steps
<1> QED
    BY <1>a, <1>b, <1>c, <1>d, <1>e, TypePartsNext

\* evaluate.
LEMMA EvaluateTypes ==
    ASSUME TypeOK, CalmInv, VoteInv, NEW g \in Goroutines, Evaluate(g)
    PROVE  TypeOK'
<1>0. DetectorTypes /\ PinTypes /\ VoteTypes /\ LockTypes /\ ThreadTypes
    BY TypeParts
<1>1. g[1] \in Replicas /\ g[2] \in Threads
    BY GoroutineIs
<1>a. DetectorTypes'
    <2>1. CASE UNCHANGED <<localLvl, lastAbove, state, calm>>
        BY <1>0, <2>1 DEF Evaluate, DetectorTypes
    <2>2. CASE \/ Decide(g[1], gcfg[g], gsig[g], gpeer[g])
               \/ Forced(g[1], gcfg[g])
        BY <2>2, EvaluateDetector DEF Evaluate
    <2> QED
        BY <2>1, <2>2 DEF Evaluate
<1>b. PinTypes'
    BY <1>0 DEF Evaluate, PinTypes
<1>c. VoteTypes'
    <2>1. UNCHANGED due \/ (due' \in [Replicas -> BOOLEAN])
        BY <1>0 DEF Evaluate, Evaluated, VoteTypes
    <2> QED
        BY <1>0, <2>1 DEF Evaluate, VoteTypes
<1>d. LockTypes'
    BY <1>0, <1>1 DEF Evaluate, LockTypes
<1>e. ThreadTypes'
    <2>1. CASE Goto(g, "expire") /\ UNCHANGED <<gsig, glocal, gpeer>>
        BY <1>0, <2>1, GotoTypes DEF Evaluate, ThreadTypes, Steps
    <2>2. CASE Evaluated(g) /\ Forget(g)
        BY <1>0, <2>2, EvaluatedTypes DEF Evaluate
    <2> QED
        BY <2>1, <2>2 DEF Evaluate
<1> QED
    BY <1>a, <1>b, <1>c, <1>d, <1>e, TypePartsNext

\* resolvePin's drop of an expired pin.
LEMMA EvaluateExpiredTypes ==
    ASSUME TypeOK, CalmInv, VoteInv, NEW g \in Goroutines, EvaluateExpired(g)
    PROVE  TypeOK'
<1>0. DetectorTypes /\ PinTypes /\ VoteTypes /\ LockTypes /\ ThreadTypes
    BY TypeParts
<1>1. g[1] \in Replicas /\ g[2] \in Threads
    BY GoroutineIs
<1>a. DetectorTypes'
    BY EvaluateDetector DEF EvaluateExpired
<1>b. PinTypes'
    BY <1>0, <1>1 DEF EvaluateExpired, PinTypes
<1>c. VoteTypes'
    BY <1>0, EvaluatedTypes DEF EvaluateExpired, VoteTypes
<1>d. LockTypes'
    BY <1>0, <1>1 DEF EvaluateExpired, LockTypes
<1>e. ThreadTypes'
    BY <1>0, EvaluatedTypes DEF EvaluateExpired
<1> QED
    BY <1>a, <1>b, <1>c, <1>d, <1>e, TypePartsNext

\* clearSharedVote.
LEMMA ClearSharedVoteTypes ==
    ASSUME TypeOK, CalmInv, VoteInv, NEW g \in Goroutines, ClearSharedVote(g)
    PROVE  TypeOK'
<1>0. DetectorTypes /\ PinTypes /\ VoteTypes /\ LockTypes /\ ThreadTypes
    BY TypeParts
<1>1. g[1] \in Replicas /\ g[2] \in Threads
    BY GoroutineIs
<1>2. votes[g[1]].left > 0 => voteLive[g[1]]
    BY <1>1 DEF VoteInv, VoteOK
<1>3. /\ (voteLive \in [Replicas -> BOOLEAN])' /\ (dirty \in [Replicas -> BOOLEAN])'
      /\ (votes \in [Replicas -> [level : Levels, left : 0..Window]])'
    BY <1>0, <1>1, <1>2, ClearSharedKeeps DEF ClearSharedVote
<1>a. DetectorTypes'
    BY <1>0 DEF ClearSharedVote, DetectorTypes
<1>b. PinTypes'
    BY <1>0, <1>1 DEF ClearSharedVote, PinTypes
<1>c. VoteTypes'
    BY <1>0, <1>3 DEF ClearSharedVote, VoteTypes
<1>d. LockTypes'
    BY <1>0 DEF ClearSharedVote, LockTypes
<1>e. ThreadTypes'
    BY <1>0 DEF ClearSharedVote, Goto, ThreadTypes, Steps
<1> QED
    BY <1>a, <1>b, <1>c, <1>d, <1>e, TypePartsNext

\* Pin raises the flag.
LEMMA PinSetTypes ==
    ASSUME TypeOK, CalmInv, VoteInv, NEW g \in Goroutines, PinSet(g)
    PROVE  TypeOK'
<1>0. DetectorTypes /\ PinTypes /\ VoteTypes /\ LockTypes /\ ThreadTypes
    BY TypeParts
<1>1. g[1] \in Replicas /\ g[2] \in Threads
    BY GoroutineIs
<1>a. DetectorTypes'
    BY <1>0 DEF PinSet, DetectorTypes
<1>b. PinTypes'
    BY <1>0, <1>1 DEF PinSet, PinTypes
<1>c. VoteTypes'
    BY <1>0 DEF PinSet, VoteTypes
<1>d. LockTypes'
    BY <1>0 DEF PinSet, LockTypes
<1>e. ThreadTypes'
    BY <1>0 DEF PinSet, Goto, ThreadTypes, Steps
<1> QED
    BY <1>a, <1>b, <1>c, <1>d, <1>e, TypePartsNext

\* recompute.
LEMMA RecomputeTypes ==
    ASSUME TypeOK, CalmInv, VoteInv, NEW g \in Goroutines, Recompute(g)
    PROVE  TypeOK'
<1>0. DetectorTypes /\ PinTypes /\ VoteTypes /\ LockTypes /\ ThreadTypes
    BY TypeParts
<1>1. g[1] \in Replicas /\ g[2] \in Threads
    BY GoroutineIs
<1>a. DetectorTypes'
    BY <1>0 DEF Recompute, DetectorTypes
<1>b. PinTypes'
    BY <1>0 DEF Recompute, PinTypes
<1>c. VoteTypes'
    BY <1>0 DEF Recompute, VoteTypes
<1>d. LockTypes'
    BY <1>0 DEF Recompute, LockTypes
<1>e. ThreadTypes'
    BY <1>0, <1>1 DEF Recompute, Goto, ThreadTypes, DetectorTypes, Steps
<1> QED
    BY <1>a, <1>b, <1>c, <1>d, <1>e, TypePartsNext

\* tick's measurement.
LEMMA TickTypes ==
    ASSUME TypeOK, CalmInv, VoteInv, NEW r \in Replicas, Tick(r)
    PROVE  TypeOK'
<1>0. DetectorTypes /\ PinTypes /\ VoteTypes /\ LockTypes /\ ThreadTypes
    BY TypeParts
<1>1. <<r, "tick">> \in Goroutines /\ <<r, "admin">> \in Goroutines
    BY TwoOf DEF Admin
<1>a. DetectorTypes'
    BY <1>0 DEF Tick, DetectorTypes
<1>b. PinTypes'
    BY <1>0 DEF Tick, PinTypes
<1>c. VoteTypes'
    BY <1>0 DEF Tick, VoteTypes
<1>d. LockTypes'
    BY <1>0 DEF Tick, LockTypes
<1>e. ThreadTypes'
    <2>1. 0 \in Levels /\ cfg[r] \in Configs
        BY <1>0 DEF Levels, DetectorTypes
    <2>2. PICK s \in Signals : gsig' = [gsig EXCEPT ![<<r, "tick">>] = s]
        BY DEF Tick
    <2> QED
        BY <1>0, <2>1, <2>2 DEF Tick, Goto, ThreadTypes, Steps
<1> QED
    BY <1>a, <1>b, <1>c, <1>d, <1>e, TypePartsNext

\* Pin's first half.
LEMMA PinStartTypes ==
    ASSUME TypeOK, CalmInv, VoteInv, NEW r \in Replicas, PinStart(r)
    PROVE  TypeOK'
<1>0. DetectorTypes /\ PinTypes /\ VoteTypes /\ LockTypes /\ ThreadTypes
    BY TypeParts
<1>1. <<r, "tick">> \in Goroutines /\ <<r, "admin">> \in Goroutines
    BY TwoOf DEF Admin
<1>a. DetectorTypes'
    BY <1>0 DEF PinStart, DetectorTypes
<1>b. PinTypes'
    <2>1. PICK level \in Levels, ttl \in PinTTLs :
            /\ pin' = [pin EXCEPT ![r] = [level |-> level, timed |-> ttl > 0, left |-> ttl]]
            /\ goal' = [goal EXCEPT ![r] = [level |-> level, timed |-> ttl > 0, left |-> ttl]]
        BY DEF PinStart
    <2>2. [level |-> level, timed |-> ttl > 0, left |-> ttl] \in Pin
        BY AttackModeAssumption DEF Pin
    <2>3. (pinned[r] /\ pin[r].timed) \in BOOLEAN
        OBVIOUS
    <2> QED
        BY <1>0, <2>1, <2>2, <2>3 DEF PinStart, PinTypes
<1>c. VoteTypes'
    BY <1>0 DEF PinStart, VoteTypes
<1>d. LockTypes'
    BY <1>0 DEF PinStart, LockTypes
<1>e. ThreadTypes'
    BY <1>0 DEF PinStart, Goto, ThreadTypes, Steps
<1> QED
    BY <1>a, <1>b, <1>c, <1>d, <1>e, TypePartsNext

\* Unpin.
LEMMA UnpinTypes ==
    ASSUME TypeOK, CalmInv, VoteInv, NEW r \in Replicas, Unpin(r)
    PROVE  TypeOK'
<1>0. DetectorTypes /\ PinTypes /\ VoteTypes /\ LockTypes /\ ThreadTypes
    BY TypeParts
<1>1. <<r, "tick">> \in Goroutines /\ <<r, "admin">> \in Goroutines
    BY TwoOf DEF Admin
<1>a. DetectorTypes'
    BY <1>0 DEF Unpin, DetectorTypes
<1>b. PinTypes'
    BY <1>0 DEF Unpin, PinTypes
<1>c. VoteTypes'
    BY <1>0 DEF Unpin, VoteTypes
<1>d. LockTypes'
    BY <1>0 DEF Unpin, LockTypes
<1>e. ThreadTypes'
    BY <1>0 DEF Unpin, Goto, ThreadTypes, Steps
<1> QED
    BY <1>a, <1>b, <1>c, <1>d, <1>e, TypePartsNext

\* SetConfig.
LEMMA SetConfigTypes ==
    ASSUME TypeOK, CalmInv, VoteInv, NEW r \in Replicas, SetConfig(r)
    PROVE  TypeOK'
<1>0. DetectorTypes /\ PinTypes /\ VoteTypes /\ LockTypes /\ ThreadTypes
    BY TypeParts
<1>1. <<r, "tick">> \in Goroutines /\ <<r, "admin">> \in Goroutines
    BY TwoOf DEF Admin
<1>a. DetectorTypes'
    BY <1>0 DEF SetConfig, DetectorTypes
<1>b. PinTypes'
    BY <1>0 DEF SetConfig, PinTypes
<1>c. VoteTypes'
    BY <1>0 DEF SetConfig, VoteTypes
<1>d. LockTypes'
    BY <1>0 DEF SetConfig, LockTypes
<1>e. ThreadTypes'
    BY <1>0 DEF SetConfig, Goto, ThreadTypes, Steps
<1> QED
    BY <1>a, <1>b, <1>c, <1>d, <1>e, TypePartsNext

\* Close.
LEMMA CloseTypes ==
    ASSUME TypeOK, CalmInv, VoteInv, NEW r \in Replicas, Close(r)
    PROVE  TypeOK'
<1>0. DetectorTypes /\ PinTypes /\ VoteTypes /\ LockTypes /\ ThreadTypes
    BY TypeParts
<1>2. votes[r].left > 0 => voteLive[r]
    BY DEF VoteInv, VoteOK
<1>3. /\ (voteLive \in [Replicas -> BOOLEAN])' /\ (dirty \in [Replicas -> BOOLEAN])'
      /\ (votes \in [Replicas -> [level : Levels, left : 0..Window]])'
    BY <1>0, <1>2, ClearSharedKeeps DEF Close
<1>a. DetectorTypes'
    BY <1>0 DEF Close, DetectorTypes
<1>b. PinTypes'
    BY <1>0 DEF Close, PinTypes
<1>c. VoteTypes'
    BY <1>0, <1>3 DEF Close, VoteTypes
<1>d. LockTypes'
    BY <1>0 DEF Close, LockTypes
<1>e. ThreadTypes'
    BY <1>0 DEF Close, ThreadTypes
<1> QED
    BY <1>a, <1>b, <1>c, <1>d, <1>e, TypePartsNext

\* A crash.
LEMMA CrashTypes ==
    ASSUME TypeOK, CalmInv, VoteInv, NEW r \in Replicas, Crash(r)
    PROVE  TypeOK'
<1>0. DetectorTypes /\ PinTypes /\ VoteTypes /\ LockTypes /\ ThreadTypes
    BY TypeParts
<1>a. DetectorTypes'
    BY <1>0 DEF Crash, DetectorTypes
<1>b. PinTypes'
    BY <1>0 DEF Crash, PinTypes
<1>c. VoteTypes'
    BY <1>0 DEF Crash, VoteTypes
<1>d. LockTypes'
    BY <1>0 DEF Crash, LockTypes
<1>e. ThreadTypes'
    BY <1>0 DEF Crash, ThreadTypes, Steps
<1> QED
    BY <1>a, <1>b, <1>c, <1>d, <1>e, TypePartsNext

\* Ages grow up to MinDwell.
LEMMA OlderTypes ==
    ASSUME NEW ages \in [Levels -> Ages]
    PROVE  Older(ages) \in [Levels -> Ages]
    BY AttackModeAssumption DEF Older, Ages

\* What an end does in a bucket: nothing but come closer.
LEMMA ShorterTypes ==
    ASSUME NEW p \in Pin
    PROVE  /\ Shorter(p) \in Pin /\ Shorter(p).level = p.level /\ Shorter(p).timed = p.timed
           /\ Shorter(p).left <= p.left
<1>1. p # None
    BY NoneIsNothing
<1> QED
    BY <1>1 DEF Shorter, Pin

\* A bucket passes.
LEMMA ClockTypes ==
    ASSUME TypeOK, Clock
    PROVE  TypeOK'
<1>0. DetectorTypes /\ PinTypes /\ VoteTypes /\ LockTypes /\ ThreadTypes
    BY TypeParts
<1>a. DetectorTypes'
    BY <1>0, OlderTypes DEF Clock, DetectorTypes
<1>b. PinTypes'
    <2>1. \A p \in Pin \cup {None} : Shorter(p) \in Pin \cup {None}
        BY ShorterTypes DEF Shorter
    <2> QED
        BY <1>0, <2>1, ShorterTypes DEF Clock, PinTypes
<1>c. VoteTypes'
    <2>1. ASSUME NEW v \in [level : Levels, left : 0..Window]
          PROVE  (IF v.left > 1 THEN Shorter(v) ELSE NoVote) \in [level : Levels, left : 0..Window]
        BY AttackModeAssumption DEF Shorter, NoVote, Levels
    <2> QED
        BY <1>0, <2>1 DEF Clock, VoteTypes
<1>d. LockTypes'
    BY <1>0 DEF Clock, LockTypes
<1>e. ThreadTypes'
    BY <1>0 DEF Clock, ThreadTypes
<1> QED
    BY <1>a, <1>b, <1>c, <1>d, <1>e, TypePartsNext

-----------------------------------------------------------------------------
(* Pins                                                                    *)

\* Where everybody is after one goroutine has moved.
LEMMA Moved ==
    ASSUME ThreadTypes, NEW g \in Goroutines, NEW step, Goto(g, step)
    PROVE  pc'[g] = step /\ \A h \in Goroutines \ {g} : pc'[h] = pc[h]
<1>1. pc' = [pc EXCEPT ![g] = step] /\ pc \in [Goroutines -> Steps]
    BY DEF Goto, ThreadTypes
<1> QED
    BY <1>1

\* The places that only the ticker has, and those that only an admin call has.
LEMMA WhoIsWhere ==
    ASSUME PinInv, NEW g \in Goroutines
    PROVE  /\ g[1] \in Replicas /\ (g = Admin(g[1]) \/ g = <<g[1], "tick">>)
           /\ pc[g] \in {"local", "share", "max"} => g = <<g[1], "tick">>
           /\ pc[g] \in {"set", "recompute"} => g = Admin(g[1])
           /\ g[2] = "tick" <=> g = <<g[1], "tick">>
           /\ g[2] = "admin" <=> g = Admin(g[1])
<1>1. g[1] \in Replicas
    BY GoroutineIs
<1>2. g = Admin(g[1]) \/ g = <<g[1], "tick">>
    BY <1>1, TwoOf
<1>3. /\ pc[Admin(g[1])] \notin {"local", "share", "max"}
      /\ pc[<<g[1], "tick">>] \notin {"set", "recompute"}
    BY <1>1 DEF PinInv, AdminShape, TickShape
<1> QED
    BY <1>1, <1>2, <1>3, TwoOf DEF Admin

\* What a goroutine does to its replica concerns no other.
LEMMA LocalStep ==
    ASSUME ThreadTypes, PinInv, NEW g \in Goroutines, NEW r \in Replicas, g[1] = r,
           NEW step, Goto(g, step),
           \A q \in Replicas \ {r} :
              /\ state'[q] = state[q] /\ pinned'[q] = pinned[q] /\ evalBy'[q] = evalBy[q]
              /\ pin'[q] = pin[q] /\ goal'[q] = goal[q] /\ want'[q] = want[q]
              /\ replaces'[q] = replaces[q] /\ up'[q] = up[q],
           step = "expire" <=> evalBy'[r] = g,
           evalBy'[r] = evalBy[r] \/ (evalBy[r] \in {None, g} /\ evalBy'[r] \in {None, g}),
           AdminShape(r)', TickShape(r)', ExpireInv(r)', StickInv(r)'
    PROVE  PinInv'
<1>1. pc'[g] = step /\ \A h \in Goroutines \ {g} : pc'[h] = pc[h]
    BY Moved
<1>2. EvalLock'
    <2> SUFFICES ASSUME NEW h \in Goroutines, h # g
                 PROVE  pc'[h] = "expire" <=> evalBy'[h[1]] = h
        BY <1>1 DEF EvalLock
    <2>1. pc[h] = "expire" <=> evalBy[h[1]] = h
        BY DEF PinInv, EvalLock
    <2>2. h[1] \in Replicas
        BY GoroutineIs
    <2>3. CASE h[1] = r
        BY <1>1, <2>1, <2>3, NoneIsNothing
    <2>4. CASE h[1] # r
        BY <1>1, <2>1, <2>2, <2>4
    <2> QED
        BY <2>3, <2>4
<1>3. ASSUME NEW q \in Replicas, q # r
      PROVE  AdminShape(q)' /\ TickShape(q)' /\ ExpireInv(q)' /\ StickInv(q)'
    <2>1. /\ Admin(q) # g /\ Admin(q) \in Goroutines
          /\ <<q, "tick">> # g /\ <<q, "tick">> \in Goroutines
        BY <1>3, TwoOf
    <2>2. pc'[Admin(q)] = pc[Admin(q)] /\ pc'[<<q, "tick">>] = pc[<<q, "tick">>]
        BY <1>1, <2>1
    <2>3. AdminShape(q) /\ TickShape(q) /\ ExpireInv(q) /\ StickInv(q)
        BY DEF PinInv
    <2> QED
        BY <1>3, <2>2, <2>3 DEF AdminShape, TickShape, ExpireInv, StickInv, Unexpired
<1> QED
    BY <1>2, <1>3 DEF PinInv

pinVars == <<pin, pinned, goal, want, replaces, up, evalBy, state>>

\* The ticker moves outside evalMu and touches no pin.
LEMMA TickerMoves ==
    ASSUME ThreadTypes, PinInv, NEW r \in Replicas, pc[<<r, "tick">>] # "expire",
           NEW step \in {"idle", "local", "share", "max", "clear", "eval"},
           Goto(<<r, "tick">>, step), UNCHANGED pinVars
    PROVE  PinInv'
<1> DEFINE g == <<r, "tick">>
<1> USE DEF pinVars
<1>0. g \in Goroutines /\ g[1] = r /\ Admin(r) # g /\ Admin(r) \in Goroutines
    BY TwoOf
<1>1. pc'[g] = step /\ pc'[Admin(r)] = pc[Admin(r)]
    BY <1>0, Moved
<1>2. AdminShape(r)' /\ TickShape(r)' /\ ExpireInv(r)' /\ StickInv(r)'
    BY <1>1 DEF PinInv, AdminShape, TickShape, ExpireInv, StickInv, Unexpired
<1>3. step # "expire" /\ evalBy'[r] # g
    BY <1>0 DEF PinInv, EvalLock
<1> HIDE DEF g
<1>4. Goto(g, step)
    BY DEF g
<1> QED
    BY <1>0, <1>2, <1>3, <1>4, LocalStep

\* What of the ticker's steps leaves pins alone.
LEMMA TickerPin ==
    ASSUME TypeOK, PinInv, NEW g \in Goroutines,
           TickLocal(g) \/ TickShare(g) \/ TickMax(g) \/ (ClearSharedVote(g) /\ g[2] = "tick")
    PROVE  PinInv'
<1>0. ThreadTypes
    BY TypeParts
<1>1. g[1] \in Replicas /\ g = <<g[1], "tick">> /\ pc[g] # "expire"
    BY WhoIsWhere DEF TickLocal, TickShare, TickMax, ClearSharedVote
<1>2. UNCHANGED pinVars
    BY DEF TickLocal, TickShare, TickMax, ClearSharedVote, pinVars
<1>3. PICK step \in {"share", "eval", "max"} : Goto(g, step)
    BY DEF TickLocal, TickShare, TickMax, ClearSharedVote
<1> QED
    BY <1>0, <1>1, <1>2, <1>3, TickerMoves

\* The ticker fires.
LEMMA TickPin ==
    ASSUME TypeOK, PinInv, NEW r \in Replicas, Tick(r)
    PROVE  PinInv'
<1>0. ThreadTypes
    BY TypeParts
<1>1. UNCHANGED pinVars /\ pc[<<r, "tick">>] # "expire"
    BY DEF Tick, Idle, pinVars
<1>2. PICK step \in {"local", "clear"} : Goto(<<r, "tick">>, step)
    BY DEF Tick
<1> QED
    BY <1>0, <1>1, <1>2, TickerMoves

\* Where evaluate leaves its goroutine.
LEMMA EvaluatedMoves ==
    ASSUME NEW g \in Goroutines, Evaluated(g)
    PROVE  \E step \in {"clear", "idle"} :
              /\ Goto(g, step)
              /\ step = "clear" <=> g[2] = "admin" /\ goal[g[1]] # None
    BY DEF Evaluated

\* The end of evaluate outside evalMu: the posture of a pinned replica is the pin's,
\* and nobody promised anything of the posture of another.
LEMMA EvaluatePin ==
    ASSUME TypeOK, PinInv, NEW g \in Goroutines, NEW r \in Replicas, g[1] = r,
           pc[g] \in {"eval", "expire"}, evalBy'[r] = None, evalBy[r] \in {None, g},
           Evaluated(g), UNCHANGED <<pin, goal, want, replaces, up>>,
           \A q \in Replicas \ {r} :
              state'[q] = state[q] /\ pinned'[q] = pinned[q] /\ evalBy'[q] = evalBy[q],
           \/ pinned[r] /\ pinned'[r] /\ state'[r].level = pin[r].level
           \/ ~pinned[r]
           \/ pc[g] = "expire"
    PROVE  PinInv'
<1>0. ThreadTypes /\ g \in Goroutines /\ Admin(r) \in Goroutines /\ <<r, "tick">> \in Goroutines
    BY TypeParts, TwoOf
<1>1. PICK step \in {"clear", "idle"} :
         /\ Goto(g, step)
         /\ step = "clear" <=> g[2] = "admin" /\ goal[g[1]] # None
    BY EvaluatedMoves
<1>2. pc'[g] = step /\ \A h \in Goroutines \ {g} : pc'[h] = pc[h]
    BY <1>0, <1>1, Moved
<1>3. /\ g[2] = "admin" <=> g = Admin(r)
      /\ g = Admin(r) \/ g = <<r, "tick">>
      /\ Admin(r) # <<r, "tick">>
    BY WhoIsWhere, TwoOf
<1>4. AdminShape(r) /\ TickShape(r) /\ ExpireInv(r) /\ StickInv(r) /\ EvalLock
    BY DEF PinInv
<1>5. AdminShape(r)' /\ TickShape(r)'
    BY <1>0, <1>1, <1>2, <1>3, <1>4 DEF AdminShape, TickShape
<1>6. ExpireInv(r)'
    BY DEF ExpireInv
<1>7. StickInv(r)'
    <2> SUFFICES ASSUME up[r], ~replaces[r], Unexpired(pin[r])
                 PROVE  /\ goal[r] # None /\ pc'[Admin(r)] # "set" => pinned'[r]
                        /\ (goal[r] # None /\ pc'[Admin(r)] = "clear") \/ want[r] # None =>
                              pinned'[r] /\ state'[r].level = pin[r].level
        BY DEF StickInv, Unexpired
    <2>1. CASE pinned[r] /\ pinned'[r] /\ state'[r].level = pin[r].level
        BY <2>1
    <2>2. CASE ~pinned[r]
        <3>1. want[r] = None /\ (goal[r] # None => pc[Admin(r)] = "set")
            BY <2>2, <1>4 DEF StickInv
        <3>2. goal[r] # None => pc'[Admin(r)] = "set"
            BY <3>1, <1>0, <1>2
        <3> QED
            BY <3>1, <3>2
    <2>3. CASE pc[g] = "expire"
        <3>1. evalBy[r] # None
            BY <2>3, <1>4, NoneIsNothing DEF EvalLock
        <3>2. goal[r] = None /\ want[r] = None
            BY <3>1, <1>4 DEF ExpireInv
        <3> QED
            BY <3>2
    <2> QED
        BY <2>1, <2>2, <2>3
<1>8. step # "expire" /\ evalBy'[r] # g
    BY NoneIsNothing
<1> QED
    BY <1>0, <1>1, <1>5, <1>6, <1>7, <1>8, LocalStep

\* evaluate and the drop of an expired pin.
LEMMA EvaluatesPin ==
    ASSUME TypeOK, CalmInv, PinInv, NEW g \in Goroutines, Evaluate(g) \/ EvaluateExpired(g)
    PROVE  PinInv'
<1> DEFINE r == g[1]
<1>0. /\ r \in Replicas /\ gcfg[g] \in Configs /\ gsig[g] \in Signals /\ gpeer[g] \in Levels
      /\ DetectorTypes /\ PinTypes /\ ThreadTypes /\ LockTypes
    BY GoroutineIs, TypeParts DEF ThreadTypes
<1>1. PICK c \in Configs, s \in Signals, l \in Levels : c = gcfg[g] /\ s = gsig[g] /\ l = gpeer[g]
    BY <1>0
<1>2. Decide(r, c, s, l) => \A q \in Replicas \ {r} : state'[q] = state[q]
    BY <1>0, DecideKeeps
<1>3. Forced(r, c) => /\ \A q \in Replicas \ {r} : state'[q] = state[q]
                      /\ state'[r].level = pin[r].level
    BY <1>0, ForcedKeeps
<1>4. CASE Evaluate(g) /\ pinned[r] /\ PinExpired(r)
    <2> USE <1>4
    <2>1. /\ evalBy[r] = None /\ evalBy' = [evalBy EXCEPT ![r] = g] /\ Goto(g, "expire")
          /\ UNCHANGED <<state, pinned, pin, goal, want, replaces, up>> /\ pc[g] = "eval"
        BY DEF Evaluate
    <2>2. evalBy'[r] = g /\ \A q \in Replicas \ {r} : evalBy'[q] = evalBy[q]
        BY <1>0, <2>1 DEF LockTypes
    <2>3. /\ pc'[g] = "expire" /\ \A h \in Goroutines \ {g} : pc'[h] = pc[h]
          /\ Admin(r) \in Goroutines /\ <<r, "tick">> \in Goroutines
        BY <1>0, <2>1, Moved, TwoOf
    <2>4. ~Unexpired(pin[r])
        BY DEF PinExpired, Unexpired
    <2>5. AdminShape(r) /\ TickShape(r)
        BY <1>0 DEF PinInv
    <2>6. AdminShape(r)' /\ TickShape(r)'
        BY <2>1, <2>3, <2>5 DEF AdminShape, TickShape
    <2>7. ExpireInv(r)' /\ StickInv(r)'
        BY <2>1, <2>4 DEF ExpireInv, StickInv, Unexpired
    <2> HIDE <1>4
    <2> QED
        BY <1>0, <2>1, <2>2, <2>6, <2>7, LocalStep
<1>5. CASE Evaluate(g) /\ pinned[r] /\ ~PinExpired(r)
    <2>1. /\ Forced(r, gcfg[g]) /\ Evaluated(g) /\ evalBy[r] = None /\ pc[g] = "eval"
          /\ UNCHANGED <<evalBy, pinned, pin, goal, want, replaces, up>>
        BY <1>5 DEF Evaluate
    <2>2. (\A q \in Replicas \ {r} : state'[q] = state[q]) /\ state'[r].level = pin[r].level
        BY <2>1, <1>1, <1>3
    <2>3. pinned[r] /\ pinned'[r]
        BY <1>5, <2>1
    <2> QED
        BY <1>0, <2>1, <2>2, <2>3, EvaluatePin
<1>6. CASE Evaluate(g) /\ ~pinned[r]
    <2>1. /\ Decide(r, gcfg[g], gsig[g], gpeer[g]) /\ Evaluated(g) /\ evalBy[r] = None
          /\ UNCHANGED <<evalBy, pinned, pin, goal, want, replaces, up>> /\ pc[g] = "eval"
        BY <1>6 DEF Evaluate
    <2>2. \A q \in Replicas \ {r} : state'[q] = state[q]
        BY <2>1, <1>1, <1>2
    <2> QED
        BY <1>0, <1>6, <2>1, <2>2, EvaluatePin
<1>7. CASE EvaluateExpired(g)
    <2>1. /\ Decide(r, gcfg[g], gsig[g], gpeer[g]) /\ Evaluated(g) /\ pc[g] = "expire"
          /\ pinned' = [pinned EXCEPT ![r] = FALSE] /\ evalBy' = [evalBy EXCEPT ![r] = None]
          /\ UNCHANGED <<pin, goal, want, replaces, up>>
        BY <1>7 DEF EvaluateExpired
    <2>2. \A q \in Replicas \ {r} : state'[q] = state[q]
        BY <2>1, <1>1, <1>2
    <2>3. /\ evalBy'[r] = None /\ evalBy[r] = g
          /\ \A q \in Replicas \ {r} : pinned'[q] = pinned[q] /\ evalBy'[q] = evalBy[q]
        BY <1>0, <2>1 DEF LockTypes, PinTypes, PinInv, EvalLock
    <2> QED
        BY <1>0, <2>1, <2>2, <2>3, EvaluatePin
<1> QED
    BY <1>4, <1>5, <1>6, <1>7

\* An admin call moves outside evalMu and changes its own replica only.
LEMMA AdminMoves ==
    ASSUME ThreadTypes, PinInv, NEW r \in Replicas, pc[Admin(r)] # "expire",
           NEW step \in {"idle", "clear", "eval", "set", "recompute"},
           Goto(Admin(r), step), UNCHANGED <<evalBy, up, state>>,
           \A q \in Replicas \ {r} :
              /\ pinned'[q] = pinned[q] /\ pin'[q] = pin[q] /\ goal'[q] = goal[q]
              /\ want'[q] = want[q] /\ replaces'[q] = replaces[q],
           pc'[Admin(r)] = step => AdminShape(r)' /\ ExpireInv(r)' /\ StickInv(r)'
    PROVE  PinInv'
<1>0. PICK g \in Goroutines : g = Admin(r)
    BY TwoOf
<1>1. g[1] = r /\ g # <<r, "tick">> /\ <<r, "tick">> \in Goroutines
    BY <1>0, TwoOf
<1>2. Goto(g, step)
    BY <1>0
<1>3. pc'[g] = step /\ pc'[<<r, "tick">>] = pc[<<r, "tick">>]
    BY <1>1, <1>2, Moved
<1>4. TickShape(r)'
    BY <1>3 DEF PinInv, TickShape
<1>5. AdminShape(r)' /\ ExpireInv(r)' /\ StickInv(r)'
    BY <1>0, <1>3
<1>6. step # "expire" /\ evalBy'[r] # g
    BY <1>0, <1>1 DEF PinInv, EvalLock
<1> QED
    BY <1>1, <1>2, <1>4, <1>5, <1>6, LocalStep

\* The last step of Pin and SetConfig: the operator is told.
LEMMA ClearPin ==
    ASSUME TypeOK, PinInv, NEW g \in Goroutines, ClearSharedVote(g), g[2] = "admin"
    PROVE  PinInv'
<1>0. PICK r \in Replicas : r = g[1]
    BY GoroutineIs
<1>1. g = Admin(r) /\ ThreadTypes /\ PinTypes
    BY <1>0, WhoIsWhere, TypeParts
<1>2. /\ pc[g] = "clear" /\ Goto(g, "idle")
      /\ want' = IF goal[r] = None THEN want ELSE [want EXCEPT ![r] = goal[r]]
      /\ goal' = [goal EXCEPT ![r] = None]
      /\ UNCHANGED <<evalBy, up, state, pinned, pin, replaces>>
    BY <1>0 DEF ClearSharedVote
<1>3. /\ goal'[r] = None /\ want'[r] = IF goal[r] = None THEN want[r] ELSE goal[r]
      /\ \A q \in Replicas \ {r} : goal'[q] = goal[q] /\ want'[q] = want[q]
    BY <1>2, <1>1 DEF PinTypes
<1>4. AdminShape(r) /\ ExpireInv(r) /\ StickInv(r)
    BY DEF PinInv
<1>5. ASSUME pc'[Admin(r)] = "idle"
      PROVE  AdminShape(r)' /\ ExpireInv(r)' /\ StickInv(r)'
    <2>1. AdminShape(r)'
        BY <1>1, <1>2, <1>3, <1>4, <1>5 DEF AdminShape
    <2>2. ExpireInv(r)'
        BY <1>1, <1>2, <1>3, <1>4, <1>5 DEF ExpireInv, Unexpired
    <2>3. StickInv(r)'
        BY <1>1, <1>2, <1>3, <1>4, <1>5 DEF StickInv, Unexpired
    <2> QED
        BY <2>1, <2>2, <2>3
<1> QED
    BY <1>1, <1>2, <1>3, <1>5, AdminMoves

\* Pin raises its flag.
LEMMA PinSetPin ==
    ASSUME TypeOK, PinInv, NEW g \in Goroutines, PinSet(g)
    PROVE  PinInv'
<1>0. PICK r \in Replicas : r = g[1]
    BY GoroutineIs
<1>1. g = Admin(r) /\ ThreadTypes /\ PinTypes /\ pc[g] = "set"
    BY <1>0, WhoIsWhere, TypeParts DEF PinSet
<1>2. /\ Goto(g, "recompute") /\ pinned' = [pinned EXCEPT ![r] = TRUE]
      /\ UNCHANGED <<evalBy, up, state, pin, goal, want, replaces>>
    BY <1>0 DEF PinSet
<1>3. pinned'[r] /\ \A q \in Replicas \ {r} : pinned'[q] = pinned[q]
    BY <1>2, <1>1 DEF PinTypes
<1>4. AdminShape(r) /\ ExpireInv(r) /\ StickInv(r)
    BY DEF PinInv
<1>5. ASSUME pc'[Admin(r)] = "recompute"
      PROVE  AdminShape(r)' /\ ExpireInv(r)' /\ StickInv(r)'
    <2>1. AdminShape(r)'
        BY <1>1, <1>2, <1>4, <1>5 DEF AdminShape
    <2>2. ExpireInv(r)'
        BY <1>1, <1>2, <1>3, <1>4, <1>5 DEF ExpireInv, Unexpired
    <2>3. StickInv(r)'
        BY <1>1, <1>2, <1>3, <1>4, <1>5 DEF StickInv, AdminShape
    <2> QED
        BY <2>1, <2>2, <2>3
<1> QED
    BY <1>1, <1>2, <1>3, <1>5, AdminMoves

\* recompute reads.
LEMMA RecomputePin ==
    ASSUME TypeOK, PinInv, NEW g \in Goroutines, Recompute(g)
    PROVE  PinInv'
<1>0. PICK r \in Replicas : r = g[1]
    BY GoroutineIs
<1>1. g = Admin(r) /\ ThreadTypes /\ pc[g] = "recompute"
    BY <1>0, WhoIsWhere, TypeParts DEF Recompute
<1>2. Goto(g, "eval") /\ UNCHANGED <<evalBy, up, state, pinned, pin, goal, want, replaces>>
    BY DEF Recompute
<1>4. AdminShape(r) /\ ExpireInv(r) /\ StickInv(r)
    BY DEF PinInv
<1>5. ASSUME pc'[Admin(r)] = "eval"
      PROVE  AdminShape(r)' /\ ExpireInv(r)' /\ StickInv(r)'
    <2>1. AdminShape(r)'
        BY <1>1, <1>2, <1>4, <1>5 DEF AdminShape
    <2>2. ExpireInv(r)'
        BY <1>1, <1>2, <1>4, <1>5 DEF ExpireInv, Unexpired
    <2>3. StickInv(r)'
        BY <1>1, <1>2, <1>4, <1>5 DEF StickInv, Unexpired
    <2> QED
        BY <2>1, <2>2, <2>3
<1> QED
    BY <1>1, <1>2, <1>5, AdminMoves

\* Pin begins: the old promise ends, and a drop in the gap can only hit a timed pin.
LEMMA PinStartPin ==
    ASSUME TypeOK, PinInv, NEW r \in Replicas, PinStart(r)
    PROVE  PinInv'
<1>1. ThreadTypes /\ PinTypes /\ pc[Admin(r)] = "idle"
    BY TypeParts DEF PinStart, Serves, Idle, Admin
<1>2. /\ Goto(Admin(r), "set") /\ want' = [want EXCEPT ![r] = None]
      /\ replaces' = [replaces EXCEPT ![r] = pinned[r] /\ pin[r].timed]
      /\ UNCHANGED <<evalBy, up, state, pinned>>
    BY DEF PinStart, Admin
<1>3. PICK level \in Levels, ttl \in PinTTLs :
         /\ pin' = [pin EXCEPT ![r] = [level |-> level, timed |-> ttl > 0, left |-> ttl]]
         /\ goal' = [goal EXCEPT ![r] = [level |-> level, timed |-> ttl > 0, left |-> ttl]]
    BY DEF PinStart
<1> DEFINE p == [level |-> level, timed |-> ttl > 0, left |-> ttl]
<1>5. pin' = [pin EXCEPT ![r] = p] /\ goal' = [goal EXCEPT ![r] = p]
    BY <1>3
<1>4a. p \in Pin
    BY AttackModeAssumption DEF Pin
<1> HIDE DEF p
<1>4. p # None
    BY <1>4a, NoneIsNothing
<1>6. /\ pin'[r] = p /\ goal'[r] = p /\ want'[r] = None
      /\ replaces'[r] <=> pinned[r] /\ pin[r].timed
      /\ \A q \in Replicas \ {r} : /\ pin'[q] = pin[q] /\ goal'[q] = goal[q] /\ want'[q] = want[q]
                                   /\ replaces'[q] = replaces[q]
    BY <1>1, <1>2, <1>5 DEF PinTypes
<1>7. AdminShape(r) /\ ExpireInv(r)
    BY DEF PinInv
<1>8. ASSUME pc'[Admin(r)] = "set"
      PROVE  AdminShape(r)' /\ ExpireInv(r)' /\ StickInv(r)'
    <2>1. AdminShape(r)'
        BY <1>4, <1>6, <1>8 DEF AdminShape
    <2>2. ExpireInv(r)'
        <3> SUFFICES ASSUME evalBy[r] # None
                     PROVE  replaces'[r]
            BY <1>2, <1>4, <1>6, <1>8 DEF ExpireInv
        <3>1. pinned[r] /\ ~Unexpired(pin[r])
            BY <1>1, <1>7 DEF ExpireInv, AdminShape
        <3> QED
            BY <3>1, <1>6 DEF Unexpired
    <2>3. StickInv(r)'
        BY <1>6, <1>8 DEF StickInv
    <2> QED
        BY <2>1, <2>2, <2>3
<1> QED
    BY <1>1, <1>2, <1>6, <1>8, AdminMoves

\* Unpin ends every promise.
LEMMA UnpinPin ==
    ASSUME TypeOK, PinInv, NEW r \in Replicas, Unpin(r)
    PROVE  PinInv'
<1>1. ThreadTypes /\ PinTypes /\ pc[Admin(r)] = "idle"
    BY TypeParts DEF Unpin, Serves, Idle, Admin
<1>2. /\ Goto(Admin(r), "recompute") /\ want' = [want EXCEPT ![r] = None]
      /\ pinned' = [pinned EXCEPT ![r] = FALSE]
      /\ UNCHANGED <<evalBy, up, state, pin, goal, replaces>>
    BY DEF Unpin, Admin
<1>3. /\ want'[r] = None
      /\ \A q \in Replicas \ {r} : want'[q] = want[q] /\ pinned'[q] = pinned[q]
    BY <1>1, <1>2 DEF PinTypes
<1>4. goal[r] = None
    BY <1>1 DEF PinInv, AdminShape
<1>5. ASSUME pc'[Admin(r)] = "recompute"
      PROVE  AdminShape(r)' /\ ExpireInv(r)' /\ StickInv(r)'
    BY <1>2, <1>3, <1>4, <1>5 DEF AdminShape, ExpireInv, StickInv
<1> QED
    BY <1>1, <1>2, <1>3, <1>5, AdminMoves

\* SetConfig touches no pin.
LEMMA SetConfigPin ==
    ASSUME TypeOK, PinInv, NEW r \in Replicas, SetConfig(r)
    PROVE  PinInv'
<1>1. ThreadTypes /\ pc[Admin(r)] = "idle"
    BY TypeParts DEF SetConfig, Serves, Idle, Admin
<1>2. UNCHANGED <<evalBy, up, state, pinned, pin, goal, want, replaces>>
    BY DEF SetConfig
<1>3. PICK step \in {"idle", "clear"} : Goto(Admin(r), step)
    BY DEF SetConfig, Admin
<1>4. AdminShape(r) /\ ExpireInv(r) /\ StickInv(r)
    BY DEF PinInv
<1>5. goal[r] = None
    BY <1>1, <1>4 DEF AdminShape
<1>6. ASSUME pc'[Admin(r)] = step
      PROVE  AdminShape(r)' /\ ExpireInv(r)' /\ StickInv(r)'
    <2>1. AdminShape(r)'
        BY <1>2, <1>4, <1>5, <1>6 DEF AdminShape
    <2>2. ExpireInv(r)'
        BY <1>1, <1>2, <1>4, <1>5 DEF ExpireInv, Unexpired
    <2>3. StickInv(r)'
        BY <1>2, <1>4, <1>5 DEF StickInv, Unexpired
    <2> QED
        BY <2>1, <2>2, <2>3
<1> QED
    BY <1>1, <1>2, <1>3, <1>6, AdminMoves

\* Close and a crash: the replica promises nothing any more.
LEMMA DownPin ==
    ASSUME TypeOK, PinInv, NEW r \in Replicas, Close(r) \/ Crash(r)
    PROVE  PinInv'
<1>0. ThreadTypes /\ PinTypes /\ LockTypes /\ VoteTypes
    BY TypeParts
<1>1. CASE Close(r)
    <2>1. /\ UNCHANGED <<pc, evalBy, state, pinned, pin, goal, want, replaces>>
          /\ up' = [up EXCEPT ![r] = FALSE]
        BY <1>1 DEF Close
    <2>2. \A q \in Replicas : up'[q] => up[q]
        BY <2>1, <1>0 DEF VoteTypes
    <2>3. EvalLock'
        BY <2>1 DEF PinInv, EvalLock
    <2>4. ASSUME NEW q \in Replicas
          PROVE  AdminShape(q)' /\ TickShape(q)' /\ ExpireInv(q)' /\ StickInv(q)'
        <3>1. AdminShape(q)' /\ TickShape(q)'
            BY <2>1 DEF PinInv, AdminShape, TickShape
        <3>2. ExpireInv(q)' /\ StickInv(q)'
            BY <2>1, <2>2 DEF PinInv, ExpireInv, StickInv, Unexpired
        <3> QED
            BY <3>1, <3>2
    <2> QED
        BY <2>3, <2>4 DEF PinInv
<1>2. CASE Crash(r)
    <2>1. /\ UNCHANGED <<state, pinned, pin, want, replaces>> /\ up' = [up EXCEPT ![r] = FALSE]
          /\ pc' = [g \in Goroutines |-> IF g[1] = r THEN "idle" ELSE pc[g]]
          /\ evalBy' = [evalBy EXCEPT ![r] = None] /\ goal' = [goal EXCEPT ![r] = None]
        BY <1>2 DEF Crash
    <2>2. /\ ~up'[r] /\ evalBy'[r] = None /\ goal'[r] = None
          /\ \A q \in Replicas \ {r} :
                evalBy'[q] = evalBy[q] /\ goal'[q] = goal[q] /\ up'[q] = up[q]
        BY <2>1, <1>0 DEF VoteTypes, LockTypes, PinTypes
    <2>3. EvalLock'
        <3> SUFFICES ASSUME NEW h \in Goroutines
                     PROVE  pc'[h] = "expire" <=> evalBy'[h[1]] = h
            BY DEF EvalLock
        <3>1. h[1] \in Replicas /\ (pc[h] = "expire" <=> evalBy[h[1]] = h)
            BY GoroutineIs DEF PinInv, EvalLock
        <3> QED
            BY <2>1, <2>2, <3>1, NoneIsNothing
    <2>4. ASSUME NEW q \in Replicas
          PROVE  AdminShape(q)' /\ TickShape(q)' /\ ExpireInv(q)' /\ StickInv(q)'
        <3>0. /\ pc'[Admin(q)] = IF q = r THEN "idle" ELSE pc[Admin(q)]
              /\ pc'[<<q, "tick">>] = IF q = r THEN "idle" ELSE pc[<<q, "tick">>]
            BY <2>1, TwoOf
        <3>1. AdminShape(q)' /\ TickShape(q)'
            BY <2>1, <2>2, <3>0 DEF PinInv, AdminShape, TickShape
        <3>2. CASE q = r
            BY <2>2, <3>1, <3>2 DEF ExpireInv, StickInv
        <3>3. CASE q # r
            BY <2>1, <2>2, <3>0, <3>1, <3>3 DEF PinInv, ExpireInv, StickInv, Unexpired
        <3> QED
            BY <3>1, <3>2, <3>3
    <2> QED
        BY <2>3, <2>4 DEF PinInv
<1> QED
    BY <1>1, <1>2

\* Time only brings the end of a pin closer.
LEMMA ClockPin ==
    ASSUME TypeOK, PinInv, Clock
    PROVE  PinInv'
<1>0. PinTypes
    BY TypeParts
<1>1. /\ pin' = [r \in Replicas |-> Shorter(pin[r])]
      /\ goal' = [r \in Replicas |-> Shorter(goal[r])]
      /\ want' = [r \in Replicas |-> Shorter(want[r])]
      /\ UNCHANGED <<pc, evalBy, state, pinned, up, replaces>>
    BY DEF Clock
<1>2. EvalLock'
    BY <1>1 DEF PinInv, EvalLock
<1>3. ASSUME NEW r \in Replicas
      PROVE  AdminShape(r)' /\ TickShape(r)' /\ ExpireInv(r)' /\ StickInv(r)'
    <2>1. /\ pin[r] \in Pin /\ pin'[r] = Shorter(pin[r]) /\ goal'[r] = Shorter(goal[r])
          /\ want'[r] = Shorter(want[r])
          /\ goal[r] \in Pin \cup {None} /\ want[r] \in Pin \cup {None}
        BY <1>0, <1>1 DEF PinTypes
    <2>2. \A p \in Pin \cup {None} : Shorter(p) = None <=> p = None
        BY ShorterTypes, NoneIsNothing DEF Shorter
    <2>3. (goal'[r] = None <=> goal[r] = None) /\ (want'[r] = None <=> want[r] = None)
        BY <2>1, <2>2
    <2>4. Unexpired(pin'[r]) => Unexpired(pin[r])
        <3>1. PICK p \in Pin : p = pin[r]
            BY <2>1
        <3>2. Shorter(p) \in Pin /\ Shorter(p).timed = p.timed /\ Shorter(p).left <= p.left
            BY ShorterTypes
        <3>3. p.left \in Nat /\ Shorter(p).left \in Nat
            BY <3>2 DEF Pin
        <3> QED
            BY <2>1, <3>1, <3>2, <3>3 DEF Unexpired
    <2>5. pin'[r].level = pin[r].level
        BY <2>1, ShorterTypes
    <2>6. AdminShape(r)' /\ TickShape(r)'
        BY <1>1, <2>1, <2>3 DEF PinInv, AdminShape, TickShape
    <2>7. ExpireInv(r)' /\ StickInv(r)'
        <3>1. ExpireInv(r) /\ StickInv(r)
            BY DEF PinInv
        <3>2. Unexpired(pin[r])' => Unexpired(pin[r])
            BY <2>4 DEF Unexpired
        <3> QED
            BY <1>1, <2>3, <2>5, <3>1, <3>2 DEF ExpireInv, StickInv
    <2> QED
        BY <2>6, <2>7
<1> QED
    BY <1>2, <1>3 DEF PinInv

-----------------------------------------------------------------------------
(* Votes                                                                   *)

\* What a goroutine does to its replica's vote concerns no other.
LEMMA VoteStep ==
    ASSUME ThreadTypes, VoteInv, NEW g \in Goroutines, NEW r \in Replicas, g[1] = r,
           NEW step, Goto(g, step),
           \A q \in Replicas \ {r} :
              /\ votes'[q] = votes[q] /\ voteLive'[q] = voteLive[q] /\ dirty'[q] = dirty[q]
              /\ pinned'[q] = pinned[q] /\ cfg'[q] = cfg[q] /\ goal'[q] = goal[q]
              /\ up'[q] = up[q],
           VoteOK(r)'
    PROVE  VoteInv'
<1>1. pc'[g] = step /\ \A h \in Goroutines \ {g} : pc'[h] = pc[h]
    BY Moved
<1>2. ASSUME NEW q \in Replicas, q # r
      PROVE  VoteOK(q)'
    <2>1. Admin(q) # g /\ Admin(q) \in Goroutines
        BY <1>2, TwoOf
    <2>2. pc'[Admin(q)] = pc[Admin(q)]
        BY <1>1, <2>1
    <2>3. VoteOK(q)
        BY DEF VoteInv
    <2> QED
        BY <1>2, <2>2, <2>3 DEF VoteOK, Muted, YetToClear
<1> QED
    BY <1>2 DEF VoteInv

\* A step that leaves the store alone, mutes nobody and forgets no clearing.
LEMMA QuietVote ==
    ASSUME ThreadTypes, VoteInv, NEW g \in Goroutines, NEW r \in Replicas, g[1] = r,
           NEW step, Goto(g, step), UNCHANGED <<votes, voteLive, dirty, up>>,
           \A q \in Replicas \ {r} :
              pinned'[q] = pinned[q] /\ cfg'[q] = cfg[q] /\ goal'[q] = goal[q],
           Muted(r)' => Muted(r), YetToClear(r) => YetToClear(r)'
    PROVE  VoteInv'
<1>1. VoteOK(r)'
    BY DEF VoteInv, VoteOK
<1> QED
    BY <1>1, VoteStep

\* A step after which the vote is gone or its removal has failed.
LEMMA ClearedVote ==
    ASSUME ThreadTypes, VoteInv, NEW g \in Goroutines, NEW r \in Replicas, g[1] = r,
           NEW step, Goto(g, step), UNCHANGED <<pinned, cfg, up>>,
           \A q \in Replicas \ {r} :
              /\ votes'[q] = votes[q] /\ voteLive'[q] = voteLive[q] /\ dirty'[q] = dirty[q]
              /\ goal'[q] = goal[q],
           votes'[r].left > 0 => voteLive'[r], dirty'[r] \/ votes'[r].left = 0
    PROVE  VoteInv'
<1>1. VoteOK(r)'
    BY DEF VoteOK
<1> QED
    BY <1>1, VoteStep

\* The ticker's steps that leave the store alone.
LEMMA TickerVote ==
    ASSUME TypeOK, PinInv, VoteInv, NEW g \in Goroutines,
           TickLocal(g) \/ TickMax(g)
    PROVE  VoteInv'
<1>0. PICK r \in Replicas : r = g[1]
    BY GoroutineIs
<1>1. ThreadTypes /\ g = <<r, "tick">> /\ Admin(r) # g /\ Admin(r) \in Goroutines
    BY <1>0, WhoIsWhere, TwoOf, TypeParts DEF TickLocal, TickMax
<1>2. PICK step \in {"share", "eval"} : Goto(g, step)
    BY DEF TickLocal, TickMax
<1>3. pc'[Admin(r)] = pc[Admin(r)]
    BY <1>1, <1>2, Moved
<1>4. UNCHANGED <<votes, voteLive, dirty, up, pinned, cfg, goal>>
    BY DEF TickLocal, TickMax
<1>5. (Muted(r)' => Muted(r)) /\ (YetToClear(r) => YetToClear(r)')
    BY <1>3, <1>4 DEF Muted, YetToClear
<1> QED
    BY <1>0, <1>1, <1>2, <1>4, <1>5, QuietVote

\* The ticker fires.
LEMMA TickVote ==
    ASSUME TypeOK, PinInv, VoteInv, NEW r \in Replicas, Tick(r)
    PROVE  VoteInv'
<1>0. PICK g \in Goroutines : g = <<r, "tick">>
    BY TwoOf
<1>1. ThreadTypes /\ g[1] = r /\ Admin(r) # g /\ Admin(r) \in Goroutines
    BY <1>0, TwoOf, TypeParts
<1>2. PICK step \in {"local", "clear"} : Goto(g, step)
    BY <1>0 DEF Tick
<1>3. pc'[Admin(r)] = pc[Admin(r)]
    BY <1>1, <1>2, Moved
<1>4. UNCHANGED <<votes, voteLive, dirty, up, pinned, cfg, goal>>
    BY DEF Tick
<1>5. (Muted(r)' => Muted(r)) /\ (YetToClear(r) => YetToClear(r)')
    BY <1>3, <1>4 DEF Muted, YetToClear
<1> QED
    BY <1>1, <1>2, <1>4, <1>5, QuietVote

\* sharePosture: a muted replica's vote goes, another's is announced or goes.
LEMMA TickShareVote ==
    ASSUME TypeOK, PinInv, VoteInv, NEW g \in Goroutines, TickShare(g)
    PROVE  VoteInv'
<1>0. PICK r \in Replicas : r = g[1]
    BY GoroutineIs
<1>1. ThreadTypes /\ VoteTypes /\ glocal[g] \in Levels
    BY TypeParts DEF ThreadTypes
<1>2. PICK step \in {"max", "eval"} : Goto(g, step)
    BY DEF TickShare
<1>3. UNCHANGED <<up, pinned, cfg, goal>>
    BY DEF TickShare
<1>4. votes[r].left > 0 => voteLive[r]
    BY DEF VoteInv, VoteOK
<1>5. CASE ClearShared(r) \/ RemoveVote(r)
    <2>1. /\ \A q \in Replicas \ {r} :
                votes'[q] = votes[q] /\ voteLive'[q] = voteLive[q] /\ dirty'[q] = dirty[q]
          /\ votes'[r].left > 0 => voteLive'[r]
          /\ dirty'[r] \/ votes'[r].left = 0
        BY <1>1, <1>4, <1>5, ClearSharedKeeps, RemoveVoteKeeps
    <2> QED
        BY <1>0, <1>1, <1>2, <1>3, <2>1, ClearedVote
<1>6. CASE ~Muted(r) /\ CastVote(r, glocal[g]) /\ UNCHANGED dirty
    <2>1. PICK l \in Levels : l = glocal[g]
        BY <1>1
    <2>2. CastVote(r, l)
        BY <1>6, <2>1
    <2>3. /\ \A q \in Replicas \ {r} : votes'[q] = votes[q] /\ voteLive'[q] = voteLive[q]
          /\ voteLive'[r]
        BY <1>1, <2>2, CastVoteKeeps
    <2>4. VoteOK(r)'
        BY <1>3, <1>6, <2>3 DEF VoteOK, Muted
    <2> QED
        BY <1>0, <1>1, <1>2, <1>3, <1>6, <2>3, <2>4, VoteStep
<1> QED
    BY <1>0, <1>5, <1>6 DEF TickShare

\* evaluate: Pin's vote is cleared next.
LEMMA EvaluateVote ==
    ASSUME TypeOK, PinInv, VoteInv, NEW g \in Goroutines, Evaluate(g) \/ EvaluateExpired(g)
    PROVE  VoteInv'
<1>0. PICK r \in Replicas : r = g[1]
    BY GoroutineIs
<1>1. ThreadTypes /\ PinTypes /\ pc[g] \in {"eval", "expire"}
    BY TypeParts DEF Evaluate, EvaluateExpired
<1>2. UNCHANGED <<votes, voteLive, dirty, up, cfg, goal>>
    BY DEF Evaluate, EvaluateExpired
<1>3. pinned' = pinned \/ pinned' = [pinned EXCEPT ![r] = FALSE]
    BY <1>0 DEF Evaluate, EvaluateExpired
<1>4. (pinned'[r] => pinned[r]) /\ \A q \in Replicas \ {r} : pinned'[q] = pinned[q]
    BY <1>1, <1>3 DEF PinTypes
<1>5. Muted(r)' => Muted(r)
    BY <1>2, <1>4 DEF Muted
<1>6. PICK step \in {"expire", "clear", "idle"} :
         /\ Goto(g, step)
         /\ step = "idle" => ~(g[2] = "admin" /\ goal[r] # None)
    <2>1. Evaluated(g) => \E step \in {"clear", "idle"} :
                             /\ Goto(g, step)
                             /\ step = "clear" <=> g[2] = "admin" /\ goal[g[1]] # None
        BY EvaluatedMoves
    <2>2. Evaluated(g) \/ Goto(g, "expire")
        BY DEF Evaluate, EvaluateExpired
    <2> QED
        BY <1>0, <2>1, <2>2
<1>7. pc'[g] = step /\ \A h \in Goroutines \ {g} : pc'[h] = pc[h]
    BY <1>1, <1>6, Moved
<1>8. YetToClear(r) => YetToClear(r)'
    <2>1. CASE g = Admin(r)
        <3>1. g[2] = "admin"
            BY <2>1, TwoOf
        <3> QED
            BY <1>1, <1>2, <1>6, <1>7, <2>1, <3>1 DEF YetToClear
    <2>2. CASE g # Admin(r)
        <3>1. Admin(r) \in Goroutines
            BY TwoOf
        <3> QED
            BY <1>2, <1>7, <2>2, <3>1 DEF YetToClear
    <2> QED
        BY <2>1, <2>2
<1> QED
    BY <1>0, <1>1, <1>2, <1>4, <1>5, <1>6, <1>8, QuietVote

\* clearSharedVote.
LEMMA ClearVote ==
    ASSUME TypeOK, PinInv, VoteInv, NEW g \in Goroutines, ClearSharedVote(g)
    PROVE  VoteInv'
<1>0. PICK r \in Replicas : r = g[1]
    BY GoroutineIs
<1>1. ThreadTypes /\ VoteTypes /\ PinTypes
    BY TypeParts
<1>2. PICK step \in {"idle", "eval"} : Goto(g, step)
    BY DEF ClearSharedVote
<1>3. UNCHANGED <<up, pinned, cfg>> /\ (goal' = goal \/ goal' = [goal EXCEPT ![r] = None])
    BY <1>0 DEF ClearSharedVote
<1>4. votes[r].left > 0 => voteLive[r]
    BY DEF VoteInv, VoteOK
<1>5. ClearShared(r)
    BY <1>0 DEF ClearSharedVote
<1>6. /\ \A q \in Replicas \ {r} :
            votes'[q] = votes[q] /\ voteLive'[q] = voteLive[q] /\ dirty'[q] = dirty[q]
      /\ votes'[r].left > 0 => voteLive'[r]
      /\ dirty'[r] \/ votes'[r].left = 0
    BY <1>1, <1>4, <1>5, ClearSharedKeeps
<1>7. \A q \in Replicas \ {r} : goal'[q] = goal[q]
    BY <1>1, <1>3 DEF PinTypes
<1> QED
    BY <1>0, <1>1, <1>2, <1>3, <1>6, <1>7, ClearedVote

\* The steps of Pin up to evaluate: the call has yet to clear the vote.
LEMMA PinVote ==
    ASSUME TypeOK, PinInv, VoteInv, NEW g \in Goroutines, PinSet(g) \/ Recompute(g)
    PROVE  VoteInv'
<1>0. PICK r \in Replicas : r = g[1]
    BY GoroutineIs
<1>1. ThreadTypes /\ PinTypes /\ g = Admin(r)
    BY <1>0, WhoIsWhere, TypeParts DEF PinSet, Recompute
<1>2. UNCHANGED <<votes, voteLive, dirty, up, cfg, goal>>
    BY DEF PinSet, Recompute
<1>3. AdminShape(r) /\ VoteOK(r)
    BY DEF PinInv, VoteInv
<1>4. CASE PinSet(g)
    <2>1. Goto(g, "recompute") /\ pinned' = [pinned EXCEPT ![r] = TRUE] /\ goal[r] # None
        BY <1>0, <1>1, <1>3, <1>4 DEF PinSet, AdminShape
    <2>2. pc'[g] = "recompute"
        BY <1>1, <2>1, Moved
    <2>3. VoteOK(r)'
        BY <1>1, <1>2, <1>3, <2>1, <2>2 DEF VoteOK, YetToClear
    <2>4. \A q \in Replicas \ {r} : pinned'[q] = pinned[q]
        BY <1>1, <2>1 DEF PinTypes
    <2> QED
        BY <1>0, <1>1, <1>2, <2>1, <2>3, <2>4, VoteStep
<1>5. CASE Recompute(g)
    <2>1. Goto(g, "eval") /\ pinned' = pinned /\ pc[g] = "recompute"
        BY <1>5 DEF Recompute
    <2>2. pc'[g] = "eval"
        BY <1>1, <2>1, Moved
    <2>3. (Muted(r)' => Muted(r)) /\ (YetToClear(r) => YetToClear(r)')
        BY <1>1, <1>2, <2>1, <2>2 DEF YetToClear, Muted
    <2> QED
        BY <1>0, <1>1, <1>2, <2>1, <2>3, QuietVote
<1> QED
    BY <1>4, <1>5

\* An admin call begins: nobody had a vote to clear, and whoever mutes clears.
LEMMA AdminVote ==
    ASSUME TypeOK, PinInv, VoteInv, NEW r \in Replicas,
           PinStart(r) \/ Unpin(r) \/ SetConfig(r)
    PROVE  VoteInv'
<1>0. PICK g \in Goroutines : g = Admin(r)
    BY TwoOf
<1>1. ThreadTypes /\ PinTypes /\ DetectorTypes /\ g[1] = r
    BY <1>0, TwoOf, TypeParts
<1>2. UNCHANGED <<votes, voteLive, dirty, up>> /\ pc[g] = "idle"
    BY <1>0 DEF PinStart, Unpin, SetConfig, Serves, Idle, Admin
<1>3. ~YetToClear(r)
    BY <1>0, <1>2 DEF PinInv, AdminShape, YetToClear
<1>4. CASE PinStart(r)
    <2>1. Goto(g, "set") /\ UNCHANGED <<pinned, cfg>>
        BY <1>0, <1>4 DEF PinStart, Admin
    <2>2. \A q \in Replicas \ {r} : goal'[q] = goal[q]
        BY <1>1, <1>4 DEF PinStart, PinTypes
    <2>3. Muted(r)' => Muted(r)
        BY <2>1 DEF Muted
    <2> QED
        BY <1>1, <1>2, <1>3, <2>1, <2>2, <2>3, QuietVote
<1>5. CASE Unpin(r)
    <2>1. Goto(g, "recompute") /\ UNCHANGED <<cfg, goal>> /\ pinned' = [pinned EXCEPT ![r] = FALSE]
        BY <1>0, <1>5 DEF Unpin, Admin
    <2>2. ~pinned'[r] /\ \A q \in Replicas \ {r} : pinned'[q] = pinned[q]
        BY <1>1, <2>1 DEF PinTypes
    <2>3. Muted(r)' => Muted(r)
        BY <2>1, <2>2 DEF Muted
    <2> QED
        BY <1>1, <1>2, <1>3, <2>1, <2>2, <2>3, QuietVote
<1>6. CASE SetConfig(r)
    <2>1. PICK c \in Configs : /\ cfg' = [cfg EXCEPT ![r] = c]
                               /\ Goto(g, IF c.enabled /\ c.share THEN "idle" ELSE "clear")
        BY <1>0, <1>6 DEF SetConfig, Admin
    <2>2. UNCHANGED <<pinned, goal>>
        BY <1>6 DEF SetConfig
    <2>3. cfg'[r] = c /\ \A q \in Replicas \ {r} : cfg'[q] = cfg[q]
        BY <1>1, <2>1 DEF DetectorTypes
    <2>4. CASE c.enabled /\ c.share
        <3>1. Muted(r)' => Muted(r)
            BY <2>2, <2>3, <2>4 DEF Muted
        <3>2. Goto(g, "idle")
            BY <2>1, <2>4
        <3> QED
            BY <1>1, <1>2, <1>3, <2>2, <2>3, <3>1, <3>2, QuietVote
    <2>5. CASE ~(c.enabled /\ c.share)
        <3>1. Goto(g, "clear")
            BY <2>1, <2>5
        <3>2. pc'[g] = "clear"
            BY <1>1, <3>1, Moved
        <3>3. VoteOK(r)'
            BY <1>0, <1>2, <3>2 DEF VoteInv, VoteOK, YetToClear
        <3> QED
            BY <1>1, <1>2, <2>2, <2>3, <3>1, <3>3, VoteStep
    <2> QED
        BY <2>4, <2>5
<1> QED
    BY <1>4, <1>5, <1>6

\* Close takes the vote back, a crash leaves it.
LEMMA DownVote ==
    ASSUME TypeOK, PinInv, VoteInv, NEW r \in Replicas, Close(r) \/ Crash(r)
    PROVE  VoteInv'
<1>0. ThreadTypes /\ VoteTypes /\ PinTypes
    BY TypeParts
<1>1. UNCHANGED <<pinned, cfg>> /\ up' = [up EXCEPT ![r] = FALSE]
    BY DEF Close, Crash
<1>2. ~up'[r] /\ \A q \in Replicas \ {r} : up'[q] = up[q]
    BY <1>0, <1>1 DEF VoteTypes
<1>3. votes[r].left > 0 => voteLive[r]
    BY DEF VoteInv, VoteOK
<1>4. /\ \A q \in Replicas \ {r} :
            votes'[q] = votes[q] /\ voteLive'[q] = voteLive[q] /\ dirty'[q] = dirty[q]
      /\ votes'[r].left > 0 => voteLive'[r]
    BY <1>0, <1>3, ClearSharedKeeps DEF Close, Crash
<1>5. VoteOK(r)'
    BY <1>2, <1>4 DEF VoteOK
<1>6. ASSUME NEW q \in Replicas, q # r
      PROVE  VoteOK(q)'
    <2>1. pc'[Admin(q)] = pc[Admin(q)] /\ goal'[q] = goal[q]
        <3>1. Admin(q) \in Goroutines /\ Admin(q)[1] = q
            BY TwoOf
        <3> QED
            BY <3>1, <1>0, <1>6 DEF Close, Crash, PinTypes
    <2> QED
        BY <1>1, <1>2, <1>4, <1>6, <2>1 DEF VoteInv, VoteOK, Muted, YetToClear
<1> QED
    BY <1>5, <1>6 DEF VoteInv

\* Time only lets votes lapse.
LEMMA ClockVote ==
    ASSUME TypeOK, PinInv, VoteInv, Clock
    PROVE  VoteInv'
<1>0. VoteTypes /\ PinTypes
    BY TypeParts
<1>1. /\ votes' = [r \in Replicas |-> IF votes[r].left > 1 THEN Shorter(votes[r]) ELSE NoVote]
      /\ goal' = [r \in Replicas |-> Shorter(goal[r])]
      /\ UNCHANGED <<voteLive, dirty, up, pinned, cfg, pc>>
    BY DEF Clock
<1>2. ASSUME NEW r \in Replicas
      PROVE  VoteOK(r)'
    <2>1. votes[r].left \in Nat
        BY <1>0 DEF VoteTypes
    <2>2. votes'[r] = IF votes[r].left > 1 THEN Shorter(votes[r]) ELSE NoVote
        BY <1>1
    <2>3. votes[r].left = 0 => votes'[r].left = 0
        BY <2>2 DEF NoVote
    <2>4. votes'[r].left > 0 => votes[r].left > 0
        BY <2>1, <2>2 DEF NoVote
    <2>5. goal'[r] = None <=> goal[r] = None
        <3>1. \A p \in Pin \cup {None} : Shorter(p) = None <=> p = None
            BY ShorterTypes, NoneIsNothing DEF Shorter
        <3>2. goal[r] \in Pin \cup {None} /\ goal'[r] = Shorter(goal[r])
            BY <1>0, <1>1 DEF PinTypes
        <3> QED
            BY <3>1, <3>2
    <2>6. VoteOK(r)
        BY DEF VoteInv
    <2> QED
        BY <1>1, <2>3, <2>4, <2>5, <2>6 DEF VoteOK, Muted, YetToClear
<1> QED
    BY <1>2 DEF VoteInv

-----------------------------------------------------------------------------
(* The posture                                                             *)

\* A step that does not evaluate leaves the posture and what it was decided from.
LEMMA StillDetector ==
    ASSUME TypeOK, CalmInv, UNCHANGED <<state, lastAbove, calm>>
    PROVE  CalmInv' /\ \A r \in Replicas : SlowFall(r)
<1>1. DetectorTypes
    BY TypeParts
<1>2. CalmInv'
    BY DEF CalmInv
<1>3. \A r \in Replicas : SlowFall(r)
    BY <1>1, StaysSlow
<1> QED
    BY <1>2, <1>3

\* Time ages both clocks of a level alike.
LEMMA ClockDetector ==
    ASSUME TypeOK, CalmInv, Clock
    PROVE  CalmInv' /\ \A r \in Replicas : SlowFall(r)
<1>1. DetectorTypes
    BY TypeParts
<1>2. \A r \in Replicas : SlowFall(r)
    BY <1>1, StaysSlow DEF Clock
<1>3. ASSUME NEW r \in Replicas, NEW l \in Levels
      PROVE  lastAbove'[r][l] <= calm'[r][l]
    <2>1. /\ lastAbove'[r][l] =
                IF lastAbove[r][l] < MinDwell THEN lastAbove[r][l] + 1 ELSE lastAbove[r][l]
          /\ calm'[r][l] = IF calm[r][l] < MinDwell THEN calm[r][l] + 1 ELSE calm[r][l]
        BY DEF Clock, Older
    <2>2. lastAbove[r][l] \in 0..MinDwell /\ calm[r][l] \in 0..MinDwell
        BY <1>1 DEF DetectorTypes, Ages
    <2>3. lastAbove[r][l] <= calm[r][l]
        BY DEF CalmInv
    <2> QED
        BY <2>1, <2>2, <2>3, AttackModeAssumption
<1> QED
    BY <1>2, <1>3 DEF CalmInv

\* evaluate, every way through it.
LEMMA EvaluatesDetector ==
    ASSUME TypeOK, CalmInv, NEW g \in Goroutines, Evaluate(g) \/ EvaluateExpired(g)
    PROVE  CalmInv' /\ \A r \in Replicas : SlowFall(r)
<1>1. CASE UNCHANGED <<state, lastAbove, calm>>
    BY <1>1, StillDetector
<1>2. CASE Decide(g[1], gcfg[g], gsig[g], gpeer[g]) \/ Forced(g[1], gcfg[g])
    <2>1. pc[g] \in {"eval", "expire"} /\ UNCHANGED <<cfg, sig>>
        BY DEF Evaluate, EvaluateExpired
    <2> QED
        BY <1>2, <2>1, EvaluateDetector
<1> QED
    BY <1>1, <1>2 DEF Evaluate, EvaluateExpired

-----------------------------------------------------------------------------
(* The theorems                                                            *)

Inv == TypeOK /\ CalmInv /\ PinInv /\ VoteInv

\* New establishes the invariant.
LEMMA InitInv ==
    ASSUME Init
    PROVE  Inv
<1>1. 0 \in Levels /\ Quiet \in Signals /\ NoPin \in Pin
    BY DEF Levels, Quiet, Signals, NoPin, Pin
<1>2. DetectorTypes
    <2>1. [level |-> 0, raise |-> 0, reason |-> ""] \in State
        BY <1>1 DEF State
    <2>2. MinDwell \in Ages
        BY AttackModeAssumption DEF Ages
    <2> QED
        BY <1>1, <2>1, <2>2 DEF Init, DetectorTypes
<1>3. PinTypes
    BY <1>1 DEF Init, PinTypes
<1>4. VoteTypes
    <2>1. NoVote \in [level : Levels, left : 0..Window]
        BY <1>1, AttackModeAssumption DEF NoVote
    <2> QED
        BY <2>1 DEF Init, VoteTypes
<1>5. LockTypes
    BY DEF Init, LockTypes
<1>6. ThreadTypes
    BY <1>1 DEF Init, ThreadTypes, Steps
<1>7. TypeOK
    BY <1>2, <1>3, <1>4, <1>5, <1>6, TypeParts
<1>8. CalmInv
    <2>1. MinDwell \in Nat
        BY AttackModeAssumption
    <2>2. /\ lastAbove = [r \in Replicas |-> [l \in Levels |-> MinDwell]]
          /\ calm = [r \in Replicas |-> [l \in Levels |-> MinDwell]]
        BY DEF Init
    <2> QED
        BY <2>1, <2>2 DEF CalmInv
<1>9. PinInv
    <2>1. EvalLock
        BY GoroutineIs, NoneIsNothing DEF Init, EvalLock
    <2>2. ASSUME NEW r \in Replicas
          PROVE  AdminShape(r) /\ TickShape(r) /\ ExpireInv(r) /\ StickInv(r)
        <3>1. /\ pc[Admin(r)] = "idle" /\ pc[<<r, "tick">>] = "idle" /\ goal[r] = None
              /\ want[r] = None /\ evalBy[r] = None
            BY TwoOf DEF Init
        <3> QED
            BY <3>1 DEF AdminShape, TickShape, ExpireInv, StickInv
    <2> QED
        BY <2>1, <2>2 DEF PinInv
<1>10. VoteInv
    <2>1. \A r \in Replicas : votes[r].left = 0
        BY DEF Init, NoVote
    <2> QED
        BY <2>1 DEF VoteInv, VoteOK
<1> QED
    BY <1>7, <1>8, <1>9, <1>10 DEF Inv

\* Every step keeps it, and no posture falls faster than it may.
LEMMA NextInv ==
    ASSUME Inv, Next
    PROVE  Inv' /\ \A r \in Replicas : SlowFall(r)
<1> USE DEF Inv
<1>1. ASSUME NEW g \in Goroutines, TickLocal(g)
      PROVE  Inv' /\ \A r \in Replicas : SlowFall(r)
    <2>1. UNCHANGED <<state, lastAbove, calm>>
        BY <1>1 DEF TickLocal
    <2> QED
        BY <1>1, <2>1, TickLocalTypes, TickerPin, TickerVote, StillDetector
<1>2. ASSUME NEW g \in Goroutines, TickShare(g)
      PROVE  Inv' /\ \A r \in Replicas : SlowFall(r)
    <2>1. UNCHANGED <<state, lastAbove, calm>>
        BY <1>2 DEF TickShare
    <2> QED
        BY <1>2, <2>1, TickShareTypes, TickerPin, TickShareVote, StillDetector
<1>3. ASSUME NEW g \in Goroutines, TickMax(g)
      PROVE  Inv' /\ \A r \in Replicas : SlowFall(r)
    <2>1. UNCHANGED <<state, lastAbove, calm>>
        BY <1>3 DEF TickMax
    <2> QED
        BY <1>3, <2>1, TickMaxTypes, TickerPin, TickerVote, StillDetector
<1>4. ASSUME NEW g \in Goroutines, Evaluate(g)
      PROVE  Inv' /\ \A r \in Replicas : SlowFall(r)
    BY <1>4, EvaluateTypes, EvaluatesPin, EvaluateVote, EvaluatesDetector
<1>5. ASSUME NEW g \in Goroutines, EvaluateExpired(g)
      PROVE  Inv' /\ \A r \in Replicas : SlowFall(r)
    BY <1>5, EvaluateExpiredTypes, EvaluatesPin, EvaluateVote, EvaluatesDetector
<1>6. ASSUME NEW g \in Goroutines, ClearSharedVote(g)
      PROVE  Inv' /\ \A r \in Replicas : SlowFall(r)
    <2>1. UNCHANGED <<state, lastAbove, calm>> /\ (g[2] = "tick" \/ g[2] = "admin")
        BY <1>6 DEF ClearSharedVote
    <2> QED
        BY <1>6, <2>1, ClearSharedVoteTypes, TickerPin, ClearPin, ClearVote, StillDetector
<1>7. ASSUME NEW g \in Goroutines, PinSet(g)
      PROVE  Inv' /\ \A r \in Replicas : SlowFall(r)
    <2>1. UNCHANGED <<state, lastAbove, calm>>
        BY <1>7 DEF PinSet
    <2> QED
        BY <1>7, <2>1, PinSetTypes, PinSetPin, PinVote, StillDetector
<1>8. ASSUME NEW g \in Goroutines, Recompute(g)
      PROVE  Inv' /\ \A r \in Replicas : SlowFall(r)
    <2>1. UNCHANGED <<state, lastAbove, calm>>
        BY <1>8 DEF Recompute
    <2> QED
        BY <1>8, <2>1, RecomputeTypes, RecomputePin, PinVote, StillDetector
<1>9. ASSUME NEW r \in Replicas, Tick(r)
      PROVE  Inv' /\ \A q \in Replicas : SlowFall(q)
    <2>1. UNCHANGED <<state, lastAbove, calm>>
        BY <1>9 DEF Tick
    <2> QED
        BY <1>9, <2>1, TickTypes, TickPin, TickVote, StillDetector
<1>10. ASSUME NEW r \in Replicas, PinStart(r)
       PROVE  Inv' /\ \A q \in Replicas : SlowFall(q)
    <2>1. UNCHANGED <<state, lastAbove, calm>>
        BY <1>10 DEF PinStart
    <2> QED
        BY <1>10, <2>1, PinStartTypes, PinStartPin, AdminVote, StillDetector
<1>11. ASSUME NEW r \in Replicas, Unpin(r)
       PROVE  Inv' /\ \A q \in Replicas : SlowFall(q)
    <2>1. UNCHANGED <<state, lastAbove, calm>>
        BY <1>11 DEF Unpin
    <2> QED
        BY <1>11, <2>1, UnpinTypes, UnpinPin, AdminVote, StillDetector
<1>12. ASSUME NEW r \in Replicas, SetConfig(r)
       PROVE  Inv' /\ \A q \in Replicas : SlowFall(q)
    <2>1. UNCHANGED <<state, lastAbove, calm>>
        BY <1>12 DEF SetConfig
    <2> QED
        BY <1>12, <2>1, SetConfigTypes, SetConfigPin, AdminVote, StillDetector
<1>13. ASSUME NEW r \in Replicas, Close(r)
       PROVE  Inv' /\ \A q \in Replicas : SlowFall(q)
    <2>1. UNCHANGED <<state, lastAbove, calm>>
        BY <1>13 DEF Close
    <2> QED
        BY <1>13, <2>1, CloseTypes, DownPin, DownVote, StillDetector
<1>14. ASSUME NEW r \in Replicas, Crash(r)
       PROVE  Inv' /\ \A q \in Replicas : SlowFall(q)
    <2>1. UNCHANGED <<state, lastAbove, calm>>
        BY <1>14 DEF Crash
    <2> QED
        BY <1>14, <2>1, CrashTypes, DownPin, DownVote, StillDetector
<1>15. CASE Clock
    BY <1>15, ClockTypes, ClockPin, ClockVote, ClockDetector
<1> HIDE DEF Inv
<1> QED
    BY <1>1, <1>2, <1>3, <1>4, <1>5, <1>6, <1>7, <1>8, <1>9, <1>10, <1>11, <1>12, <1>13, <1>14,
       <1>15 DEF Next, Run

\* A stutter keeps the invariant.
LEMMA StutterInv ==
    ASSUME Inv, UNCHANGED vars
    PROVE  Inv'
<1>1. TypeOK'
    BY DEF Inv, TypeOK, vars
<1>2. CalmInv'
    BY DEF Inv, CalmInv, vars
<1>3. PinInv'
    BY DEF Inv, PinInv, EvalLock, AdminShape, TickShape, ExpireInv, StickInv, Unexpired, vars
<1>4. VoteInv'
    BY DEF Inv, VoteInv, VoteOK, Muted, YetToClear, vars
<1> QED
    BY <1>1, <1>2, <1>3, <1>4 DEF Inv

\* The invariant holds throughout.
LEMMA Invariance == Spec => []Inv
<1>1. Init => Inv
    BY InitInv
<1>2. Inv /\ [Next]_vars => Inv'
    BY NextInv, StutterInv
<1> QED
    BY <1>1, <1>2, PTL DEF Spec

(* Every variable keeps its type.                                          *)
THEOREM TypeCorrect == Spec => []TypeOK
<1>1. Inv => TypeOK
    BY DEF Inv
<1> QED
    BY <1>1, Invariance, PTL

(* Pin's promise, against every interleaving of the ticker, resolvePin's   *)
(* drop of an expired pin and the admin calls: the level the operator was  *)
(* told is in force is the one published, until the pin ends.              *)
THEOREM PinsStick == Spec => []PinSticks
<1>1. Inv => PinSticks
    <2> SUFFICES ASSUME Inv, NEW r \in Replicas, want[r] # None, ~replaces[r], up[r],
                        want[r].timed => want[r].left > 0
                 PROVE  pinned[r] /\ state[r].level = want[r].level
        BY DEF PinSticks
    <2>1. want[r] = pin[r] /\ StickInv(r)
        BY DEF Inv, PinInv, AdminShape
    <2> QED
        BY <2>1 DEF StickInv, Unexpired
<1> QED
    BY <1>1, Invariance, PTL

(* A replica at rest that is pinned, disabled or told not to share has no  *)
(* live vote, unless the store refused to remove it; a live vote is always *)
(* known to voteLive, so that the next call tries again.                   *)
THEOREM MutedReplicasAreSilent == Spec => []MutedIsSilent
<1>1. Inv => MutedIsSilent
    <2> SUFFICES ASSUME Inv, NEW r \in Replicas
                 PROVE  /\ up[r] /\ votes[r].left > 0 => voteLive[r]
                        /\ up[r] /\ Muted(r) /\ ~dirty[r] /\ (\A t \in Threads : Idle(<<r, t>>)) =>
                              votes[r].left = 0
        BY DEF MutedIsSilent
    <2>1. VoteOK(r) /\ AdminShape(r)
        BY DEF Inv, VoteInv, PinInv
    <2>2. (\A t \in Threads : Idle(<<r, t>>)) => pc[Admin(r)] = "idle"
        BY DEF Threads, Idle, Admin
    <2>3. pc[Admin(r)] = "idle" => ~YetToClear(r)
        BY <2>1 DEF AdminShape, YetToClear
    <2> QED
        BY <2>1, <2>2, <2>3 DEF VoteOK
<1> QED
    BY <1>1, Invariance, PTL

(* Down is one level at a time and only after MinDwell without a signal or *)
(* a peer's vote for the level: evaluate's own dwell clock never runs      *)
(* ahead of the observer's.                                                *)
THEOREM PostureFallsSlowly == Spec => FallsSlowly
<1>1. Inv /\ [Next]_vars => [\A r \in Replicas : SlowFall(r)]_vars
    BY NextInv
<1> QED
    BY <1>1, Invariance, PTL DEF Spec, FallsSlowly, SlowFall
=============================================================================

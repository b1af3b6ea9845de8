----------------------------- MODULE AttackMode -----------------------------
(***************************************************************************)
(* core/attackmode/attackmode.go: the attack posture of a fleet of         *)
(* replicas.  Every replica runs one ticker goroutine and serves one admin *)
(* call at a time; a critical section, a store call or an atomic store is  *)
(* one action, and what a goroutine read earlier is in its registers.      *)
(*                                                                         *)
(* Time moves in units of bucketWidth.  A time stamp is kept as its age or *)
(* as the time it has left, so that behaviours may be infinite.  What the  *)
(* sliding window measures is an input: the entry signals above threshold. *)
(***************************************************************************)
EXTENDS Integers, FiniteSets

CONSTANTS
    Replicas,
    Hot,            \* the replicas whose window may measure load
    Configs,        \* what SetConfig may install: [enabled, share, raise]
    AdminOps,       \* a subset of {"pin", "unpin", "config"}
    PinTTLs,        \* the lifetimes an operator gives a pin, 0 for none
    StoreErrors,    \* how a store call may fail, a subset of {"lost", "applied"}
    MinDwell, Window,       \* in units of bucketWidth
    MaxLoad, MaxAdmin, MaxCrashes,  \* bounds of the model
    None

ASSUME AttackModeAssumption ==
    /\ Hot \subseteq Replicas
    /\ Configs \subseteq [enabled : BOOLEAN, share : BOOLEAN, raise : Nat]
    /\ PinTTLs \subseteq Nat
    /\ Window \in Nat \ {0} /\ MinDwell \in Nat /\ MinDwell >= Window

Levels == 0..2      \* Normal, Elevated, Attack

\* The window's measurement: the highest level with a signal above its threshold
\* and the levels with one above half of it.
Signals == {s \in [entered : Levels, half : SUBSET {1, 2}] : s.entered \in s.half \cup {0}}
Quiet   == [entered |-> 0, half |-> {}]

Threads == {"tick", "admin"}
Goroutines == Replicas \X Threads
NoVote == [level |-> 0, left |-> 0]
NoPin  == [level |-> 0, timed |-> FALSE, left |-> 0]

VARIABLES
    cfg,        \* Detector.cfg
    sig,        \* Detector.sig
    state,      \* Detector.state
    localLvl,   \* Detector.localLvl
    lastAbove,  \* Detector.lastAbove, as ages; MinDwell and more is "long ago"
    pinned,     \* Detector.pinned
    pin,        \* Detector.pinLevel and pinUntil
    voteLive,   \* Detector.voteLive
    evalBy,     \* the goroutine inside evalMu between two actions
    shareBy,    \* the goroutine inside shareMu between two actions
    votes,      \* the store's posture votes
    up,         \* the process runs
    due,        \* the ticker has yet to run in this bucket
    pc, gcfg, gsig, glocal, gpeer,  \* a goroutine's place and what it read
    goal,       \* the pin an admin call is setting
    load, admin, crashes,   \* what has happened so far, bounds the model
    calm,       \* ghost: age of the last half-threshold signal or peer vote of a level
    want,       \* ghost: the pin the operator was last told is in force
    dirty,      \* ghost: a store call that removes the vote has failed
    replaces    \* ghost: the operator's last pin was set over one with an end

detectorVars == <<cfg, sig, state, localLvl, lastAbove, pinned, pin, voteLive>>
lockVars  == <<evalBy, shareBy>>
threadVars == <<pc, gcfg, gsig, glocal, gpeer, goal>>
boundVars == <<load, admin, crashes>>
ghostVars == <<calm, want, dirty, replaces>>
vars == <<detectorVars, lockVars, votes, up, due, threadVars, boundVars, ghostVars>>

Ages == 0..MinDwell
State == [level : Levels, raise : Nat, reason : {"", "signal", "peer", "forced"}]
Pin   == [level : Levels, timed : BOOLEAN, left : Nat]

ASSUME NoneIsNothing == None \notin Goroutines /\ None \notin Pin

(* Types of the variables.                                                 *)
TypeOK ==
    /\ cfg \in [Replicas -> Configs]
    /\ sig \in [Replicas -> Signals]
    /\ state \in [Replicas -> State]
    /\ localLvl \in [Replicas -> Levels]
    /\ lastAbove \in [Replicas -> [Levels -> Ages]]
    /\ pinned \in [Replicas -> BOOLEAN]
    /\ pin \in [Replicas -> Pin]
    /\ voteLive \in [Replicas -> BOOLEAN]
    /\ evalBy \in [Replicas -> Goroutines \cup {None}]
    /\ shareBy \in [Replicas -> Goroutines \cup {None}]
    /\ votes \in [Replicas -> [level : Levels, left : 0..Window]]
    /\ up \in [Replicas -> BOOLEAN] /\ due \in [Replicas -> BOOLEAN]
    /\ pc \in [Goroutines -> {"idle", "local", "share", "max", "clear", "eval", "expire",
                              "set", "recompute"}]
    /\ gcfg \in [Goroutines -> Configs]
    /\ gsig \in [Goroutines -> Signals]
    /\ glocal \in [Goroutines -> Levels]
    /\ gpeer \in [Goroutines -> Levels]
    /\ goal \in [Replicas -> Pin \cup {None}]
    /\ calm \in [Replicas -> [Levels -> Ages]]
    /\ want \in [Replicas -> Pin \cup {None}]
    /\ dirty \in [Replicas -> BOOLEAN] /\ replaces \in [Replicas -> BOOLEAN]

\* New: every replica at Normal, nothing shared, the same configuration.
Init ==
    /\ \E c \in Configs : /\ c.enabled /\ c.share
                          /\ cfg = [r \in Replicas |-> c]
                          /\ gcfg = [g \in Goroutines |-> c]
    /\ sig = [r \in Replicas |-> Quiet]
    /\ state = [r \in Replicas |-> [level |-> 0, raise |-> 0, reason |-> ""]]
    /\ localLvl = [r \in Replicas |-> 0]
    /\ lastAbove = [r \in Replicas |-> [l \in Levels |-> MinDwell]]
    /\ pinned = [r \in Replicas |-> FALSE]
    /\ pin = [r \in Replicas |-> NoPin]
    /\ voteLive = [r \in Replicas |-> FALSE]
    /\ evalBy = [r \in Replicas |-> None] /\ shareBy = [r \in Replicas |-> None]
    /\ votes = [r \in Replicas |-> NoVote]
    /\ up = [r \in Replicas |-> TRUE] /\ due = [r \in Replicas |-> TRUE]
    /\ pc = [g \in Goroutines |-> "idle"]
    /\ gsig = [g \in Goroutines |-> Quiet]
    /\ glocal = [g \in Goroutines |-> 0] /\ gpeer = [g \in Goroutines |-> 0]
    /\ goal = [r \in Replicas |-> None]
    /\ load = 0 /\ admin = 0 /\ crashes = 0
    /\ calm = [r \in Replicas |-> [l \in Levels |-> MinDwell]]
    /\ want = [r \in Replicas |-> None]
    /\ dirty = [r \in Replicas |-> FALSE] /\ replaces = [r \in Replicas |-> FALSE]

-----------------------------------------------------------------------------
(* The state machine                                                       *)

Larger(a, b) == IF a > b THEN a ELSE b

\* Faulty variant: only the entry threshold itself refreshes the dwell.
StampedOnEntry(s) == {s.entered} \ {0}

\* The levels whose dwell a measurement refreshes.
Stamped(s) == s.half

Stamp(ages, levels) == [l \in Levels |-> IF l \in levels THEN 0 ELSE ages[l]]

DecayFrom(ages, cur) == IF cur = 0 \/ ages[cur] < MinDwell THEN cur ELSE cur - 1

\* publish; reason "" at an unchanged level keeps the reason.
Publish(r, c, level, reason) ==
    state' = [state EXCEPT ![r] =
        [level |-> level, raise |-> level * c.raise,
         reason |-> IF reason = "" /\ level = @.level THEN @.reason ELSE reason]]

\* evaluate of a replica that is not pinned.
Decide(r, c, s, peer) ==
    LET ages   == Stamp(lastAbove[r], Stamped(s))
        cur    == localLvl[r]
        local  == IF s.entered = 2 THEN 2
                  ELSE IF s.entered = 1 /\ cur < 2 THEN 1
                  ELSE DecayFrom(ages, cur)
        reason == IF s.entered = 2 \/ (s.entered = 1 /\ cur < 2) THEN "signal" ELSE ""
        desired == Larger(local, peer)
        ages2  == Stamp(ages, {peer} \ {0})
        published == state[r].level
        falls  == desired < published /\ state[r].reason # "forced"
        target == IF falls THEN Larger(DecayFrom(ages2, published), desired) ELSE desired
        treason == IF falls /\ target = published THEN "" ELSE IF peer > local THEN "peer" ELSE reason
    IN  IF ~c.enabled
        THEN /\ localLvl' = [localLvl EXCEPT ![r] = 0]
             /\ Publish(r, c, 0, "")
             /\ UNCHANGED <<lastAbove, calm>>
        ELSE /\ localLvl' = [localLvl EXCEPT ![r] = local]
             /\ lastAbove' = [lastAbove EXCEPT ![r] =
                   IF falls /\ target < published /\ target > 0 THEN Stamp(ages2, {target})
                   ELSE ages2]
             /\ Publish(r, c, target, treason)
             /\ calm' = [calm EXCEPT ![r] = Stamp(@, s.half \cup ({peer} \ {0}))]

\* evaluate of a pinned replica.
Forced(r, c) ==
    /\ localLvl' = [localLvl EXCEPT ![r] = pin[r].level]
    /\ Publish(r, c, pin[r].level, "forced")
    /\ UNCHANGED <<lastAbove, calm>>

\* Faulty variant: a pin without an end reads as one that ended.
PinExpiredUntimed(r) == pin[r].left = 0

PinExpired(r) == pin[r].timed /\ pin[r].left = 0

-----------------------------------------------------------------------------
(* Goroutines: evaluate, clearSharedVote                                   *)

Goto(g, step) == pc' = [pc EXCEPT ![g] = step]
Idle(g) == pc[g] = "idle"

\* Where a goroutine goes after evaluate: Pin still has to clear the vote.
Evaluated(g) ==
    LET r == g[1] IN
    IF g[2] = "admin" /\ goal[r] # None
    THEN Goto(g, "clear") /\ UNCHANGED due
    ELSE /\ Goto(g, "idle")
         /\ due' = IF g[2] = "tick" THEN [due EXCEPT ![r] = FALSE] ELSE due

\* The goroutine has returned or will not look at its registers again.
Forget(g) ==
    /\ gsig' = [gsig EXCEPT ![g] = Quiet]
    /\ glocal' = [glocal EXCEPT ![g] = 0]
    /\ gpeer' = [gpeer EXCEPT ![g] = 0]

\* evaluate, up to resolvePin's reading of the pin.
Evaluate(g) ==
    LET r == g[1] IN
    /\ pc[g] = "eval" /\ evalBy[r] = None
    /\ \/ /\ pinned[r] /\ PinExpired(r)
          /\ evalBy' = [evalBy EXCEPT ![r] = g]
          /\ Goto(g, "expire")
          /\ UNCHANGED <<localLvl, lastAbove, state, calm, due, gsig, glocal, gpeer>>
       \/ /\ pinned[r] /\ ~PinExpired(r)
          /\ Forced(r, gcfg[g])
          /\ Evaluated(g) /\ Forget(g)
          /\ UNCHANGED evalBy
       \/ /\ ~pinned[r]
          /\ Decide(r, gcfg[g], gsig[g], gpeer[g])
          /\ Evaluated(g) /\ Forget(g)
          /\ UNCHANGED evalBy
    /\ UNCHANGED <<cfg, sig, pinned, pin, voteLive, shareBy, votes, up, gcfg, goal, boundVars,
                   want, dirty, replaces>>

\* resolvePin drops the expired pin, and evaluate goes on.
EvaluateExpired(g) ==
    LET r == g[1] IN
    /\ pc[g] = "expire"
    /\ pinned' = [pinned EXCEPT ![r] = FALSE]
    /\ evalBy' = [evalBy EXCEPT ![r] = None]
    /\ Decide(r, gcfg[g], gsig[g], gpeer[g])
    /\ Evaluated(g) /\ Forget(g)
    /\ UNCHANGED <<cfg, sig, pin, voteLive, shareBy, votes, up, gcfg, goal, boundVars,
                   want, dirty, replaces>>

\* A store call that removes the vote: done, or failed with or without effect.
RemoveVote(r) ==
    \/ /\ votes' = [votes EXCEPT ![r] = NoVote]
       /\ voteLive' = [voteLive EXCEPT ![r] = FALSE]
       /\ dirty' = [dirty EXCEPT ![r] = FALSE]
    \/ /\ StoreErrors # {}
       /\ votes' = votes
       /\ dirty' = [dirty EXCEPT ![r] = TRUE]
       /\ UNCHANGED voteLive
    \/ /\ "applied" \in StoreErrors
       /\ votes' = [votes EXCEPT ![r] = NoVote]
       /\ UNCHANGED <<voteLive, dirty>>

\* clearSharedVoteLocked.
ClearShared(r) ==
    \/ voteLive[r] /\ RemoveVote(r)
    \/ ~voteLive[r] /\ UNCHANGED <<votes, voteLive, dirty>>

\* clearSharedVote: of a tick that may not share, and the last step of Pin and SetConfig.
ClearSharedVote(g) ==
    LET r == g[1] IN
    /\ pc[g] = "clear" /\ shareBy[r] = None
    /\ ClearShared(r)
    /\ \/ g[2] = "tick" /\ Goto(g, "eval") /\ UNCHANGED <<want, goal>>
       \/ /\ g[2] = "admin"
          /\ Goto(g, "idle")
          /\ want' = IF goal[r] = None THEN want ELSE [want EXCEPT ![r] = goal[r]]
          /\ goal' = [goal EXCEPT ![r] = None]
    /\ UNCHANGED <<cfg, sig, state, localLvl, lastAbove, pinned, pin, lockVars, up, due,
                   gcfg, gsig, glocal, gpeer, boundVars, calm, replaces>>

-----------------------------------------------------------------------------
(* The ticker                                                              *)

\* tick measures the window and decides whether to share.
Tick(r) ==
    LET g == <<r, "tick">> IN
    /\ up[r] /\ due[r] /\ Idle(g)
    /\ gcfg' = [gcfg EXCEPT ![g] = cfg[r]]
    /\ \E s \in Signals :
          /\ s # Quiet => r \in Hot /\ load < MaxLoad
          /\ load' = IF s = Quiet THEN load ELSE load + 1
          /\ sig' = [sig EXCEPT ![r] = s]
          /\ gsig' = [gsig EXCEPT ![g] = s]
    /\ gpeer' = [gpeer EXCEPT ![g] = 0]
    /\ Goto(g, IF cfg[r].enabled /\ cfg[r].share /\ ~pinned[r] THEN "local" ELSE "clear")
    /\ UNCHANGED <<cfg, state, localLvl, lastAbove, pinned, pin, voteLive, lockVars, votes, up, due,
                   glocal, goal, admin, crashes, ghostVars>>

\* localLevel, the level to vote for.
TickLocal(g) ==
    LET r == g[1] IN
    /\ pc[g] = "local" /\ evalBy[r] = None
    /\ glocal' = [glocal EXCEPT ![g] = localLvl[r]]
    /\ Goto(g, "share")
    /\ UNCHANGED <<detectorVars, lockVars, votes, up, due, gcfg, gsig, gpeer, goal, boundVars,
                   ghostVars>>

\* sharePosture's second look at the pin and the configuration.
Muted(r) == pinned[r] \/ ~cfg[r].enabled \/ ~cfg[r].share

\* Faulty variant: the flag follows the answer of the store.
CastVoteOnSuccess(r, level) ==
    \/ /\ votes' = [votes EXCEPT ![r] = [level |-> level, left |-> Window]]
       /\ voteLive' = [voteLive EXCEPT ![r] = TRUE]
    \/ StoreErrors # {} /\ UNCHANGED <<votes, voteLive>>
    \/ /\ "applied" \in StoreErrors
       /\ votes' = [votes EXCEPT ![r] = [level |-> level, left |-> Window]]
       /\ UNCHANGED voteLive

\* SetPostureVote, announced before it is attempted.
CastVote(r, level) ==
    /\ voteLive' = [voteLive EXCEPT ![r] = TRUE]
    /\ \/ votes' = [votes EXCEPT ![r] = [level |-> level, left |-> Window]]
       \/ StoreErrors # {} /\ UNCHANGED votes

\* sharePosture casts or removes the vote and stays inside shareMu.
TickShare(g) ==
    LET r == g[1] IN
    /\ pc[g] = "share" /\ shareBy[r] = None
    /\ \/ Muted(r) /\ ClearShared(r) /\ Goto(g, "eval") /\ UNCHANGED shareBy
       \/ /\ ~Muted(r)
          /\ \/ glocal[g] > 0 /\ CastVote(r, glocal[g]) /\ UNCHANGED dirty
             \/ glocal[g] = 0 /\ RemoveVote(r)
          /\ shareBy' = [shareBy EXCEPT ![r] = g]
          /\ Goto(g, "max")
    /\ UNCHANGED <<cfg, sig, state, localLvl, lastAbove, pinned, pin, evalBy, up, due,
                   gcfg, gsig, glocal, gpeer, goal, boundVars, calm, want, replaces>>

\* Faulty variant: a replica hears its own vote.
PeerLevelsOwn(r) == {votes[q].level : q \in {q \in Replicas : votes[q].left > 0}}

\* MaxPostureVote over the other instances; an error counts as no vote.
PeerLevels(r) == {votes[q].level : q \in {q \in Replicas \ {r} : votes[q].left > 0}}

TickMax(g) ==
    LET r == g[1] IN
    /\ pc[g] = "max"
    /\ \/ gpeer' = [gpeer EXCEPT ![g] = CHOOSE l \in PeerLevels(r) \cup {0} :
                                           \A m \in PeerLevels(r) : m <= l]
       \/ StoreErrors # {} /\ UNCHANGED gpeer
    /\ shareBy' = [shareBy EXCEPT ![r] = None]
    /\ Goto(g, "eval")
    /\ UNCHANGED <<detectorVars, evalBy, votes, up, due, gcfg, gsig, glocal, goal, boundVars,
                   ghostVars>>

-----------------------------------------------------------------------------
(* The admin API and the engine's Reload                                   *)

Serves(r, op) == up[r] /\ Idle(<<r, "admin">>) /\ op \in AdminOps /\ admin < MaxAdmin

\* Pin stores the level and its end ...
PinStart(r) ==
    /\ Serves(r, "pin")
    /\ admin' = admin + 1
    /\ \E level \in Levels, ttl \in PinTTLs :
          LET p == [level |-> level, timed |-> ttl > 0, left |-> ttl] IN
          /\ pin' = [pin EXCEPT ![r] = p]
          /\ goal' = [goal EXCEPT ![r] = p]
    /\ want' = [want EXCEPT ![r] = None]
    /\ replaces' = [replaces EXCEPT ![r] = pinned[r] /\ pin[r].timed]
    /\ Goto(<<r, "admin">>, "set")
    /\ UNCHANGED <<cfg, sig, state, localLvl, lastAbove, pinned, voteLive, lockVars, votes, up, due,
                   gcfg, gsig, glocal, gpeer, load, crashes, calm, dirty>>

\* ... then raises the flag.
PinSet(g) ==
    /\ pc[g] = "set"
    /\ pinned' = [pinned EXCEPT ![g[1]] = TRUE]
    /\ Goto(g, "recompute")
    /\ UNCHANGED <<cfg, sig, state, localLvl, lastAbove, pin, voteLive, lockVars, votes, up, due,
                   gcfg, gsig, glocal, gpeer, goal, boundVars, ghostVars>>

Unpin(r) ==
    /\ Serves(r, "unpin")
    /\ admin' = admin + 1
    /\ pinned' = [pinned EXCEPT ![r] = FALSE]
    /\ want' = [want EXCEPT ![r] = None]
    /\ Goto(<<r, "admin">>, "recompute")
    /\ UNCHANGED <<cfg, sig, state, localLvl, lastAbove, pin, voteLive, lockVars, votes, up, due,
                   gcfg, gsig, glocal, gpeer, goal, load, crashes, calm, dirty, replaces>>

\* recompute reads the last measurement; it does not ask the peers.
Recompute(g) ==
    /\ pc[g] = "recompute"
    /\ gcfg' = [gcfg EXCEPT ![g] = cfg[g[1]]]
    /\ gsig' = [gsig EXCEPT ![g] = sig[g[1]]]
    /\ Goto(g, "eval")
    /\ UNCHANGED <<detectorVars, lockVars, votes, up, due, glocal, gpeer, goal, boundVars, ghostVars>>

SetConfig(r) ==
    /\ Serves(r, "config")
    /\ admin' = admin + 1
    /\ \E c \in Configs :
          /\ cfg' = [cfg EXCEPT ![r] = c]
          /\ Goto(<<r, "admin">>, IF c.enabled /\ c.share THEN "idle" ELSE "clear")
    /\ UNCHANGED <<sig, state, localLvl, lastAbove, pinned, pin, voteLive, lockVars, votes, up, due,
                   gcfg, gsig, glocal, gpeer, goal, load, crashes, ghostVars>>

-----------------------------------------------------------------------------
(* Time and failure                                                        *)

\* Close: the ticker has stopped; the vote is taken back.
Close(r) ==
    /\ up[r] /\ crashes < MaxCrashes
    /\ \A t \in Threads : Idle(<<r, t>>)
    /\ crashes' = crashes + 1
    /\ up' = [up EXCEPT ![r] = FALSE]
    /\ ClearShared(r)
    /\ UNCHANGED <<cfg, sig, state, localLvl, lastAbove, pinned, pin, lockVars, due, threadVars,
                   load, admin, calm, want, replaces>>

\* The process dies; its vote lives on in the store.
Crash(r) ==
    /\ up[r] /\ crashes < MaxCrashes
    /\ crashes' = crashes + 1
    /\ up' = [up EXCEPT ![r] = FALSE]
    /\ pc' = [g \in Goroutines |-> IF g[1] = r THEN "idle" ELSE pc[g]]
    /\ evalBy' = [evalBy EXCEPT ![r] = None] /\ shareBy' = [shareBy EXCEPT ![r] = None]
    /\ goal' = [goal EXCEPT ![r] = None]
    /\ UNCHANGED <<detectorVars, votes, due, gcfg, gsig, glocal, gpeer, load, admin, ghostVars>>

Older(ages) == [l \in Levels |-> IF ages[l] < MinDwell THEN ages[l] + 1 ELSE ages[l]]
Shorter(p)  == IF p # None /\ p.left > 0 THEN [p EXCEPT !.left = @ - 1] ELSE p

\* One bucketWidth: every running ticker ticks once in it.
Clock ==
    /\ \A r \in Replicas : up[r] => ~due[r]
    /\ due' = [r \in Replicas |-> TRUE]
    /\ lastAbove' = [r \in Replicas |-> Older(lastAbove[r])]
    /\ calm' = [r \in Replicas |-> Older(calm[r])]
    /\ pin' = [r \in Replicas |-> Shorter(pin[r])]
    /\ goal' = [r \in Replicas |-> Shorter(goal[r])]
    /\ want' = [r \in Replicas |-> Shorter(want[r])]
    /\ votes' = [r \in Replicas |-> IF votes[r].left > 1 THEN Shorter(votes[r]) ELSE NoVote]
    /\ UNCHANGED <<cfg, sig, state, localLvl, pinned, voteLive, lockVars, up, pc, gcfg, gsig, glocal,
                   gpeer, boundVars, dirty, replaces>>

Run(g) ==
    \/ TickLocal(g) \/ TickShare(g) \/ TickMax(g)
    \/ Evaluate(g) \/ EvaluateExpired(g) \/ ClearSharedVote(g)
    \/ PinSet(g) \/ Recompute(g)

Next ==
    \/ \E g \in Goroutines : Run(g)
    \/ \E r \in Replicas : Tick(r) \/ PinStart(r) \/ Unpin(r) \/ SetConfig(r) \/ Close(r) \/ Crash(r)
    \/ Clock

Spec == Init /\ [][Next]_vars

\* A goroutine that runs goes on, the ticker fires, time passes.
Fairness ==
    /\ \A g \in Goroutines : WF_vars(Run(g))
    /\ \A r \in Replicas : WF_vars(Tick(r))
    /\ WF_vars(Clock)
FairSpec == Spec /\ Fairness

-----------------------------------------------------------------------------
(* Properties                                                              *)

(* Pin's promise: from the moment the operator was told that a pin is in   *)
(* force until it ends, the replica publishes the pinned level, whatever   *)
(* its ticker had already read when the pin came.  A pin set over one that *)
(* runs out may be dropped with it, in the gap inside resolvePin.          *)
PinSticks ==
    \A r \in Replicas :
        want[r] # None /\ ~replaces[r] /\ up[r] /\ (want[r].timed => want[r].left > 0) =>
            pinned[r] /\ state[r].level = want[r].level

(* No vote outlives sharing: a replica at rest that is pinned, disabled or *)
(* told not to share has no live vote, unless the store refused to remove  *)
(* it, and then voteLive remembers to try again.                           *)
MutedIsSilent ==
    \A r \in Replicas :
        /\ up[r] /\ votes[r].left > 0 => voteLive[r]
        /\ up[r] /\ Muted(r) /\ ~dirty[r] /\ (\A t \in Threads : Idle(<<r, t>>)) => votes[r].left = 0

(* Exit is one step at a time, and only after every signal of the level,   *)
(* and every peer vote for it, has stayed away for MinDwell; a pin and a   *)
(* disabled detector are the only other ways down.                         *)
FallsSlowly ==
    [][\A r \in Replicas :
          \/ state'[r].level >= state[r].level
          \/ state[r].reason = "forced" \/ state'[r].reason = "forced"
          \/ \E g \in Goroutines : g[1] = r /\ pc[g] \in {"eval", "expire"} /\ ~gcfg[g].enabled
          \/ /\ state'[r].level = state[r].level - 1
             /\ calm[r][state[r].level] >= MinDwell]_vars

(* Once the load is gone the whole fleet returns to Normal, through lost   *)
(* votes and a crash, unless two running replicas are at the same local    *)
(* level: each one's vote refreshes the other's lastAbove, from which the  *)
(* local decay reads too, and they hold each other there without a signal. *)
(* Nothing else keeps a replica up; in particular no single replica does,  *)
(* and no two at different levels.                                         *)
FleetCalms ==
    \/ <>[](\A r \in Replicas : up[r] => state[r].level = 0)
    \/ \E l \in 1..2 : <>[](\E r, q \in Replicas : /\ r # q /\ up[r] /\ up[q]
                                                   /\ localLvl[r] = l /\ localLvl[q] = l)
=============================================================================

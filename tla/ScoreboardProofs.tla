-------------------------- MODULE ScoreboardProofs --------------------------
(***************************************************************************)
(* What an unblock promises, for every number of scorers, operators,       *)
(* events, buckets and generations.                                        *)
(***************************************************************************)
EXTENDS Scoreboard, TLAPS

USE DEF Tokens, Buckets

-----------------------------------------------------------------------------
(* Types                                                                   *)

\* A counter table stays one when an entry of it is bumped.
LEMMA Bumped ==
    ASSUME NEW A, NEW B, NEW f \in [A -> [B -> Nat]], NEW x, NEW y \in B
    PROVE  [f EXCEPT ![x][y] = @ + 1] \in [A -> [B -> Nat]]
<1>1. CASE x \in A
    <2>1. [f[x] EXCEPT ![y] = @ + 1] \in [B -> Nat]
        BY <1>1
    <2> QED
        BY <1>1, <2>1
<1>2. CASE x \notin A
    BY <1>2
<1> QED
    BY <1>1, <1>2

\* A counter table stays one when an entry of it is deleted.
LEMMA Zeroed ==
    ASSUME NEW A, NEW B, NEW f \in [A -> [B -> Nat]], NEW x \in A, NEW y \in B
    PROVE  [f EXCEPT ![x][y] = 0] \in [A -> [B -> Nat]]
    OBVIOUS

\* A scorer that gives up leaves its registers in their types.
LEMMA IdleTypes ==
    ASSUME ScorerTypes, NEW s \in Scorers, Idle(s)
    PROVE  ScorerTypes'
    BY ScoreboardAssumption DEF ScorerTypes, Idle

\* CommitEvent's increment keeps the counters and the ghost count in their types.
LEMMA CountEventTypes ==
    ASSUME TypeOK, NEW s \in Scorers, CountEvent(s)
    PROVE  (ev \in [Tokens -> [Buckets -> Nat]])' /\ (fresh \in [Buckets -> Nat])'
<1>1. ev' \in [Tokens -> [Buckets -> Nat]]
    BY Bumped DEF TypeOK, StoreTypes, ScorerTypes, CountEvent
<1>2. fresh' \in [Buckets -> Nat]
    BY DEF TypeOK, ScorerTypes, CountTypes, CountEvent
<1> QED
    BY <1>1, <1>2

\* The scorers' steps.
LEMMA ScoreTypes ==
    ASSUME TypeOK, NEW s \in Scorers, Score(s)
    PROVE  TypeOK'
<1> USE ScoreboardAssumption DEF TypeOK, storeVars, scorerVars, unblockVars, boundVars, ghostVars
<1>1. CASE RecordEvent(s)
    <2> USE <1>1 DEF RecordEvent, EventBucket
    <2>a. StoreTypes' /\ (hold \in BOOLEAN)'
        BY DEF StoreTypes
    <2>b. UnblockTypes'
        BY DEF UnblockTypes
    <2>c. CountTypes'
        BY DEF CountTypes
    <2>1. StoreTypes' /\ UnblockTypes' /\ CountTypes' /\ (hold \in BOOLEAN)'
        BY <2>a, <2>b, <2>c
    <2>2. ScorerTypes'
        BY DEF StoreTypes, ScorerTypes, CountTypes
    <2> QED
        BY <2>1, <2>2
<1>2. CASE CommitEvent(s)
    <2> USE <1>2 DEF CommitEvent
    <2>1. hold' = hold /\ UnblockTypes'
        BY DEF UnblockTypes
    <2>2. (ev \in [Tokens -> [Buckets -> Nat]])' /\ (fresh \in [Buckets -> Nat])'
        BY CountEventTypes DEF StoreTypes, CountTypes
    <2>3. StoreTypes' /\ CountTypes'
        BY <2>2 DEF StoreTypes, CountTypes
    <2>4. CASE Idle(s)
        BY <2>1, <2>3, <2>4, IdleTypes
    <2>5. CASE /\ spc' = [spc EXCEPT ![s] = "token"]
               /\ UNCHANGED <<sgen, sbucket, admitted, prev, sepoch, bepoch>>
        <3>1. ScorerTypes'
            BY <2>5 DEF ScorerTypes
        <3> QED
            BY <2>1, <2>3, <3>1
    <2> QED
        BY <2>4, <2>5
<1>3. CASE InstantBlock(s)
    <2> USE <1>3 DEF InstantBlock
    <2>a. StoreTypes' /\ (hold \in BOOLEAN)'
        BY DEF StoreTypes
    <2>b. UnblockTypes'
        BY DEF UnblockTypes
    <2>c. CountTypes'
        BY DEF CountTypes
    <2>1. StoreTypes' /\ UnblockTypes' /\ CountTypes' /\ (hold \in BOOLEAN)'
        BY <2>a, <2>b, <2>c
    <2>2. ScorerTypes'
        BY DEF ScorerTypes, CountTypes
    <2> QED
        BY <2>1, <2>2
<1>4. CASE BlockReadToken(s)
    <2> USE <1>4 DEF BlockReadToken
    <2>a. StoreTypes' /\ (hold \in BOOLEAN)'
        BY DEF StoreTypes
    <2>b. UnblockTypes'
        BY DEF UnblockTypes
    <2>c. CountTypes'
        BY DEF CountTypes
    <2>1. StoreTypes' /\ UnblockTypes' /\ CountTypes' /\ (hold \in BOOLEAN)'
        BY <2>a, <2>b, <2>c
    <2>2. CASE Idle(s)
        BY <2>1, <2>2, IdleTypes
    <2>3. CASE ~Idle(s)
        <3>1. ScorerTypes'
            BY <2>3 DEF StoreTypes, ScorerTypes, CountTypes
        <3> QED
            BY <2>1, <3>1
    <2> QED
        BY <2>2, <2>3
<1>5. CASE BlockReadPrev(s)
    <2> USE <1>5 DEF BlockReadPrev
    <2>a. StoreTypes' /\ (hold \in BOOLEAN)'
        BY DEF StoreTypes
    <2>b. UnblockTypes'
        BY DEF UnblockTypes
    <2>c. CountTypes'
        BY DEF CountTypes
    <2>1. StoreTypes' /\ UnblockTypes' /\ CountTypes' /\ (hold \in BOOLEAN)'
        BY <2>a, <2>b, <2>c
    <2>2. CASE Idle(s)
        BY <2>1, <2>2, IdleTypes
    <2>3. CASE ~Idle(s)
        <3>1. ScorerTypes'
            BY <2>3 DEF StoreTypes, ScorerTypes
        <3> QED
            BY <2>1, <3>1
    <2> QED
        BY <2>2, <2>3
<1>6. CASE BlockCommit(s)
    <2> USE <1>6 DEF BlockCommit
    <2>1. UnblockTypes' /\ (hold \in BOOLEAN)'
        BY DEF UnblockTypes
    <2>2. ScorerTypes'
        BY IdleTypes
    <2>3. CASE UNCHANGED <<block, blockVal, lastVal, offenses, charged>>
        <3>1. StoreTypes' /\ CountTypes'
            BY <2>3 DEF StoreTypes, CountTypes
        <3> QED
            BY <2>1, <2>2, <3>1
    <2>4. CASE WriteBlock(s)
        <3> USE <2>4 DEF WriteBlock
        <3>1. block' \in Block
            BY DEF Block, ScorerTypes
        <3>2. StoreTypes'
            BY <3>1 DEF StoreTypes
        <3>3. CountTypes'
            BY DEF ScorerTypes, CountTypes
        <3> QED
            BY <2>1, <2>2, <3>2, <3>3
    <2> QED
        BY <2>3, <2>4
<1> QED
    BY <1>1, <1>2, <1>3, <1>4, <1>5, <1>6 DEF Score

\* The operators' steps.
LEMMA UnblockStepTypes ==
    ASSUME TypeOK, NEW u \in Unblockers, Unblock(u)
    PROVE  TypeOK'
<1> USE ScoreboardAssumption DEF TypeOK, storeVars, scorerVars, unblockVars, boundVars, ghostVars,
        Later
<1>1. CASE UnblockIP(u)
    <2> USE <1>1 DEF UnblockIP
    <2>1. StoreTypes' /\ ScorerTypes' /\ (hold \in BOOLEAN)'
        BY DEF StoreTypes, ScorerTypes
    <2>2. CountTypes'
        BY DEF CountTypes
    <2>3. UnblockTypes'
        BY DEF StoreTypes, UnblockTypes
    <2> QED
        BY <2>1, <2>2, <2>3
<1>2. CASE HoldUnblockHold(u)
    <2> USE <1>2 DEF HoldUnblockHold
    <2>1. StoreTypes'
        BY DEF StoreTypes
    <2>2. ScorerTypes' /\ CountTypes'
        BY DEF ScorerTypes, CountTypes
    <2>3. UnblockTypes'
        BY DEF UnblockTypes
    <2>4. hold' \in BOOLEAN
        OBVIOUS
    <2> QED
        BY <2>1, <2>2, <2>3, <2>4
<1>3. CASE HoldUnblockGen(u)
    <2> USE <1>3 DEF HoldUnblockGen
    <2>1. ScorerTypes' /\ CountTypes' /\ (hold \in BOOLEAN)'
        BY DEF ScorerTypes, CountTypes
    <2>2. NewGeneration => token' \in Tokens /\ lastToken' \in Tokens
        BY DEF StoreTypes, NewGeneration
    <2>3. StoreTypes'
        BY <2>2 DEF StoreTypes
    <2>4. UnblockTypes'
        BY DEF UnblockTypes
    <2> QED
        BY <2>1, <2>3, <2>4
<1>4. CASE ResetEventCounter(u)
    <2> USE <1>4 DEF ResetEventCounter
    <2>1. ScorerTypes' /\ CountTypes' /\ (hold \in BOOLEAN)'
        BY DEF ScorerTypes, CountTypes
    <2>2. ASSUME NEW b \in todo[u], ev' = [ev EXCEPT ![ugen[u]][b] = 0]
          PROVE  ev' \in [Tokens -> [Buckets -> Nat]]
        BY <2>2, Zeroed DEF StoreTypes, UnblockTypes
    <2>3. StoreTypes'
        BY <2>2 DEF StoreTypes
    <2>4. UnblockTypes'
        BY DEF UnblockTypes
    <2> QED
        BY <2>1, <2>3, <2>4
<1>5. CASE CommitUnblock(u)
    <2> USE <1>5 DEF CommitUnblock
    <2>1. ScorerTypes' /\ UnblockTypes'
        BY DEF ScorerTypes, UnblockTypes
    <2>2. CASE UNCHANGED <<hold, token, lastToken, block, blockVal, offenses, ghostVars>>
        <3>1. StoreTypes' /\ CountTypes'
            BY <2>2 DEF StoreTypes, CountTypes
        <3> QED
            BY <2>1, <2>2, <3>1
    <2>3. ASSUME NEW reset \in BOOLEAN, Pardon(reset) PROVE TypeOK'
        <3> USE <2>3 DEF Pardon
        <3>1. token' \in Tokens /\ lastToken' \in Tokens /\ offenses' \in Nat
            BY DEF NewGeneration, StoreTypes
        <3>2. block' \in Block /\ blockVal' \in Nat
            BY DEF Block, NoBlock
        <3>3. StoreTypes'
            BY <3>1, <3>2 DEF StoreTypes
        <3>4. epoch' \in Nat /\ pardoned' \in Nat
            BY DEF CountTypes
        <3>5. charged' \in SUBSET Nat /\ fresh' \in [Buckets -> Nat]
            BY DEF CountTypes
        <3>6. CountTypes'
            BY <3>4, <3>5 DEF CountTypes
        <3> QED
            BY <2>1, <3>3, <3>6
    <2> QED
        BY <2>2, <2>3
<1> QED
    BY <1>1, <1>2, <1>3, <1>4, <1>5 DEF Unblock

\* Every step leaves the store's keys and the registers in their types.
LEMMA TypeStep == TypeOK /\ [Next]_vars => TypeOK'
<1> SUFFICES ASSUME TypeOK, [Next]_vars PROVE TypeOK'
    OBVIOUS
<1> USE ScoreboardAssumption DEF TypeOK, storeVars, scorerVars, unblockVars, boundVars, ghostVars
<1>1. CASE BlockIP
    <2> USE <1>1 DEF BlockIP
    <2>a. ScorerTypes' /\ UnblockTypes' /\ (hold \in BOOLEAN)'
        BY DEF ScorerTypes, UnblockTypes
    <2>b. CountTypes'
        BY DEF CountTypes
    <2>1. ScorerTypes' /\ UnblockTypes' /\ CountTypes' /\ (hold \in BOOLEAN)'
        BY <2>a, <2>b
    <2>2. StoreTypes'
        BY DEF StoreTypes, CountTypes, Block
    <2> QED
        BY <2>1, <2>2
<1>2. CASE HoldExpires
    <2>1. hold' \in BOOLEAN
        BY <1>2 DEF HoldExpires
    <2> QED
        BY <1>2, <2>1 DEF HoldExpires, StoreTypes, ScorerTypes, UnblockTypes, CountTypes
<1>3. CASE GenerationExpires
    <2> USE <1>3 DEF GenerationExpires
    <2>a. ScorerTypes' /\ UnblockTypes' /\ (hold \in BOOLEAN)'
        BY DEF ScorerTypes, UnblockTypes
    <2>b. CountTypes'
        BY DEF CountTypes
    <2>1. ScorerTypes' /\ UnblockTypes' /\ CountTypes' /\ (hold \in BOOLEAN)'
        BY <2>a, <2>b
    <2>2. ev' \in [Tokens -> [Buckets -> Nat]]
        BY DEF StoreTypes
    <2>3. StoreTypes'
        BY <2>2 DEF StoreTypes
    <2> QED
        BY <2>1, <2>3
<1>4. CASE BlockExpires
    BY <1>4 DEF BlockExpires, StoreTypes, ScorerTypes, UnblockTypes, CountTypes, Block, NoBlock
<1>5. CASE OffensesExpire
    BY <1>5 DEF OffensesExpire, StoreTypes, ScorerTypes, UnblockTypes, CountTypes
<1>6. CASE NextBucket
    <2> USE <1>6 DEF NextBucket
    <2>1. StoreTypes'
        BY DEF StoreTypes
    <2> QED
        BY <2>1 DEF ScorerTypes, UnblockTypes, CountTypes
<1>7. CASE UNCHANGED vars
    BY <1>7 DEF vars, StoreTypes, ScorerTypes, UnblockTypes, CountTypes
<1> QED
    BY <1>1, <1>2, <1>3, <1>4, <1>5, <1>6, <1>7, ScoreTypes, UnblockStepTypes DEF Next

(* The store's keys of an IP, the registers of every scorer and operator   *)
(* and the bounds keep their types, however their calls interleave or fail.*)
THEOREM TypeCorrect == Spec => []TypeOK
<1>1. Init => TypeOK
    <2> SUFFICES ASSUME Init PROVE TypeOK
        OBVIOUS
    <2> USE ScoreboardAssumption DEF Init
    <2>1. StoreTypes
        BY DEF StoreTypes, Block, NoBlock
    <2>2. ScorerTypes
        BY DEF ScorerTypes
    <2>3. UnblockTypes
        BY DEF UnblockTypes
    <2>4. CountTypes
        BY DEF CountTypes
    <2> QED
        BY <2>1, <2>2, <2>3, <2>4 DEF TypeOK
<1> QED
    BY <1>1, TypeStep, PTL DEF Spec

-----------------------------------------------------------------------------
(* Generations                                                             *)

\* What makes a generation tell old work from new.  No key and no register holds
\* one that was not handed out yet.
HandedOut ==
    /\ token <= lastToken
    /\ \A s \in Scorers : sgen[s] <= lastToken /\ admitted[s] <= lastToken

\* A block whose admission still matches the store was admitted in this epoch.
AdmittedNow ==
    \A s \in Scorers : spc[s] \in {"prev", "commit"} /\ admitted[s] = token => bepoch[s] = epoch

\* An unblock that resets the backoff is not in the future.
PardonPast == pardoned <= epoch

StickyInv == HandedOut /\ AdmittedNow /\ PardonPast /\ UnblockSticks

\* Every step of a scorer, an operator or the clock keeps StickyInv.
LEMMA StickyStep ==
    ASSUME TypeOK, StickyInv, [Next]_vars
    PROVE  StickyInv'
<1> USE ScoreboardAssumption DEF TypeOK, StoreTypes, ScorerTypes, CountTypes, storeVars, scorerVars,
        unblockVars, boundVars, ghostVars
<1>1. ASSUME NEW s \in Scorers, RecordEvent(s) PROVE StickyInv'
    <2> USE <1>1 DEF StickyInv, RecordEvent
    <2>1. HandedOut'
        BY DEF HandedOut
    <2>2. AdmittedNow'
        BY DEF AdmittedNow
    <2> QED
        BY <2>1, <2>2 DEF PardonPast, UnblockSticks
<1>2. ASSUME NEW s \in Scorers, Idle(s), UNCHANGED <<token, lastToken, epoch>>
      PROVE  (HandedOut /\ AdmittedNow)'
    <2> USE <1>2 DEF StickyInv, Idle
    <2>1. HandedOut'
        BY DEF HandedOut
    <2>2. AdmittedNow'
        BY DEF AdmittedNow
    <2> QED
        BY <2>1, <2>2
<1>3. ASSUME NEW s \in Scorers, CommitEvent(s) PROVE StickyInv'
    <2> USE <1>3 DEF StickyInv, CommitEvent
    <2>1. (PardonPast /\ UnblockSticks)'
        BY DEF PardonPast, UnblockSticks
    <2>2. CASE Idle(s)
        BY <1>2, <2>1, <2>2
    <2>3. CASE ~Idle(s)
        BY <2>1, <2>3 DEF HandedOut, AdmittedNow
    <2> QED
        BY <2>2, <2>3
<1>4. ASSUME NEW s \in Scorers, InstantBlock(s) PROVE StickyInv'
    BY <1>4 DEF StickyInv, InstantBlock, HandedOut, AdmittedNow, PardonPast, UnblockSticks
<1>5. ASSUME NEW s \in Scorers, BlockReadToken(s) PROVE StickyInv'
    <2> USE <1>5 DEF StickyInv, BlockReadToken
    <2>1. (PardonPast /\ UnblockSticks)'
        BY DEF PardonPast, UnblockSticks
    <2>2. CASE Idle(s)
        BY <1>2, <2>1, <2>2
    <2>3. CASE ~Idle(s)
        BY <2>1, <2>3 DEF HandedOut, AdmittedNow
    <2> QED
        BY <2>2, <2>3
<1>6. ASSUME NEW s \in Scorers, BlockReadPrev(s) PROVE StickyInv'
    <2> USE <1>6 DEF StickyInv, BlockReadPrev
    <2>1. (PardonPast /\ UnblockSticks)'
        BY DEF PardonPast, UnblockSticks
    <2>2. CASE Idle(s)
        BY <1>2, <2>1, <2>2
    <2>3. CASE ~Idle(s)
        BY <2>1, <2>3 DEF HandedOut, AdmittedNow
    <2> QED
        BY <2>2, <2>3
<1>7. ASSUME NEW s \in Scorers, BlockCommit(s) PROVE StickyInv'
    <2> USE <1>7 DEF StickyInv, BlockCommit
    <2>1. (HandedOut /\ AdmittedNow)'
        BY <1>2
    <2>2. PardonPast'
        BY DEF PardonPast
    <2>3. CASE UNCHANGED <<block, blockVal, lastVal, offenses, charged>>
        BY <2>1, <2>2, <2>3 DEF UnblockSticks
    <2>4. CASE CommitAllowed(s) /\ WriteBlock(s)
        <3>1. bepoch[s] = epoch
            BY <2>4 DEF CommitAllowed, AdmittedNow
        <3>2. UnblockSticks'
            BY <2>4, <3>1 DEF WriteBlock, UnblockSticks, PardonPast
        <3> QED
            BY <2>1, <2>2, <3>2
    <2> QED
        BY <2>3, <2>4
<1>8. ASSUME NEW u \in Unblockers, UnblockIP(u) \/ HoldUnblockHold(u) \/ ResetEventCounter(u)
      PROVE StickyInv'
    BY <1>8 DEF StickyInv, HandedOut, AdmittedNow, PardonPast, UnblockSticks,
       UnblockIP, HoldUnblockHold, ResetEventCounter
<1>9. ASSUME NewGeneration, UNCHANGED scorerVars PROVE (HandedOut /\ AdmittedNow)'
    <2> USE <1>9 DEF StickyInv, NewGeneration
    <2>1. \A s \in Scorers : sgen[s] \in Int /\ admitted[s] \in Int
        OBVIOUS
    <2>2. lastToken \in Int /\ lastToken' = lastToken + 1 /\ token' = lastToken + 1
        OBVIOUS
    <2>3. sgen' = sgen /\ admitted' = admitted /\ spc' = spc
        OBVIOUS
    <2>4. HandedOut'
        BY ONLY StickyInv, <2>1, <2>2, <2>3 DEF StickyInv, HandedOut
    <2>5. \A s \in Scorers : admitted'[s] # token'
        BY ONLY StickyInv, <2>1, <2>2, <2>3 DEF StickyInv, HandedOut
    <2> QED
        BY <2>4, <2>5 DEF AdmittedNow
<1>10. ASSUME NEW u \in Unblockers, HoldUnblockGen(u) PROVE StickyInv'
    <2> USE <1>10 DEF StickyInv, HoldUnblockGen
    <2>1. (PardonPast /\ UnblockSticks)'
        BY DEF PardonPast, UnblockSticks
    <2>2. CASE NewGeneration
        BY <1>9, <2>1, <2>2
    <2>3. CASE ~NewGeneration
        BY <2>1, <2>3 DEF HandedOut, AdmittedNow
    <2> QED
        BY <2>2, <2>3
<1>11. ASSUME NEW u \in Unblockers, CommitUnblock(u) PROVE StickyInv'
    <2> USE <1>11 DEF StickyInv, CommitUnblock
    <2>1. CASE UNCHANGED <<hold, token, lastToken, block, blockVal, offenses, ghostVars>>
        BY <2>1 DEF HandedOut, AdmittedNow, PardonPast, UnblockSticks
    <2>2. ASSUME NEW reset \in BOOLEAN, Pardon(reset) PROVE StickyInv'
        <3> USE <2>2 DEF Pardon
        <3>1. (HandedOut /\ AdmittedNow)'
            BY <1>9
        <3>2. PardonPast'
            BY DEF PardonPast
        <3>3. UnblockSticks'
            BY DEF UnblockSticks, NoBlock
        <3> QED
            BY <3>1, <3>2, <3>3
    <2> QED
        BY <2>1, <2>2
<1>12. CASE GenerationExpires
    <2> USE <1>12 DEF StickyInv, GenerationExpires
    <2>1. HandedOut'
        BY DEF HandedOut
    <2> QED
        BY <2>1 DEF AdmittedNow, PardonPast, UnblockSticks
<1>13. CASE BlockIP \/ HoldExpires \/ BlockExpires \/ OffensesExpire \/ NextBucket
    <2> USE <1>13 DEF StickyInv, BlockIP, HoldExpires, BlockExpires, OffensesExpire, NextBucket
    <2>1. (HandedOut /\ AdmittedNow /\ PardonPast)'
        BY DEF HandedOut, AdmittedNow, PardonPast
    <2>2. epoch' = epoch /\ (block' = block \/ block'.by \in {"none", "admin"})
        BY DEF NoBlock
    <2>3. \A e \in charged' : e >= pardoned'
        BY DEF UnblockSticks
    <2> QED
        BY <2>1, <2>2, <2>3 DEF UnblockSticks
<1>14. CASE UNCHANGED vars
    BY <1>14 DEF vars, StickyInv, HandedOut, AdmittedNow, PardonPast, UnblockSticks
<1> QED
    BY <1>1, <1>3, <1>4, <1>5, <1>6, <1>7, <1>8, <1>10, <1>11, <1>12, <1>13, <1>14
    DEF Next, Score, Unblock

(* An unblock is a boundary: whatever was in flight when the operator let  *)
(* the client go, and however often the store fails, an automatic block in *)
(* the store was admitted after the last committed unblock.                *)
THEOREM UnblockIsABoundary == Spec => []UnblockSticks
<1>1. Init => StickyInv
    BY ScoreboardAssumption
    DEF Init, StickyInv, HandedOut, AdmittedNow, PardonPast, UnblockSticks, NoBlock
<1>2. TypeOK /\ StickyInv /\ [Next]_vars => StickyInv'
    BY StickyStep
<1>3. StickyInv => UnblockSticks
    BY DEF StickyInv
<1> QED
    BY <1>1, <1>2, <1>3, TypeCorrect, PTL DEF Spec

-----------------------------------------------------------------------------
(* Evidence                                                                *)

\* The counters of a generation that was not handed out yet are empty, and an
\* increment still on its way to the current ones was admitted in this epoch.
Untouched ==
    \A t \in Tokens, b \in Buckets : t > lastToken => ev[t][b] = 0

CountsNow ==
    \A s \in Scorers : spc[s] = "event" /\ sgen[s] = token => sepoch[s] = epoch

EvidenceInv == Untouched /\ CountsNow /\ NoStaleEvidence

\* Where no window outlives the generation, every step keeps EvidenceInv.
LEMMA EvidenceStep ==
    ASSUME ~LongWindows, TypeOK, TypeOK', HandedOut, EvidenceInv, [Next]_vars
    PROVE  EvidenceInv'
<1> USE DEF storeVars, scorerVars, unblockVars, boundVars, ghostVars
<1>a. /\ ev \in [Tokens -> [Buckets -> Nat]] /\ fresh \in [Buckets -> Nat]
      /\ ev' \in [Tokens -> [Buckets -> Nat]] /\ fresh' \in [Buckets -> Nat]
      /\ token \in Tokens /\ token' \in Tokens
      /\ lastToken \in Nat
    <2>1. lastToken \in Nat
        BY ScoreboardAssumption DEF TypeOK, StoreTypes
    <2> QED
        BY <2>1 DEF TypeOK, StoreTypes, CountTypes
<1>b. /\ spc \in [Scorers -> {"idle", "event", "token", "prev", "commit"}]
      /\ sgen \in [Scorers -> Int] /\ sepoch \in [Scorers -> Nat]
      /\ sbucket \in [Scorers -> Buckets]
    <2>1. sgen \in [Scorers -> Int]
        BY ScoreboardAssumption DEF TypeOK, ScorerTypes
    <2> QED
        BY <2>1 DEF TypeOK, ScorerTypes
<1>1. ASSUME UNCHANGED <<token, lastToken, ev, fresh>> PROVE (Untouched /\ NoStaleEvidence)'
    BY <1>1 DEF EvidenceInv, Untouched, NoStaleEvidence
<1>2. ASSUME NEW s \in Scorers, Idle(s), UNCHANGED <<token, epoch>> PROVE CountsNow'
    BY <1>2, <1>b DEF EvidenceInv, Idle, CountsNow
<1>3. ASSUME NEW s \in Scorers, RecordEvent(s) \/ InstantBlock(s) PROVE EvidenceInv'
    <2>1. CountsNow'
        BY <1>3, <1>b DEF EvidenceInv, CountsNow, RecordEvent, InstantBlock
    <2> QED
        BY <1>1, <1>3, <2>1 DEF EvidenceInv, RecordEvent, InstantBlock
<1>4. ASSUME NEW s \in Scorers, spc[s] = "event", CountEvent(s), UNCHANGED <<token, lastToken, epoch>>
      PROVE  (Untouched /\ NoStaleEvidence)'
    <2> USE <1>4 DEF CountEvent, EventGeneration
    <2>1. \A t \in Tokens, b \in Buckets :
             ev'[t][b] = IF t = sgen[s] /\ b = sbucket[s] THEN ev[t][b] + 1 ELSE ev[t][b]
        BY <1>a
    <2>2. Untouched'
        <3>1. sgen[s] <= lastToken
            BY DEF HandedOut
        <3> QED
            BY <1>a, <1>b, <2>1, <3>1 DEF EvidenceInv, Untouched
    <2>3. CASE sgen[s] = token
        <3>1. \A b \in Buckets : fresh'[b] = IF b = sbucket[s] THEN fresh[b] + 1 ELSE fresh[b]
            BY <1>a, <2>3 DEF EvidenceInv, CountsNow
        <3> QED
            BY <1>a, <2>1, <2>2, <2>3, <3>1 DEF EvidenceInv, NoStaleEvidence
    <2>4. CASE sgen[s] # token
        <3>1. \A b \in Buckets : fresh[b] <= fresh'[b]
            BY <1>a
        <3>2. \A b \in Buckets : ev'[token][b] = ev[token][b]
            BY <1>a, <2>1, <2>4
        <3>3. \A b \in Buckets : ev[token][b] \in Nat /\ fresh[b] \in Nat /\ fresh'[b] \in Nat
            BY ONLY <1>a
        <3> QED
            BY <2>2, <3>1, <3>2, <3>3 DEF EvidenceInv, NoStaleEvidence
    <2> QED
        BY <2>3, <2>4
<1>5. ASSUME NEW s \in Scorers, CommitEvent(s) PROVE EvidenceInv'
    <2> USE <1>5 DEF CommitEvent
    <2>1. (Untouched /\ NoStaleEvidence)'
        BY <1>1, <1>4
    <2>2. CASE Idle(s)
        BY <1>2, <2>1, <2>2 DEF EvidenceInv
    <2>3. CASE ~Idle(s)
        <3>1. CountsNow'
            BY <1>b, <2>3 DEF EvidenceInv, CountsNow
        <3> QED
            BY <2>1, <3>1 DEF EvidenceInv
    <2> QED
        BY <2>2, <2>3
<1>6. ASSUME NEW s \in Scorers, BlockReadToken(s) \/ BlockReadPrev(s) \/ BlockCommit(s)
      PROVE  EvidenceInv'
    <2> USE <1>6 DEF BlockReadToken, BlockReadPrev, BlockCommit
    <2>1. UNCHANGED <<token, lastToken, ev, fresh, epoch>>
        OBVIOUS
    <2>2. CASE Idle(s)
        BY <1>1, <1>2, <2>1, <2>2 DEF EvidenceInv
    <2>3. CASE ~Idle(s)
        <3>1. CountsNow'
            BY <1>b, <2>1, <2>3 DEF EvidenceInv, CountsNow
        <3> QED
            BY <1>1, <2>1, <3>1 DEF EvidenceInv
    <2> QED
        BY <2>2, <2>3
<1>7. ASSUME NEW u \in Unblockers, UnblockIP(u) \/ HoldUnblockHold(u) PROVE EvidenceInv'
    BY <1>1, <1>7 DEF EvidenceInv, CountsNow, UnblockIP, HoldUnblockHold
<1>8. ASSUME NewGeneration, UNCHANGED <<ev, scorerVars>>
      PROVE  /\ (Untouched /\ CountsNow)'
             /\ \A b \in Buckets : ev'[token'][b] = 0
    <2> USE <1>8 DEF NewGeneration
    <2>1. \A s \in Scorers : sgen'[s] # token'
        BY <1>a, <1>b DEF HandedOut
    <2>2. Untouched'
        BY <1>a, ScoreboardAssumption DEF EvidenceInv, Untouched
    <2>3. \A b \in Buckets : ev'[token'][b] = 0
        BY <1>a DEF EvidenceInv, Untouched
    <2> QED
        BY <2>1, <2>2, <2>3 DEF CountsNow
<1>9. ASSUME NEW u \in Unblockers, HoldUnblockGen(u) PROVE EvidenceInv'
    <2> USE <1>9 DEF HoldUnblockGen
    <2>1. CASE NewGeneration
        BY <1>8, <1>a, <2>1 DEF EvidenceInv, NoStaleEvidence
    <2>2. CASE ~NewGeneration
        BY <1>1, <2>2 DEF EvidenceInv, CountsNow
    <2> QED
        BY <2>1, <2>2
<1>10. ASSUME NEW u \in Unblockers, ResetEventCounter(u) PROVE EvidenceInv'
    <2> USE <1>10 DEF ResetEventCounter
    <2>1. \A t \in Tokens, b \in Buckets : ev'[t][b] = ev[t][b] \/ ev'[t][b] = 0
        <3>1. ASSUME NEW x, NEW y, ev' = [ev EXCEPT ![x][y] = 0],
                     NEW t \in Tokens, NEW b \in Buckets
              PROVE  ev'[t][b] = ev[t][b] \/ ev'[t][b] = 0
            BY ONLY <1>a, <3>1
        <3> QED
            BY <1>a, <3>1
    <2>2. CountsNow'
        BY DEF EvidenceInv, CountsNow
    <2>3. Untouched'
        BY <2>1 DEF EvidenceInv, Untouched
    <2>4. NoStaleEvidence'
        BY <1>a, <2>1 DEF EvidenceInv, NoStaleEvidence
    <2> QED
        BY <2>2, <2>3, <2>4 DEF EvidenceInv
<1>11. ASSUME NEW u \in Unblockers, CommitUnblock(u) PROVE EvidenceInv'
    <2> USE <1>11 DEF CommitUnblock
    <2>1. CASE UNCHANGED <<hold, token, lastToken, block, blockVal, offenses, ghostVars>>
        BY <1>1, <2>1 DEF EvidenceInv, CountsNow
    <2>2. ASSUME NEW reset \in BOOLEAN, Pardon(reset) PROVE EvidenceInv'
        BY <1>8, <1>a, <2>2 DEF Pardon, EvidenceInv, NoStaleEvidence
    <2> QED
        BY <2>1, <2>2
<1>12. CASE GenerationExpires
    <2> USE <1>12 DEF GenerationExpires
    <2>1. \A b \in Buckets : ev'[0][b] = 0
        BY <1>a, ScoreboardAssumption
    <2>2. Untouched'
        BY <1>a DEF EvidenceInv, Untouched
    <2>3. CountsNow'
        BY DEF CountsNow
    <2> QED
        BY <1>a, <2>1, <2>2, <2>3 DEF EvidenceInv, NoStaleEvidence
<1>13. CASE BlockIP \/ HoldExpires \/ BlockExpires \/ OffensesExpire \/ NextBucket
    BY <1>1, <1>13 DEF EvidenceInv, CountsNow, BlockIP, HoldExpires, BlockExpires, OffensesExpire,
       NextBucket
<1>14. CASE UNCHANGED vars
    BY <1>1, <1>14 DEF vars, EvidenceInv, CountsNow
<1> QED
    BY <1>3, <1>5, <1>6, <1>7, <1>9, <1>10, <1>11, <1>12, <1>13, <1>14 DEF Next, Score, Unblock

(* Where no window outlives the generation, the counters a scorer reads    *)
(* hold only events admitted since the last unblock, although increments   *)
(* of earlier epochs land late and deletions of old counters fail.         *)
THEOREM UnblockForgetsEvidence == ~LongWindows /\ Spec => []NoStaleEvidence
<1>1. Init => StickyInv /\ EvidenceInv
    BY ScoreboardAssumption
    DEF Init, StickyInv, HandedOut, AdmittedNow, PardonPast, UnblockSticks, NoBlock,
        EvidenceInv, Untouched, CountsNow, NoStaleEvidence
<1>2. TypeOK /\ StickyInv /\ [Next]_vars => StickyInv'
    BY StickyStep
<1>3. ~LongWindows /\ TypeOK /\ TypeOK' /\ StickyInv /\ EvidenceInv /\ [Next]_vars => EvidenceInv'
    BY EvidenceStep DEF StickyInv
<1>4. EvidenceInv => NoStaleEvidence
    BY DEF EvidenceInv
<1>5. CASE LongWindows
    BY <1>5
<1>6. CASE ~LongWindows
    <2>1. TypeOK /\ TypeOK' /\ StickyInv /\ EvidenceInv /\ [Next]_vars => EvidenceInv'
        BY <1>3, <1>6
    <2> QED
        BY <1>1, <1>2, <1>4, <2>1, TypeCorrect, PTL DEF Spec
<1> QED
    BY <1>5, <1>6

-----------------------------------------------------------------------------
(* The hold                                                                *)

\* While no hold is in force every running request was admitted in this epoch.
HoldShields ==
    ~hold => \A s \in Scorers : spc[s] # "idle" => sepoch[s] = epoch

HoldInv == HoldShields /\ ThresholdBlockIsFresh

\* Where the hold outlives every request, every step keeps HoldInv.
LEMMA HoldStep ==
    ASSUME HoldCoversRequests, TypeOK, HoldInv, [Next]_vars
    PROVE  HoldInv'
<1> USE DEF storeVars, scorerVars, unblockVars, boundVars, ghostVars
<1>a. /\ spc \in [Scorers -> {"idle", "event", "token", "prev", "commit"}]
      /\ sepoch \in [Scorers -> Nat]
    BY DEF TypeOK, ScorerTypes
<1>1. ASSUME NEW s \in Scorers, Idle(s), UNCHANGED <<hold, epoch>> PROVE HoldShields'
    BY <1>a, <1>1 DEF HoldInv, HoldShields, Idle
<1>2. ASSUME NEW s \in Scorers, RecordEvent(s) \/ InstantBlock(s) PROVE HoldInv'
    BY <1>a, <1>2 DEF HoldInv, HoldShields, ThresholdBlockIsFresh, RecordEvent, InstantBlock
<1>3. ASSUME NEW s \in Scorers, CommitEvent(s) \/ BlockReadToken(s) \/ BlockReadPrev(s)
      PROVE  HoldInv'
    <2> USE <1>3 DEF CommitEvent, BlockReadToken, BlockReadPrev
    <2>1. ThresholdBlockIsFresh'
        BY DEF HoldInv, ThresholdBlockIsFresh
    <2>2. CASE Idle(s)
        BY <1>1, <2>1, <2>2 DEF HoldInv
    <2>3. CASE ~Idle(s)
        <3>1. HoldShields'
            BY <1>a, <2>3 DEF HoldInv, HoldShields
        <3> QED
            BY <2>1, <3>1 DEF HoldInv
    <2> QED
        BY <2>2, <2>3
<1>4. ASSUME NEW s \in Scorers, BlockCommit(s) PROVE HoldInv'
    <2> USE <1>4 DEF BlockCommit
    <2>1. HoldShields'
        BY <1>1
    <2>2. CASE UNCHANGED block
        BY <2>1, <2>2 DEF HoldInv, ThresholdBlockIsFresh
    <2>3. CASE CommitAllowed(s) /\ WriteBlock(s)
        <3>1. sepoch[s] = epoch
            BY <2>3 DEF CommitAllowed, HoldInv, HoldShields
        <3> QED
            BY <2>1, <2>3, <3>1 DEF HoldInv, WriteBlock, ThresholdBlockIsFresh
    <2> QED
        BY <2>2, <2>3
<1>5. ASSUME NEW u \in Unblockers,
             UnblockIP(u) \/ HoldUnblockHold(u) \/ HoldUnblockGen(u) \/ ResetEventCounter(u)
      PROVE  HoldInv'
    BY <1>5 DEF HoldInv, HoldShields, ThresholdBlockIsFresh, UnblockIP, HoldUnblockHold,
       HoldUnblockGen, ResetEventCounter
<1>6. ASSUME NEW u \in Unblockers, CommitUnblock(u) PROVE HoldInv'
    <2> USE <1>6 DEF CommitUnblock
    <2>1. CASE UNCHANGED <<hold, token, lastToken, block, blockVal, offenses, ghostVars>>
        BY <2>1 DEF HoldInv, HoldShields, ThresholdBlockIsFresh
    <2>2. ASSUME NEW reset \in BOOLEAN, Pardon(reset) PROVE HoldInv'
        BY <2>2 DEF Pardon, HoldInv, HoldShields, ThresholdBlockIsFresh, NoBlock
    <2> QED
        BY <2>1, <2>2
<1>7. CASE HoldExpires
    BY <1>7 DEF HoldExpires, HoldInv, HoldShields, ThresholdBlockIsFresh
<1>8. CASE BlockIP \/ GenerationExpires \/ BlockExpires \/ OffensesExpire \/ NextBucket
    <2> USE <1>8 DEF BlockIP, GenerationExpires, BlockExpires, OffensesExpire, NextBucket
    <2>1. HoldShields'
        BY DEF HoldInv, HoldShields
    <2>2. epoch' = epoch /\ (block' = block \/ block'.by \in {"none", "admin"})
        BY DEF NoBlock
    <2> QED
        BY <2>1, <2>2 DEF HoldInv, ThresholdBlockIsFresh
<1>9. CASE UNCHANGED vars
    BY <1>9 DEF vars, HoldInv, HoldShields, ThresholdBlockIsFresh
<1> QED
    BY <1>2, <1>3, <1>4, <1>5, <1>6, <1>7, <1>8, <1>9 DEF Next, Score, Unblock

(* Where the hold outlives every request, a threshold block rests on an    *)
(* event admitted after the last committed unblock: the event a request    *)
(* was counting when the operator let the client go does not block again.  *)
THEOREM HoldStopsStaleEvidence == HoldCoversRequests /\ Spec => []ThresholdBlockIsFresh
<1>1. Init => HoldInv
    BY DEF Init, HoldInv, HoldShields, ThresholdBlockIsFresh, NoBlock
<1>2. HoldCoversRequests /\ TypeOK /\ HoldInv /\ [Next]_vars => HoldInv'
    BY HoldStep
<1>3. HoldInv => ThresholdBlockIsFresh
    BY DEF HoldInv
<1>4. CASE ~HoldCoversRequests
    BY <1>4
<1>5. CASE HoldCoversRequests
    <2>1. TypeOK /\ HoldInv /\ [Next]_vars => HoldInv'
        BY <1>2, <1>5
    <2> QED
        BY <1>1, <1>3, <2>1, TypeCorrect, PTL DEF Spec
<1> QED
    BY <1>4, <1>5
=============================================================================

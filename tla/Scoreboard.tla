----------------------------- MODULE Scoreboard -----------------------------
(***************************************************************************)
(* core/scoreboard.go with the commit contracts of core/store/store.go and *)
(* Engine.UnblockIP and BlockIP: automatic scoring and blocking of one IP  *)
(* against operator unblocks of it, on any number of instances that share  *)
(* the store.                                                              *)
(*                                                                         *)
(* Every store call is one action; what a call read before an await of the *)
(* next one lives in the registers of the scorer or unblocker that made it.*)
(* Store keys of the IP are variables: an absent key is 0, FALSE or NoBlock.*)
(* The mirror notifications that follow a commit are in BlockMirror.       *)
(***************************************************************************)
EXTENDS Integers, FiniteSets

CONSTANTS
    Scorers,            \* requests being scored concurrently
    Unblockers,         \* operator unblocks running concurrently
    Limit,              \* events in one bucket that place a block
    HoldCoversRequests, \* unblockHoldWindow outlives a request (2s in the code)
    LongWindows,        \* a configured window outlives unblockGenRetention (24h)
    StoreErrors,        \* how a store call may fail, a subset of {"lost", "applied"}
    MaxEvents, MaxUnblocks, MaxGenerations, MaxAdminBlocks, MaxBucket   \* bounds of the model

ASSUME ScoreboardAssumption ==
    /\ Limit \in Nat \ {0}
    /\ HoldCoversRequests \in BOOLEAN /\ LongWindows \in BOOLEAN
    /\ MaxEvents \in Nat /\ MaxUnblocks \in Nat /\ MaxGenerations \in Nat
    /\ MaxAdminBlocks \in Nat /\ MaxBucket \in Nat

VARIABLES
    hold,       \* unblk:<ip> is present
    token,      \* unblkgen:<ip>, 0 when absent; every write is a fresh value
    lastToken,  \* the last generation handed out
    block,      \* block:<ip>: who placed it (and the ghost epochs it rests on)
    blockVal,   \* the owner token of that value, 0 when there is no block
    lastVal,    \* the last owner token handed out
    offenses,   \* blkct:<ip>
    ev,         \* ev:<type>:<ip>:<generation>:<bucket>
    bucket,     \* the current time bucket
    spc,        \* where each scorer is
    sgen,       \* RecordEvent's generation
    sbucket,    \* RecordEvent's bucket
    admitted,   \* Block's admitted
    prev,       \* Block's prev
    upc,        \* where each unblocker is
    ugen,       \* UnblockIP's resetGeneration
    todo,       \* the buckets ResetEventCounters has yet to delete
    events, unblocks, adminBlocks,  \* operations started, bound the model
    epoch,      \* ghost: unblocks committed so far
    sepoch,     \* ghost: the epoch in which a scorer's evidence was admitted
    bepoch,     \* ghost: the epoch in which its block was admitted
    fresh,      \* ghost: events of this epoch counted per bucket
    charged,    \* ghost: the epochs of the blocks that offenses counts
    pardoned    \* ghost: the epoch of the last unblock that reset the backoff

storeVars   == <<hold, token, lastToken, block, blockVal, lastVal, offenses, ev>>
scorerVars  == <<spc, sgen, sbucket, admitted, prev, sepoch, bepoch>>
unblockVars == <<upc, ugen, todo>>
boundVars   == <<events, unblocks, adminBlocks>>
ghostVars   == <<epoch, fresh, charged, pardoned>>
vars == <<storeVars, bucket, scorerVars, unblockVars, boundVars, ghostVars>>

-----------------------------------------------------------------------------

Tokens  == 0..MaxGenerations
Buckets == 0..MaxBucket
NoBlock == [by |-> "none", evidence |-> 0, decision |-> 0]
Block   == [by : {"none", "threshold", "instant", "admin"}, evidence : Nat, decision : Nat]

StoreTypes ==
    /\ token \in Tokens /\ lastToken \in Tokens
    /\ block \in Block /\ blockVal \in Nat /\ lastVal \in Nat
    /\ offenses \in Nat
    /\ ev \in [Tokens -> [Buckets -> Nat]]
    /\ bucket \in Buckets

ScorerTypes ==
    /\ spc \in [Scorers -> {"idle", "event", "token", "prev", "commit"}]
    /\ sgen \in [Scorers -> Tokens \cup {-1}]
    /\ sbucket \in [Scorers -> Buckets]
    /\ admitted \in [Scorers -> Tokens]
    /\ prev \in [Scorers -> Nat]
    /\ sepoch \in [Scorers -> Nat] /\ bepoch \in [Scorers -> Nat]

UnblockTypes ==
    /\ upc \in [Unblockers -> {"idle", "hold", "gen", "reset", "commit"}]
    /\ ugen \in [Unblockers -> Tokens]
    /\ todo \in [Unblockers -> SUBSET Buckets]

CountTypes ==
    /\ events \in 0..MaxEvents /\ unblocks \in 0..MaxUnblocks
    /\ adminBlocks \in 0..MaxAdminBlocks
    /\ epoch \in Nat
    /\ fresh \in [Buckets -> Nat]
    /\ charged \in SUBSET Nat /\ pardoned \in Nat

TypeOK == hold \in BOOLEAN /\ StoreTypes /\ ScorerTypes /\ UnblockTypes /\ CountTypes

Init ==
    /\ hold = FALSE
    /\ token = 0 /\ lastToken = 0
    /\ block = NoBlock /\ blockVal = 0 /\ lastVal = 0
    /\ offenses = 0
    /\ ev = [t \in Tokens |-> [b \in Buckets |-> 0]]
    /\ bucket = 0
    /\ spc = [s \in Scorers |-> "idle"]
    /\ sgen = [s \in Scorers |-> -1]
    /\ sbucket = [s \in Scorers |-> 0]
    /\ admitted = [s \in Scorers |-> 0]
    /\ prev = [s \in Scorers |-> 0]
    /\ upc = [u \in Unblockers |-> "idle"]
    /\ ugen = [u \in Unblockers |-> 0]
    /\ todo = [u \in Unblockers |-> {}]
    /\ events = 0 /\ unblocks = 0 /\ adminBlocks = 0
    /\ epoch = 0
    /\ sepoch = [s \in Scorers |-> 0] /\ bepoch = [s \in Scorers |-> 0]
    /\ fresh = [b \in Buckets |-> 0]
    /\ charged = {} /\ pardoned = 0

-----------------------------------------------------------------------------
(* A scorer: RecordEvent and Block.  A failed store call ends either one.  *)

\* The scorer gives up; its registers are dead and cleared.
Idle(s) ==
    /\ spc' = [spc EXCEPT ![s] = "idle"]
    /\ sgen' = [sgen EXCEPT ![s] = -1]
    /\ sbucket' = [sbucket EXCEPT ![s] = 0]
    /\ admitted' = [admitted EXCEPT ![s] = 0]
    /\ prev' = [prev EXCEPT ![s] = 0]
    /\ sepoch' = [sepoch EXCEPT ![s] = 0]
    /\ bepoch' = [bepoch EXCEPT ![s] = 0]

\* Faulty variant: the division rounds up.
EventBucketRoundedUp == bucket + 1

\* eventBucket of the current time.
EventBucket == bucket

\* RecordEvent reads the generation and picks its counter key.
RecordEvent(s) ==
    /\ spc[s] = "idle" /\ events < MaxEvents
    /\ events' = events + 1
    /\ spc' = [spc EXCEPT ![s] = "event"]
    /\ sgen' = [sgen EXCEPT ![s] = token]
    /\ sbucket' = [sbucket EXCEPT ![s] = EventBucket]
    /\ sepoch' = [sepoch EXCEPT ![s] = epoch]
    /\ UNCHANGED <<storeVars, bucket, admitted, prev, bepoch, unblockVars, unblocks,
                   adminBlocks, ghostVars>>

\* Faulty variant: the counter key is built when it is written.
EventGenerationNow(s) == token

\* eventKey's generation: the counter a writer increments.
EventGeneration(s) == sgen[s]

\* CommitEvent adds one to the counter unless the hold is present, atomically.
CountEvent(s) ==
    /\ ev' = [ev EXCEPT ![EventGeneration(s)][sbucket[s]] = @ + 1]
    /\ fresh' = IF sepoch[s] = epoch THEN [fresh EXCEPT ![sbucket[s]] = @ + 1] ELSE fresh

CommitEvent(s) ==
    /\ spc[s] = "event"
    /\ \/ /\ hold
          /\ Idle(s)
          /\ UNCHANGED <<ev, fresh>>
       \/ /\ ~hold
          /\ CountEvent(s)
          /\ IF ev'[EventGeneration(s)][sbucket[s]] >= Limit
             THEN /\ spc' = [spc EXCEPT ![s] = "token"]
                  /\ UNCHANGED <<sgen, sbucket, admitted, prev, sepoch, bepoch>>
             ELSE Idle(s)
       \/ /\ "lost" \in StoreErrors
          /\ Idle(s)
          /\ UNCHANGED <<ev, fresh>>
       \/ /\ "applied" \in StoreErrors /\ ~hold
          /\ CountEvent(s)
          /\ Idle(s)
    /\ UNCHANGED <<hold, token, lastToken, block, blockVal, lastVal, offenses, bucket,
                   unblockVars, boundVars, epoch, charged, pardoned>>

\* recordEvents' EventInstantBlock goes to Block without counting.
InstantBlock(s) ==
    /\ spc[s] = "idle" /\ events < MaxEvents
    /\ events' = events + 1
    /\ spc' = [spc EXCEPT ![s] = "token"]
    /\ sepoch' = [sepoch EXCEPT ![s] = epoch]
    /\ UNCHANGED <<storeVars, bucket, sgen, sbucket, admitted, prev, bepoch,
                   unblockVars, unblocks, adminBlocks, ghostVars>>

\* Block reads the generation it is admitted under ...
BlockReadToken(s) ==
    /\ spc[s] = "token"
    /\ \/ /\ spc' = [spc EXCEPT ![s] = "prev"]
          /\ admitted' = [admitted EXCEPT ![s] = token]
          /\ bepoch' = [bepoch EXCEPT ![s] = epoch]
          /\ UNCHANGED <<sgen, sbucket, prev, sepoch>>
       \/ StoreErrors # {} /\ Idle(s)
    /\ UNCHANGED <<storeVars, bucket, unblockVars, boundVars, ghostVars>>

\* ... then the block it would replace ...
BlockReadPrev(s) ==
    /\ spc[s] = "prev"
    /\ \/ /\ spc' = [spc EXCEPT ![s] = "commit"]
          /\ prev' = [prev EXCEPT ![s] = blockVal]
          /\ UNCHANGED <<sgen, sbucket, admitted, sepoch, bepoch>>
       \/ StoreErrors # {} /\ Idle(s)
    /\ UNCHANGED <<storeVars, bucket, unblockVars, boundVars, ghostVars>>

\* Faulty variant: only the hold is trusted to stop a stale writer.
CommitIgnoresGeneration(s) == ~hold /\ blockVal = prev[s]

\* Store.CommitBlock's three comparisons.
CommitAllowed(s) == ~hold /\ token = admitted[s] /\ blockVal = prev[s]

\* Store.CommitBlock's writes: the offense and the block, together.
WriteBlock(s) ==
    /\ offenses' = offenses + 1
    /\ lastVal' = lastVal + 1
    /\ blockVal' = lastVal + 1
    /\ block' = [by |-> IF sgen[s] = -1 THEN "instant" ELSE "threshold",
                 evidence |-> sepoch[s], decision |-> bepoch[s]]
    /\ charged' = charged \cup {bepoch[s]}

\* ... and commits.  A refused or failed commit changes nothing.
BlockCommit(s) ==
    /\ spc[s] = "commit"
    /\ \/ CommitAllowed(s) /\ WriteBlock(s)
       \/ /\ ~CommitAllowed(s) \/ "lost" \in StoreErrors
          /\ UNCHANGED <<block, blockVal, lastVal, offenses, charged>>
    /\ Idle(s)
    /\ UNCHANGED <<hold, token, lastToken, ev, bucket, unblockVars, boundVars,
                   epoch, fresh, pardoned>>

-----------------------------------------------------------------------------
(* An operator: Engine.UnblockIP and Engine.BlockIP.                       *)

Later(u, step) == upc' = [upc EXCEPT ![u] = step]

\* UnblockIP reads the generation whose counters it may reclaim; where that
\* fails it reclaims none.
UnblockIP(u) ==
    /\ upc[u] = "idle" /\ unblocks < MaxUnblocks
    /\ unblocks' = unblocks + 1
    /\ Later(u, "hold")
    /\ ugen' = [ugen EXCEPT ![u] = token]
    /\ \/ todo' = [todo EXCEPT ![u] = {b \in Buckets : bucket - 1 <= b /\ b <= bucket + 1}]
       \/ StoreErrors # {} /\ todo' = [todo EXCEPT ![u] = {}]
    /\ UNCHANGED <<storeVars, bucket, scorerVars, events, adminBlocks, ghostVars>>

\* HoldUnblock writes the hold first ...
HoldUnblockHold(u) ==
    /\ upc[u] = "hold"
    /\ \/ hold' = TRUE /\ Later(u, "gen")
       \/ "applied" \in StoreErrors /\ hold' = TRUE /\ Later(u, "reset")
       \/ StoreErrors # {} /\ Later(u, "reset") /\ UNCHANGED hold
    /\ UNCHANGED <<token, lastToken, block, blockVal, lastVal, offenses, ev, bucket,
                   scorerVars, ugen, todo, boundVars, ghostVars>>

\* unblockGenValue: a value no other unblock has written.
NewGeneration ==
    /\ lastToken < MaxGenerations
    /\ lastToken' = lastToken + 1 /\ token' = lastToken + 1

\* ... and a fresh generation second.
HoldUnblockGen(u) ==
    /\ upc[u] = "gen"
    /\ Later(u, "reset")
    /\ \/ NewGeneration
       \/ StoreErrors # {} /\ UNCHANGED <<token, lastToken>>
    /\ UNCHANGED <<hold, block, blockVal, lastVal, offenses, ev, bucket, scorerVars,
                   ugen, todo, boundVars, ghostVars>>

\* ResetEventCounters deletes three buckets of the old generation, best effort.
ResetEventCounter(u) ==
    /\ upc[u] = "reset"
    /\ \/ \E b \in todo[u] :
             /\ todo' = [todo EXCEPT ![u] = @ \ {b}]
             /\ \/ ev' = [ev EXCEPT ![ugen[u]][b] = 0]
                \/ StoreErrors # {} /\ UNCHANGED ev
             /\ UNCHANGED upc
       \/ /\ todo[u] = {}
          /\ Later(u, "commit")
          /\ UNCHANGED <<ev, todo>>
    /\ UNCHANGED <<hold, token, lastToken, block, blockVal, lastVal, offenses, bucket,
                   scorerVars, ugen, boundVars, ghostVars>>

\* Store.CommitUnblock: a fresh hold and generation, no block, and no offenses
\* where the operator resets the backoff, atomically.
Pardon(reset) ==
    /\ hold' = TRUE
    /\ NewGeneration
    /\ block' = NoBlock /\ blockVal' = 0
    /\ offenses' = IF reset THEN 0 ELSE offenses
    /\ epoch' = epoch + 1
    /\ fresh' = [b \in Buckets |-> 0]
    /\ charged' = IF reset THEN {} ELSE charged
    /\ pardoned' = IF reset THEN epoch + 1 ELSE pardoned

CommitUnblock(u) ==
    /\ upc[u] = "commit"
    /\ Later(u, "idle")
    /\ ugen' = [ugen EXCEPT ![u] = 0]
    /\ \/ \E reset \in BOOLEAN : Pardon(reset)
       \/ /\ "lost" \in StoreErrors
          /\ UNCHANGED <<hold, token, lastToken, block, blockVal, offenses, ghostVars>>
    /\ UNCHANGED <<lastVal, ev, bucket, scorerVars, todo, boundVars>>

\* BlockIP is a plain Set, gated by nothing.
BlockIP ==
    /\ adminBlocks < MaxAdminBlocks
    /\ adminBlocks' = adminBlocks + 1
    /\ lastVal' = lastVal + 1
    /\ blockVal' = lastVal + 1
    /\ block' = [by |-> "admin", evidence |-> epoch, decision |-> epoch]
    /\ UNCHANGED <<hold, token, lastToken, offenses, ev, bucket, scorerVars, unblockVars,
                   events, unblocks, ghostVars>>

-----------------------------------------------------------------------------
(* Time: what the store's TTLs take away.                                  *)

\* unblockHoldWindow ends.  Where it outlives a request, none that was admitted
\* before the last unblock is still running.
HoldExpires ==
    /\ hold
    /\ HoldCoversRequests => \A s \in Scorers : spc[s] # "idle" => sepoch[s] = epoch
    /\ hold' = FALSE
    /\ UNCHANGED <<token, lastToken, block, blockVal, lastVal, offenses, ev, bucket,
                   scorerVars, unblockVars, boundVars, ghostVars>>

\* unblockGenRetention ends: a day after the last unblock wrote it, so nothing of
\* that time is in flight.  Counters of other generations are older than that;
\* they are gone too unless their window is longer than the retention.
GenerationExpires ==
    /\ token # 0 /\ ~hold
    /\ \A s \in Scorers : spc[s] = "idle"
    /\ \A u \in Unblockers : upc[u] = "idle"
    /\ token' = 0
    /\ ev' = [t \in Tokens |-> IF t = token \/ LongWindows THEN ev[t]
                               ELSE [b \in Buckets |-> 0]]
    /\ UNCHANGED <<hold, lastToken, block, blockVal, lastVal, offenses, bucket,
                   scorerVars, unblockVars, boundVars, ghostVars>>

BlockExpires ==
    /\ blockVal # 0
    /\ block' = NoBlock /\ blockVal' = 0
    /\ UNCHANGED <<hold, token, lastToken, lastVal, offenses, ev, bucket, scorerVars,
                   unblockVars, boundVars, ghostVars>>

OffensesExpire ==
    /\ offenses > 0
    /\ offenses' = 0 /\ charged' = {}
    /\ UNCHANGED <<hold, token, lastToken, block, blockVal, lastVal, ev, bucket,
                   scorerVars, unblockVars, boundVars, epoch, fresh, pardoned>>

NextBucket ==
    /\ bucket < MaxBucket
    /\ bucket' = bucket + 1
    /\ UNCHANGED <<storeVars, scorerVars, unblockVars, boundVars, ghostVars>>

Score(s) ==
    \/ RecordEvent(s) \/ CommitEvent(s) \/ InstantBlock(s)
    \/ BlockReadToken(s) \/ BlockReadPrev(s) \/ BlockCommit(s)

Unblock(u) ==
    \/ UnblockIP(u) \/ HoldUnblockHold(u) \/ HoldUnblockGen(u)
    \/ ResetEventCounter(u) \/ CommitUnblock(u)

Next ==
    \/ \E s \in Scorers : Score(s)
    \/ \E u \in Unblockers : Unblock(u)
    \/ BlockIP
    \/ HoldExpires \/ GenerationExpires \/ BlockExpires \/ OffensesExpire \/ NextBucket

Spec == Init /\ [][Next]_vars

-----------------------------------------------------------------------------
(* Properties                                                              *)

(* An unblock is a boundary: an automatic block in the store was admitted  *)
(* after the last unblock committed, whatever was in flight when it did,   *)
(* and after an unblock that reset the backoff no offense of an earlier    *)
(* decision is on the ladder.                                              *)
UnblockSticks ==
    /\ block.by \in {"threshold", "instant"} => block.decision = epoch
    /\ \A e \in charged : e >= pardoned

(* The counters a scorer reads next hold only events admitted since the    *)
(* last unblock: a client that was let go starts from zero, although late  *)
(* increments and counters that could not be deleted are still around.     *)
NoStaleEvidence ==
    \A b \in Buckets : ev[token][b] <= fresh[b]

(* A threshold block rests on evidence of its own epoch: an event that was *)
(* being scored when the operator unblocked cannot block the client again. *)
(* True where the hold outlives every request (HoldCoversRequests); the    *)
(* code's two seconds do not bound a request that stalls.                  *)
ThresholdBlockIsFresh ==
    block.by = "threshold" => block.evidence = epoch
=============================================================================

----------------------------- MODULE Challenge -----------------------------
(***************************************************************************)
(* Proof-of-work challenges: issue and redeem (core/pow/challenge.go,      *)
(* stateless_challenge.go, tokencache.go; the verifier slots of            *)
(* transport/http/server.go).                                              *)
(*                                                                         *)
(* Replicas whose clocks differ share a store.  A stateful challenge is a  *)
(* record there, spent by compare-and-swap; a stateless one carries its    *)
(* issue time and is spent by creating a marker, or, when the store fails, *)
(* by a claim in the replica's own cache.  Every store call, cache access  *)
(* and clock reading is a step.                                            *)
(*                                                                         *)
(* The escalation counters that issue bumps and redeem forgets are keys of *)
(* CounterCache.  Signatures, bindings to a host and the proof itself are  *)
(* verdicts; a refusal that changes nothing is no step.                    *)
(***************************************************************************)
EXTENDS Integers, FiniteSets

CONSTANTS
    Replicas, Threads, Challenges,
    Policy,         \* how each challenge may be issued: kind, no-script fallback, algorithm
    Offset,         \* a replica's clock less the store's
    Drift,          \* no two clocks differ by more
    MaxStall,       \* a redemption takes no longer
    TTL,            \* challenge_ttl
    Skew,           \* statelessSkew
    NoJSMinDelay,
    Minute,         \* the marker's lifetime when nothing is left of it
    SpentCap,       \* maxCacheEntries
    MaxConcurrent,  \* argon2_verifier.max_concurrent
    StoreErrors,    \* a failing call is "lost" or "applied"
    MaxTime, LastIssue,     \* bound the model
    None

Policies == [kind : {"stateful", "stateless"}, nojs : BOOLEAN, alg : {"sha256", "argon2id"}]

ASSUME ChallengeAssumption ==
    /\ Policy \in [Challenges -> SUBSET Policies]
    /\ Offset \in [Replicas -> Nat]
    /\ Drift \in Nat /\ MaxStall \in Nat /\ TTL \in Nat \ {0} /\ Skew \in Nat
    /\ NoJSMinDelay \in Nat /\ Minute \in Nat \ {0} /\ MaxTime \in Nat /\ LastIssue \in Nat
    /\ SpentCap \in Nat \ {0} /\ MaxConcurrent \in Nat
    /\ IsFiniteSet(Threads) /\ IsFiniteSet(Challenges)
    /\ None \notin Replicas \cup Challenges
    /\ \A p, q \in Replicas : Offset[p] - Offset[q] <= Drift

\* What the thirty seconds of statelessSkew have to cover.
ASSUME SkewAssumption == Drift + MaxStall < Skew

VARIABLES
    now,        \* the store's clock
    chal,       \* the challenges handed out
    entry,      \* their records or spent markers in the store
    spent,      \* Manager.spent of each replica: expiry, 0 where there is none
    inflight,   \* Server.argonInflight of each replica
    pc, try,    \* the redemptions in progress
    spends,     \* ghost: how often the store has accepted a challenge
    failOpen,   \* ghost: tokens a replica minted on its own claim
    claimed,    \* ghost: challenges somebody has claimed anywhere
    wronged     \* ghost: challenges called gone that were neither claimed nor late

storeVars == <<entry, spends>>
localVars == <<spent, failOpen>>
threadVars == <<pc, try, inflight>>
ghostVars == <<claimed, wronged>>
vars == <<now, chal, storeVars, localVars, threadVars, ghostVars>>

Unissued == [kind |-> "none", issued |-> 0, at |-> 0, nojs |-> FALSE, alg |-> "sha256"]
NoTry == [c |-> None, p |-> None, read |-> 0, at |-> 0, moved |-> FALSE, slot |-> FALSE]
NoEntry == [state |-> "none", exp |-> 0]

Init ==
    /\ now = 0
    /\ chal = [c \in Challenges |-> Unissued]
    /\ entry = [c \in Challenges |-> NoEntry]
    /\ spent = [p \in Replicas |-> [c \in Challenges |-> 0]]
    /\ inflight = [p \in Replicas |-> 0]
    /\ pc = [t \in Threads |-> "idle"]
    /\ try = [t \in Threads |-> NoTry]
    /\ spends = [c \in Challenges |-> 0]
    /\ failOpen = [p \in Replicas |-> [c \in Challenges |-> 0]]
    /\ claimed = {} /\ wronged = {}

Clock(p) == now + Offset[p]
Live(c) == entry[c].state # "none" /\ now < entry[c].exp

-----------------------------------------------------------------------------
(* Issue                                                                   *)

Issued(c, p, kind) ==
    \E g \in Policy[c] :
        /\ now <= LastIssue
        /\ g.kind = kind
        /\ chal' = [chal EXCEPT ![c] = [kind |-> kind, issued |-> Clock(p), at |-> now,
                                        nojs |-> g.nojs, alg |-> g.alg]]

\* IssueWithSpec: the record is created with the challenge's lifetime.
IssueStateful(c, p) ==
    /\ chal[c].kind = "none"
    /\ Issued(c, p, "stateful")
    /\ entry' = [entry EXCEPT ![c] = [state |-> "issued", exp |-> now + TTL]]
    /\ UNCHANGED <<now, spends, localVars, threadVars, ghostVars>>

\* IssueStatelessWithSpec, in attack mode or when the record could not be written
\* (a record written all the same belongs to an ID nobody was given).
IssueStateless(c, p) ==
    /\ chal[c].kind = "none"
    /\ Issued(c, p, "stateless")
    /\ UNCHANGED <<now, storeVars, localVars, threadVars, ghostVars>>

-----------------------------------------------------------------------------
(* Redeem                                                                  *)

\* tokenCache.get.
Cached(p, c, read) == read < spent[p][c]

CacheSize(p) == Cardinality({c \in Challenges : spent[p][c] > 0})

CacheFull(p) == CacheSize(p) >= SpentCap

\* Faulty variant: a live claim is overwritten.
ClaimableAlways(p, c, read) == TRUE

Claimable(p, c, read) == ~Cached(p, c, read)

\* tokenCache.claim: a full cache is cleared, and the tokens it remembered with it.
Claim(p, c, exp, mints) ==
    /\ spent' = [spent EXCEPT ![p] =
          [d \in Challenges |-> IF d = c THEN exp ELSE IF CacheFull(p) THEN 0 ELSE @[d]]]
    /\ failOpen' = [failOpen EXCEPT ![p] =
          [d \in Challenges |-> IF d = c THEN @[d] + mints ELSE IF CacheFull(p) THEN 0 ELSE @[d]]]
    /\ claimed' = claimed \cup {c}

\* ErrChallengeUnknown.
InTime(c) == now - chal[c].at + Drift < TTL
Gone(c) ==
    /\ wronged' = IF c \notin claimed /\ InTime(c) THEN wronged \cup {c} ELSE wronged
    /\ UNCHANGED claimed

Step(t, place) == pc' = [pc EXCEPT ![t] = place] /\ UNCHANGED <<try, inflight>>

\* Redeem returns; ReleaseArgon is deferred.
Finish(t) ==
    /\ pc' = [pc EXCEPT ![t] = "idle"]
    /\ try' = [try EXCEPT ![t] = NoTry]
    /\ inflight' = IF try[t].slot THEN [inflight EXCEPT ![try[t].p] = @ - 1] ELSE inflight

\* The no-script path asks for a wait instead of a proof, at the address it was
\* issued to.
NoJSAllowed(c, read, moved) ==
    chal[c].nojs /\ ~moved /\ read - chal[c].issued >= NoJSMinDelay

Start(t, p, c, moved, nojs) ==
    /\ nojs => NoJSAllowed(c, Clock(p), moved)
    /\ try' = [try EXCEPT ![t] = [c |-> c, p |-> p, read |-> Clock(p), at |-> now,
                                  moved |-> moved, slot |-> FALSE]]
    /\ pc' = [pc EXCEPT ![t] =
          IF ~nojs /\ chal[c].alg = "argon2id" THEN "acquire"
          ELSE IF chal[c].kind = "stateful" THEN "cas" ELSE "spent"]
    /\ UNCHANGED inflight

\* Redeem reads the record.
RedeemStateful(t, p, c) ==
    /\ pc[t] = "idle" /\ chal[c].kind = "stateful"
    /\ \/ /\ Live(c) /\ entry[c].state = "issued"
          /\ \E moved, nojs \in BOOLEAN : Start(t, p, c, moved, nojs)
          /\ UNCHANGED ghostVars
       \/ /\ ~(Live(c) /\ entry[c].state = "issued")
          /\ Gone(c)
          /\ UNCHANGED threadVars
    /\ UNCHANGED <<now, chal, storeVars, localVars>>

\* Faulty variant: no allowance for an issuer whose clock is ahead.
FreshHere(read, issued) == read - issued <= TTL /\ issued - read <= 0

Fresh(read, issued) == read - issued <= TTL /\ issued - read <= Skew

\* redeemStateless reads the clock once.
RedeemStateless(t, p, c) ==
    /\ pc[t] = "idle" /\ chal[c].kind = "stateless"
    /\ \/ /\ Fresh(Clock(p), chal[c].issued)
          /\ \E moved, nojs \in BOOLEAN : Start(t, p, c, moved, nojs)
          /\ UNCHANGED ghostVars
       \/ /\ ~Fresh(Clock(p), chal[c].issued)
          /\ Gone(c)
          /\ UNCHANGED threadVars
    /\ UNCHANGED <<now, chal, storeVars, localVars>>

\* AcquireArgon takes a slot ...
AcquireArgon(t) ==
    /\ pc[t] = "acquire"
    /\ \/ /\ inflight[try[t].p] < MaxConcurrent
          /\ inflight' = [inflight EXCEPT ![try[t].p] = @ + 1]
          /\ try' = [try EXCEPT ![t].slot = TRUE]
          /\ pc' = [pc EXCEPT ![t] = "verify"]
       \/ inflight[try[t].p] >= MaxConcurrent /\ Finish(t)
    /\ UNCHANGED <<now, chal, storeVars, localVars, ghostVars>>

\* ... and gives it back over the rate limit, or when the proof is wrong.
TurnedAway(t) == Finish(t)

VerifyArgon(t) ==
    /\ pc[t] = "verify"
    /\ \/ TurnedAway(t)
       \/ Step(t, IF chal[try[t].c].kind = "stateful" THEN "cas" ELSE "spent")
    /\ UNCHANGED <<now, chal, storeVars, localVars, ghostVars>>

SpentGet(t) ==
    /\ pc[t] = "spent"
    /\ \/ ~Cached(try[t].p, try[t].c, try[t].read) /\ Step(t, "cas") /\ UNCHANGED ghostVars
       \/ Cached(try[t].p, try[t].c, try[t].read) /\ Finish(t) /\ Gone(try[t].c)
    /\ UNCHANGED <<now, chal, storeVars, localVars>>

\* Faulty variant: the marker lives as long as this replica would accept the challenge.
MarkerTTLHere(read, issued) ==
    LET remaining == TTL - (read - issued) IN IF remaining <= 0 THEN Minute ELSE remaining

MarkerTTL(read, issued) ==
    LET remaining == TTL - (read - issued) + Skew IN IF remaining <= 0 THEN Minute ELSE remaining

\* The store accepts the spend.
Spend(c, ttl) ==
    /\ entry' = [entry EXCEPT ![c] = [state |-> "spent", exp |-> now + ttl]]
    /\ spends' = [spends EXCEPT ![c] = @ + 1]
    /\ claimed' = claimed \cup {c}
    /\ UNCHANGED wronged

\* The swap from the issued bytes; an error is the client's.
CasStateful(t) ==
    LET c == try[t].c IN
    /\ pc[t] = "cas" /\ chal[c].kind = "stateful"
    /\ \/ Live(c) /\ entry[c].state = "issued" /\ Spend(c, TTL)
       \/ ~(Live(c) /\ entry[c].state = "issued") /\ Gone(c) /\ UNCHANGED storeVars
       \/ "lost" \in StoreErrors /\ UNCHANGED <<storeVars, ghostVars>>
    /\ Finish(t)
    /\ UNCHANGED <<now, chal, localVars>>

\* An error of the store: a changed address is refused, others claim locally.
CasFails(t) == IF try[t].moved THEN Finish(t) ELSE Step(t, "local")

\* The marker is created.
CasStateless(t) ==
    LET c == try[t].c
        ttl == MarkerTTL(try[t].read, chal[c].issued)
    IN
    /\ pc[t] = "cas" /\ chal[c].kind = "stateless"
    /\ \/ ~Live(c) /\ Spend(c, ttl) /\ Step(t, "claim")
       \/ Live(c) /\ Gone(c) /\ Finish(t) /\ UNCHANGED storeVars
       \/ "applied" \in StoreErrors /\ ~Live(c) /\ Spend(c, ttl) /\ CasFails(t)
       \/ "lost" \in StoreErrors /\ CasFails(t) /\ UNCHANGED <<storeVars, ghostVars>>
    /\ UNCHANGED <<now, chal, localVars>>

Expiry(t) == try[t].read + MarkerTTL(try[t].read, chal[try[t].c].issued)

\* The token is minted although the store failed.
LocalClaim(t) ==
    LET c == try[t].c IN
    /\ pc[t] = "local"
    /\ \/ Claimable(try[t].p, c, try[t].read) /\ Claim(try[t].p, c, Expiry(t), 1) /\ UNCHANGED wronged
       \/ ~Claimable(try[t].p, c, try[t].read) /\ Gone(c) /\ UNCHANGED localVars
    /\ Finish(t)
    /\ UNCHANGED <<now, chal, storeVars>>

\* After the store's yes the claim's answer is ignored.
SharedClaim(t) ==
    LET c == try[t].c IN
    /\ pc[t] = "claim"
    /\ \/ Claimable(try[t].p, c, try[t].read) /\ Claim(try[t].p, c, Expiry(t), 0)
       \/ ~Claimable(try[t].p, c, try[t].read) /\ UNCHANGED <<localVars, claimed>>
    /\ Finish(t)
    /\ UNCHANGED <<now, chal, storeVars, wronged>>

Redeem(t) ==
    \/ AcquireArgon(t) \/ VerifyArgon(t) \/ SpentGet(t)
    \/ CasStateful(t) \/ CasStateless(t) \/ LocalClaim(t) \/ SharedClaim(t)

-----------------------------------------------------------------------------
(* The environment                                                         *)

\* Time passes; no redemption outlives MaxStall.
Tick ==
    /\ now < MaxTime
    /\ \A t \in Threads : pc[t] # "idle" => now < try[t].at + MaxStall
    /\ now' = now + 1
    /\ UNCHANGED <<chal, storeVars, localVars, threadVars, ghostVars>>

\* A replica restarts: its cache, its slots and its redemptions are gone.
Restart(p) ==
    /\ spent' = [spent EXCEPT ![p] = [c \in Challenges |-> 0]]
    /\ failOpen' = [failOpen EXCEPT ![p] = [c \in Challenges |-> 0]]
    /\ inflight' = [inflight EXCEPT ![p] = 0]
    /\ pc' = [t \in Threads |-> IF try[t].p = p THEN "idle" ELSE pc[t]]
    /\ try' = [t \in Threads |-> IF try[t].p = p THEN NoTry ELSE try[t]]
    /\ UNCHANGED <<now, chal, storeVars, ghostVars>>

Next ==
    \/ \E c \in Challenges, p \in Replicas : IssueStateful(c, p) \/ IssueStateless(c, p)
    \/ \E t \in Threads, p \in Replicas, c \in Challenges :
          RedeemStateful(t, p, c) \/ RedeemStateless(t, p, c)
    \/ \E t \in Threads : Redeem(t)
    \/ Tick
    \/ \E p \in Replicas : Restart(p)

Spec == Init /\ [][Next]_vars

-----------------------------------------------------------------------------
(* Properties                                                              *)

Places == {"idle", "acquire", "verify", "spent", "cas", "local", "claim"}

(* Types, and the bound of the replay cache that claim keeps by clearing   *)
(* it.                                                                     *)
TypeOK ==
    /\ now \in Nat
    /\ chal \in [Challenges -> [kind : {"none", "stateful", "stateless"}, issued : Nat, at : Nat,
                                nojs : BOOLEAN, alg : {"sha256", "argon2id"}]]
    /\ entry \in [Challenges -> [state : {"none", "issued", "spent"}, exp : Nat]]
    /\ spends \in [Challenges -> Nat]
    /\ spent \in [Replicas -> [Challenges -> Nat]]
    /\ failOpen \in [Replicas -> [Challenges -> Nat]]
    /\ inflight \in [Replicas -> Int]
    /\ pc \in [Threads -> Places]
    /\ try \in [Threads -> [c : Challenges \cup {None}, p : Replicas \cup {None}, read : Nat,
                            at : Nat, moved : BOOLEAN, slot : BOOLEAN]]
    /\ claimed \subseteq Challenges /\ wronged \subseteq Challenges
    /\ \A p \in Replicas : CacheSize(p) <= SpentCap

(* The store accepts a challenge at most once, whichever replicas redeem   *)
(* it: neither clock differences nor a redemption that dawdles between its *)
(* freshness check and the swap outlast the marker of an earlier one       *)
(* (Redeem: two redemptions "can never both mint").                        *)
SingleSpend == \A c \in Challenges : spends[c] <= 1

(* During an outage a process mints one token for a challenge at most, as  *)
(* long as its cache is not cleared (tokencache.go: "concurrent/local      *)
(* replays cannot mint repeatedly during an outage").                      *)
FailOpenOnce == \A p \in Replicas, c \in Challenges : failOpen[p][c] <= 1

(* A client that solves in time is not told that its challenge is gone     *)
(* unless somebody claimed it, whichever replica issued it and whichever   *)
(* redeems it.                                                             *)
NoFalseRefusal == wronged = {}

=============================================================================

------------------------------ MODULE Request ------------------------------
(***************************************************************************)
(* A client's visit, from the auth subrequest to the challenge page and    *)
(* the redemption: transport/http/server.go over the pipeline, the         *)
(* escalation counters (core/pow/escalation.go), the Fetch metadata        *)
(* predicates (fetchdest.go, accept.go) and the ring of recent decisions   *)
(* (core/recent.go).                                                       *)
(*                                                                         *)
(* One visit is up to three HTTP requests, and nothing is held between     *)
(* them: the auth hop (Arrive, Admit, then Shed or Begin and Decide), the  *)
(* challenge hop the proxy makes on a 401 (Hop, Issue), and a redemption.  *)
(* Each reads the live configuration and attack posture for itself, and    *)
(* both may change at any point (Reload, Shift).  A proxy may or may not   *)
(* relay the auth hop's verdict to the challenge hop, and may drop client  *)
(* headers on the way there.                                               *)
(*                                                                         *)
(* Other modules keep the state the pipeline looks up: blocks and their    *)
(* mirror (BlockMirror, Scoreboard), spent challenges (Challenge). Here a  *)
(* lookup answers anything those modules allow (Lookups), and the blocks   *)
(* an event may lead to are among the next lookups' answers.               *)
(***************************************************************************)
EXTENDS Pipeline, FiniteSets, TLC

CONSTANTS Visits,      \* visits, each made once
          Clients,
          Fetches,     \* how a request comes: its path, its Fetch metadata, its cookie
          Traits,      \* what the visits' requests may meet in the pipeline
          AllTraits,   \* what any request may
          Configs,     \* the configurations an operator may load: max_inflight, a domain
          Postures, Normal,   \* the attack postures, and the one at start
          Tokens,      \* cookies a client may hold at start
          FreeIssues, EscalationStep,  \* escalationFreeIssues, escalationStep
          MaxBits,     \* no difficulty is above it (32 in the code)
          RingSize,
          MaxReloads, MaxShifts, \* bounds on what goes on around the visits, and on
          MaxResets    \* redemptions and unblocks together

ASSUME RequestAssumption == /\ FreeIssues \in Nat
                            /\ EscalationStep \in Nat \ {0}
                            /\ MaxBits \in Nat
                            /\ RingSize \in Nat \ {0}
                            /\ IsFiniteSet(Visits)
                            /\ Clients # {} /\ Fetches # {} /\ Configs # {}

VARIABLES cfg, posture,           \* live, as each hop reads them
          relays,                 \* the proxy relays the auth hop's verdict
          visit,                  \* visit[v]: where the visit is
          inflight,               \* Server.inflight
          unsolved, framed,       \* the two escalation counters of each client
          issues,                 \* the issuance rate limit's counter
          offers,                 \* challenges a client holds
          cookie,                 \* the token a client holds
          floor,                  \* history: the base configured when it was issued
          ring, added,            \* recent decisions; history: how many were added
          asked,                  \* history: pages a client was due since its last solve
                                  \* or unblock
          farms,                  \* history: asked at each challenge_farm report
          left                    \* what is left of the bounds

clientVars == <<unsolved, framed, issues, offers, cookie, floor, asked, farms>>
vars == <<cfg, posture, relays, visit, inflight, clientVars, ring, added,
          left>>

-----------------------------------------------------------------------------
(* Fetch metadata: which requests can complete a challenge at all.         *)

isSubresourceDest(dest) == dest = "subresource"
isFramedDest(dest)      == dest = "frame"
isDocumentDest(dest)    == dest \in {"document", "fencedframe"} \/ isFramedDest(dest)
isForeignSite(site)     == site = "foreign"

(* The Accept header as the kinds of media range it lists: a present,      *)
(* well-formed one that names no HTML.                                     *)
acceptLooksNonNavigational(accept) ==
  accept # {} /\ accept \cap {"html", "malformed"} = {}

refusalKind(h) ==
  IF isSubresourceDest(h.dest) THEN "subresource_refused"
  ELSE IF ~isDocumentDest(h.dest) /\ ~h.navigate /\ acceptLooksNonNavigational(h.accept)
       THEN "accept_heuristic_refused"
  ELSE "none"

unscorableFrame(h) ==
  h.dest = "fencedframe" \/ (isFramedDest(h.dest) /\ isForeignSite(h.site))

(* A location of the proxy that clears what the client sent.               *)
Stripped == [dest |-> "absent", site |-> "absent", navigate |-> FALSE, accept |-> {}]

-----------------------------------------------------------------------------
(* The ring of recent decisions: overwrite the oldest.                     *)

newRecentRing == [buf |-> [i \in 0 .. RingSize - 1 |-> 0], next |-> 0, count |-> 0,
                  full |-> FALSE]

\* Mutant: full as soon as the last slot is written.
RingAddEarly(g, row) ==
  [buf   |-> [g.buf EXCEPT ![g.next] = row],
   next  |-> (g.next + 1) % RingSize,
   count |-> Min2(g.count + 1, RingSize),
   full  |-> g.full \/ g.count + 1 = RingSize]

RingAdd(g, row) ==
  [buf   |-> [g.buf EXCEPT ![g.next] = row],
   next  |-> IF g.next + 1 = RingSize THEN 0 ELSE g.next + 1,
   count |-> IF g.count = RingSize THEN g.count ELSE g.count + 1,
   full  |-> g.full \/ g.count = RingSize]

RingSnapshot(g, limit) ==
  LET n == IF limit <= 0 \/ limit > g.count THEN g.count ELSE limit
  IN [i \in 1 .. n |-> g.buf[(g.next - i + RingSize) % RingSize]]

(* One row more. A row is known by its place in the order of additions.    *)
Recorded == /\ ring' = RingAdd(ring, added + 1)
            /\ added' = added + 1
Unrecorded == UNCHANGED <<ring, added>>

-----------------------------------------------------------------------------
(* A token carries the algorithm and, for SHA-256, the bits it was solved  *)
(* at.                                                                     *)
Token(kind, bits) == [kind |-> kind, bits |-> bits]
NoCookie == Token("absent", 0)
Cookies  == [kind : {"signed"}, bits : 0 .. MaxBits]
              \cup {Token(kind, 0) : kind \in {"absent", "invalid", "argon"}}

(* What the stages find when they look the client up. Blocks: in the       *)
(* mirror, in the store, and whether a miss of the mirror is final, in     *)
(* which case it misses nothing (CompleteMissesNothing of BlockMirror). An *)
(* address that does not parse is blocked in the store, under its own      *)
(* text, but no mirror has it.                                             *)
(* The crawler identity: cached here, or what the store and DNS answer.    *)
Blocks(t) ==
  IF ~t.parseable THEN [mirrored : {FALSE}, stored : BOOLEAN, readThrough : BOOLEAN]
  ELSE {b \in [mirrored : BOOLEAN, stored : BOOLEAN, readThrough : BOOLEAN] :
          ~b.readThrough /\ b.stored => b.mirrored}

Identities(t) ==
  IF ~ClaimsBot(t) \/ ~t.parseable THEN [cached : {FALSE}, identity : {"error"}]
  ELSE [cached : BOOLEAN, identity : {"confirmed", "none", "error"}]

Lookups(t, scope, state) ==
  {[mirrored |-> b.mirrored, stored |-> b.stored, readThrough |-> b.readThrough,
    cached |-> i.cached, identity |-> i.identity, cfg |-> scope, posture |-> state,
    storeUp |-> up] : b \in Blocks(t), i \in Identities(t), up \in BOOLEAN}

(* The scope a path has in a configuration, looked up once here for all of *)
(* them, and the scopes there are.                                         *)
Paths == {f.path : f \in Fetches}
ConfigFor == [config \in Configs |-> [path \in Paths |-> ForPath(config.domain, path)]]

AllScopes == UNION {Scopes(config.domain) : config \in Configs}

(* What the two evaluations may decide about a request with this cookie,   *)
(* one that can or cannot complete a challenge. No step before them looks  *)
(* at what else the request meets, so that is chosen here.                 *)
With(t, token) ==
  [parseable |-> t.parseable, allowed |-> t.allowed, header |-> t.header, denied |-> t.denied,
   bot |-> t.bot, feed |-> t.feed, geo |-> t.geo, trap |-> t.trap, rules |-> t.rules,
   score |-> t.score, cookie |-> token]

Verdicts ==
  [scope \in AllScopes |-> [state \in Postures |-> [token \in Cookies |->
    [unchallengeable \in BOOLEAN |->
       UNION {{Evaluate(With(t, token), e, unchallengeable) : e \in Lookups(t, scope, state)} :
                t \in Traits}]]]]

ShedVerdicts ==
  [scope \in AllScopes |-> [state \in Postures |-> [token \in Cookies |->
     UNION {{ShedDecision(With(t, token), e) : e \in Lookups(t, scope, state)} : t \in Traits}]]]

(* What the overload path may pass although the full evaluation decides d. *)
Excused(r, e, d) ==
  \/ powExempt(r, e) /\ d.reason = "anomaly"
  \/ ~r.parseable /\ e.stored /\ d.reason = "behaviour_block"

(* The overload path passes no other request that the evaluation does not. *)
NoBypass ==
  [scope \in AllScopes |-> [state \in Postures |-> [token \in Cookies |->
    [unchallengeable \in BOOLEAN |->
       \A t \in AllTraits : \A e \in Lookups(t, scope, state) :
         LET r == With(t, token)
             d == Evaluate(r, e, unchallengeable)
         IN ShedDecision(r, e) = "pass" => d.action = "allow" \/ Excused(r, e, d)]]]]

(* What is known of the inputs. Scores are in range; a cookie names its    *)
(* bits; the configuration passed Validate (difficulties in range, the     *)
(* base no higher than the maximum, max_inflight not negative), and the    *)
(* overlays of a domain come from a map by their keys.                     *)
ASSUME InputsAreTyped ==
  /\ \A t \in Traits : t.score \in 0 .. FullScore
  /\ Paths \subseteq Seq(STRING)
  /\ Tokens \subseteq Cookies
  /\ Normal \in Postures
  /\ \A p \in Postures : p.extra \in Nat /\ p.cap \in 0 .. MaxBits
ASSUME ConfigsAreValid ==
  /\ \A config \in Configs : config.bound \in Nat
  /\ \A scope \in AllScopes : /\ scope.base \in Nat /\ scope.max \in scope.base .. MaxBits
                              /\ scope.challengeAt \in Nat
  /\ \A config \in Configs : Keyed(config.domain.overlays)

(* Fields a visit does not use have a fixed value.                         *)
AnyClient  == CHOOSE c \in Clients : TRUE
AnyScope   == CHOOSE s \in AllScopes : TRUE
AnyPath    == CHOOSE p \in Paths : TRUE

Fresh == [pc |-> "idle", client |-> AnyClient, path |-> AnyPath, head |-> Stripped,
          cookie |-> NoCookie, floor |-> 0, current |-> 0, bound |-> 0, before |-> {},
          snap |-> AnyScope, posture |-> Normal, bits |-> 0, relay |-> "absent",
          recorded |-> "none", reason |-> "none", served |-> "none"]

Init ==
  /\ cfg \in Configs /\ posture = Normal
  /\ relays \in BOOLEAN
  /\ visit = [v \in Visits |-> Fresh]
  /\ inflight = 0
  /\ unsolved = [c \in Clients |-> 0] /\ framed = [c \in Clients |-> 0]
  /\ issues = [c \in Clients |-> 0]
  /\ offers = [c \in Clients |-> {}]
  /\ cookie \in [Clients -> Tokens] /\ floor = [c \in Clients |-> cookie[c].bits]
  /\ ring = newRecentRing /\ added = 0
  /\ asked = [c \in Clients |-> 0] /\ farms = {}
  /\ left = [reloads |-> MaxReloads, shifts |-> MaxShifts, resets |-> MaxResets]

Step(v, rec) == visit' = [visit EXCEPT ![v] = rec]

(* The visit is over; what was served is kept.                             *)
Closed(served) == [Fresh EXCEPT !.pc = "done", !.served = served]

-----------------------------------------------------------------------------
(* handleAuth: count, compare with the live bound, evaluate or shed.       *)

InFlight == {v \in Visits : visit[v].pc \in {"admit", "begin", "stages"}}
Evaluating == {v \in Visits : visit[v].pc \in {"begin", "stages"}}

\* Mutant: evaluations are counted only while there is a bound.
EnteringIfBounded(n) == IF cfg.bound > 0 THEN n + 1 ELSE n

Entering(n) == n + 1

Arrive(v) ==
  /\ visit[v].pc = "idle"
  /\ \E c \in Clients, f \in Fetches :
       Step(v, [visit[v] EXCEPT !.pc = "admit", !.client = c, !.path = f.path, !.head = f.head,
                  !.cookie = IF f.stale THEN Token("invalid", 0) ELSE cookie[c],
                  !.floor = floor[c],
                  !.current = Entering(inflight), !.before = InFlight])
  /\ inflight' = Entering(inflight)
  /\ UNCHANGED <<cfg, posture, relays, clientVars, ring, added, left>>

Admit(v) ==
  /\ visit[v].pc = "admit"
  /\ LET over == cfg.bound > 0 /\ visit[v].current > cfg.bound IN
       /\ Step(v, IF over THEN [visit[v] EXCEPT !.pc = "shed"]
                  ELSE [visit[v] EXCEPT !.pc = "begin", !.bound = cfg.bound])
       /\ inflight' = IF over THEN inflight - 1 ELSE inflight
  /\ UNCHANGED <<cfg, posture, relays, clientVars, ring, added, left>>

ShedAnswer(verdict) ==
  CASE verdict = "pass" -> "allow" [] verdict = "deny" -> "deny" [] verdict = "reject" -> "shed"

(* The scope of the visit's path in the configuration now in force.        *)
Live(v) == ConfigFor[cfg][visit[v].path]

(* Nothing is recorded and no event is scored on this path.                *)
Shed(v) ==
  /\ visit[v].pc = "shed"
  /\ \E verdict \in ShedVerdicts[Live(v)][posture][visit[v].cookie] :
       Step(v, Closed(ShedAnswer(verdict)))
  /\ UNCHANGED <<cfg, posture, relays, inflight, clientVars, ring, added, left>>

(* Evaluate takes its configuration and posture once.                      *)
Unchallengeable(v) == refusalKind(visit[v].head) # "none"

Begin(v) ==
  /\ visit[v].pc = "begin"
  /\ Step(v, [visit[v] EXCEPT !.pc = "stages", !.snap = Live(v), !.posture = posture])
  /\ UNCHANGED <<cfg, posture, relays, inflight, clientVars, ring, added, left>>

(* The difficulty and the refusal the answer carries, where the proxy      *)
(* keeps them.                                                             *)
Relay(v, d) ==
  [visit[v] EXCEPT !.pc = "hop", !.cookie = NoCookie, !.floor = 0, !.snap = AnyScope,
                   !.posture = Normal, !.current = 0, !.bound = 0, !.before = {},
                   !.recorded = d.action, !.reason = d.reason,
                   !.bits = IF d.action = "challenge" THEN d.bits ELSE 0,
                   !.relay = IF ~relays THEN "absent"
                             ELSE IF d.action = "refuse" THEN refusalKind(visit[v].head)
                             ELSE "none"]

Decide(v) ==
  /\ visit[v].pc = "stages"
  /\ \E d \in Verdicts[visit[v].snap][visit[v].posture][visit[v].cookie][Unchallengeable(v)] :
       /\ IF d.action = "allow" THEN Unrecorded ELSE Recorded
       /\ Step(v, IF d.action \in {"challenge", "refuse"} THEN Relay(v, d)
                  ELSE Closed(d.action))
  /\ inflight' = inflight - 1
  /\ UNCHANGED <<cfg, posture, relays, clientVars, left>>

-----------------------------------------------------------------------------
(* handleChallenge: first whether to serve a page at all.                  *)

(* The relayed verdict is obeyed; without one the hop decides by itself.   *)
RefusalLocal(v, h) == IF Live(v).refuse THEN refusalKind(h) ELSE "none"

\* Mutant: the challenge hop always decides for itself.
RefusalAsked(v, h) == RefusalLocal(v, h)

Refusal(v, h) ==
  IF visit[v].relay # "absent" THEN visit[v].relay ELSE RefusalLocal(v, h)

rateLimitExceeded(v, count) == count > Live(v).limit

Hop(v) ==
  /\ visit[v].pc = "hop"
  /\ \E h \in {visit[v].head, Stripped} :
       LET c == visit[v].client
           refused == Refusal(v, h) # "none"
           limited == rateLimitExceeded(v, issues[c] + 1)
       IN /\ Step(v, IF refused THEN Closed("refused")
                     ELSE IF ~Live(v).pow THEN Closed("unavailable")
                     ELSE IF limited THEN Closed("limited")
                     ELSE [visit[v] EXCEPT !.pc = "issue", !.head = h, !.snap = Live(v)])
          /\ issues' = IF refused \/ ~Live(v).pow THEN issues
                       ELSE [issues EXCEPT ![c] = @ + 1]
  /\ UNCHANGED <<cfg, posture, relays, inflight, unsolved, framed, offers,
                 cookie, floor, asked, farms, ring, added, left>>

(* Escalation: extra bits for a client that keeps asking and never solves. *)
ExtraBits(n) == IF n <= FreeIssues THEN 0 ELSE (n - FreeIssues) \div EscalationStep

RequestedBits(v, window) ==
  IF visit[v].bits = 0 THEN window.base
  ELSE Min2(Max2(visit[v].bits, window.base), window.max)

FarmDetected(window, extra) == extra > 0 /\ window.base + extra >= window.max

(* Then the page: the window under the live posture, the escalation and    *)
(* the challenge itself, stateless under attack or when the store fails.   *)
\* Mutant: framed navigations are counted with the others.
ScoredAlways(h) == TRUE

Scored(h) == ~unscorableFrame(h)

Issue(v) ==
  /\ visit[v].pc = "issue"
  /\ \E up, keys \in BOOLEAN :
       LET c      == visit[v].client
           scored == Scored(visit[v].head)
           window == EffectiveBits(posture, visit[v].snap.base, visit[v].snap.max)
           n      == (IF scored THEN unsolved[c] ELSE framed[c]) + 1
           extra  == ExtraBits(n)
           farm   == scored /\ FarmDetected(window, extra)
           bits   == Min2(RequestedBits(v, window) + extra, window.max)
           solved == IF visit[v].snap.argon THEN Token("argon", 0) ELSE Token("signed", bits)
           issued == keys \/ (up /\ ~posture.stateless)
       IN /\ unsolved' = IF scored THEN [unsolved EXCEPT ![c] = n] ELSE unsolved
          /\ framed' = IF scored THEN framed ELSE [framed EXCEPT ![c] = n]
          /\ asked' = IF unscorableFrame(visit[v].head) THEN asked
                      ELSE [asked EXCEPT ![c] = @ + 1]
          /\ farms' = IF farm THEN farms \cup {asked'[c]} ELSE farms
          /\ offers' = IF issued
                       THEN [offers EXCEPT ![c] = @ \cup {[by |-> v, token |-> solved,
                                                          floor |-> visit[v].snap.base]}]
                       ELSE offers
          /\ Step(v, Closed(IF issued THEN "issued" ELSE "unavailable"))
  /\ UNCHANGED <<cfg, posture, relays, inflight, issues, cookie, floor,
                 ring, added, left>>

-----------------------------------------------------------------------------
(* redeem: a client posts the solution of a challenge it holds. The path   *)
(* is not in the post, so any scope with proof of work will do.            *)

ForgetEscalation(c) == /\ unsolved' = [unsolved EXCEPT ![c] = 0]
                       /\ framed' = [framed EXCEPT ![c] = 0]
                       /\ asked' = [asked EXCEPT ![c] = 0]

Redeeming(c, o) == /\ o \in offers[c] /\ left.resets > 0 /\ PoWAnywhere(cfg.domain)
                   /\ left' = [left EXCEPT !.resets = @ - 1]

(* Solved; or consumed without a token, because the address is not the one *)
(* the challenge was issued to or because the token cannot be signed.      *)
RedeemSolved(c, o) ==
  /\ Redeeming(c, o)
  /\ \/ UNCHANGED <<cookie, floor>>
     \/ /\ cookie' = [cookie EXCEPT ![c] = o.token]
        /\ floor' = [floor EXCEPT ![c] = o.floor]
  /\ offers' = [offers EXCEPT ![c] = @ \ {o}]
  /\ ForgetEscalation(c)
  /\ Recorded
  /\ UNCHANGED <<cfg, posture, relays, visit, inflight, issues, farms>>

(* Rejected, or Guardian failed: a row in the ring, and the counters stay. *)
RedeemFailed(c, o) ==
  /\ Redeeming(c, o)
  /\ \E expired \in BOOLEAN :
       offers' = IF expired THEN [offers EXCEPT ![c] = @ \ {o}] ELSE offers
  /\ Recorded
  /\ UNCHANGED <<cfg, posture, relays, visit, inflight, unsolved,
                 framed, issues, cookie, floor, asked, farms>>

(* An operator unblocks the client: each counter is deleted for itself,    *)
(* and the operator is told when one of them could not be.                 *)
ResetEscalation(c) ==
  /\ left.resets > 0 /\ unsolved[c] + framed[c] > 0
  /\ left' = [left EXCEPT !.resets = @ - 1]
  /\ \E failed \in SUBSET {"unsolved", "framed"} :
       /\ unsolved' = IF "unsolved" \in failed THEN unsolved ELSE [unsolved EXCEPT ![c] = 0]
       /\ framed' = IF "framed" \in failed THEN framed ELSE [framed EXCEPT ![c] = 0]
       /\ asked' = IF failed = {} THEN [asked EXCEPT ![c] = 0] ELSE asked
  /\ UNCHANGED <<cfg, posture, relays, visit, inflight, issues, offers, cookie, floor,
                 farms, ring, added>>

-----------------------------------------------------------------------------
(* What goes on around the visits.                                         *)

Reload ==
  /\ left.reloads > 0
  /\ left' = [left EXCEPT !.reloads = @ - 1]
  /\ cfg' \in Configs \ {cfg}
  /\ UNCHANGED <<posture, relays, visit, inflight, clientVars, ring, added>>

Shift ==
  /\ left.shifts > 0
  /\ left' = [left EXCEPT !.shifts = @ - 1]
  /\ posture' \in Postures \ {posture}
  /\ UNCHANGED <<cfg, relays, visit, inflight, clientVars, ring, added>>

(* The escalation counters live for a challenge TTL, the rate limit's for  *)
(* its window.                                                             *)
Lapse(c) ==
  /\ unsolved[c] + framed[c] + issues[c] > 0
  /\ \/ unsolved' = [unsolved EXCEPT ![c] = 0] /\ UNCHANGED <<framed, issues>>
     \/ framed' = [framed EXCEPT ![c] = 0] /\ UNCHANGED <<unsolved, issues>>
     \/ issues' = [issues EXCEPT ![c] = 0] /\ UNCHANGED <<unsolved, framed>>
  /\ UNCHANGED <<cfg, posture, relays, visit, inflight, offers, cookie, floor, asked,
                 farms, ring, added, left>>

Next ==
  \/ \E v \in Visits : Arrive(v) \/ Admit(v) \/ Shed(v) \/ Begin(v) \/ Decide(v)
                       \/ Hop(v) \/ Issue(v)
  \/ \E c \in Clients : \/ Lapse(c) \/ ResetEscalation(c)
                        \/ \E o \in offers[c] : RedeemSolved(c, o) \/ RedeemFailed(c, o)
  \/ Reload \/ Shift

Spec == Init /\ [][Next]_vars

-----------------------------------------------------------------------------
(* An overloaded daemon admits nobody the full evaluation would turn away: *)
(* if Shed (engine.go, ShedDecision) would pass a request, the pipeline, run*)
(* on the same configuration, posture, blocks and identity with the store  *)
(* up, allows it too. There are two exceptions: an exempt client whose     *)
(* token the overload path honours and whose anomaly score the pipeline    *)
(* denies; and a blocked client whose address does not parse, whose block  *)
(* the pipeline reads in the store and no mirror has (pipeline.go:191-200).*)
ShedNeverBypasses ==
  \A v \in Visits : visit[v].pc = "shed" =>
    NoBypass[Live(v)][posture][visit[v].cookie][Unchallengeable(v)]

(* With a proxy that relays verdicts, what the auth hop recorded is what   *)
(* the client is served: a refusal if and only if a refusal was recorded,  *)
(* whatever is reloaded between the hops and whatever headers one of them  *)
(* loses (server.go, handleAuth and handleChallenge; relayedRefusal).      *)
OneVerdictPerVisit ==
  [][\A v \in Visits :
       relays /\ visit[v].pc \in {"hop", "issue"} /\ visit'[v].pc = "done" =>
         (visit'[v].served = "refused" <=> visit[v].recorded = "refuse")]_vars

(* challenge_farm is reported only about a client that was due enough      *)
(* challenge pages, none of them refused and none of them in a frame that  *)
(* may not render, since it last solved one or an operator unblocked it    *)
(* (server.go, handleChallenge; engine.go, resetBlockCounters).            *)
NoFarmWithoutAbandon == \A n \in farms : n >= FreeIssues + EscalationStep

(* max_inflight holds from the moment it is loaded: an evaluation admitted *)
(* under a bound runs beside fewer earlier arrivals than the bound, those  *)
(* that started while there was no bound included (server.go, handleAuth). *)
EvaluationsBounded ==
  /\ \A v \in Evaluating : visit[v].bound > 0 =>
       Cardinality(Evaluating \cap visit[v].before) < visit[v].bound
  /\ inflight = Cardinality(InFlight)

(* A visitor who solved a challenge is not told that the token is too weak *)
(* while the configured base stays what it was at issuance, however the    *)
(* attack posture moves in between, and never when the proof was Argon2id, *)
(* also after the domain went back to SHA-256 (EffectiveBits, powToken,    *)
(* VerifyToken).                                                           *)
SolvedIsVouched ==
  [][\A v \in Visits :
       visit[v].pc = "stages" /\ visit'[v].reason = "pow:token_underdifficulty" =>
         visit[v].snap.base > visit[v].floor /\ visit[v].cookie.kind # "argon"]_vars

(* The ring lists the newest rows, newest first, every one of them that    *)
(* fits, and says it has dropped some exactly when it has (recent.go).     *)
RingKeepsNewest ==
  /\ RingSnapshot(ring, 0) = [i \in 1 .. Min2(added, RingSize) |-> added + 1 - i]
  /\ RingSnapshot(ring, 1) = [i \in 1 .. Min2(added, 1) |-> added]
  /\ ring.full <=> added > RingSize
=============================================================================

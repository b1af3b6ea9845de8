------------------------------ MODULE Pipeline ------------------------------
(***************************************************************************)
(* The decision pipeline of core/pipeline.go and the two engines that run  *)
(* it: Engine.Evaluate, the full evaluation, and Engine.ShedDecision, the  *)
(* store-free one an overloaded daemon falls back to (core/engine.go).     *)
(*                                                                         *)
(* Everything here is a function of a request, of a configuration and of   *)
(* what the stages look up while they run:                                 *)
(*   r  the request: which lists, feeds and rules it meets, its cookie     *)
(*   e  the stage environment: the scope `cfg' the request resolves to, the*)
(*      attack posture `posture' loaded once for the request, the blocks   *)
(*      in the local mirror and in the store, the client's crawler         *)
(*      identity                                                           *)
(* What a request meets (an address in a CIDR, a matching rule, a score)   *)
(* is a trait of r; matching itself is left out.                           *)
(***************************************************************************)
EXTENDS Integers, Sequences, SequencesExt

CONSTANTS RuleStep,     \* bits a WAF or reputation challenge adds (4 in the code)
          FullScore     \* the anomaly score 1.0, scores being 0 .. FullScore

ASSUME PipelineAssumption == /\ RuleStep \in Nat
                             /\ FullScore \in Nat \ {0}

Min2(a, b) == IF a <= b THEN a ELSE b
Max2(a, b) == IF a >= b THEN a ELSE b

-----------------------------------------------------------------------------
(* A domain is a scope and overlays for some of its paths. A path is the   *)
(* sequence of its segments, decoded and without dot segments; a prefix    *)
(* key stands for everything below it and for itself. Two keys that match  *)
(* one path are nested, so the longer one has the longer text, and the     *)
(* order the overlays are sorted in ranks all that match.                  *)

MoreSpecific(a, b) ==
  \/ Len(a.key) > Len(b.key)
  \/ Len(a.key) = Len(b.key) /\ ~a.prefix /\ b.prefix

\* Overlays of a map: one for each key.
Keyed(overlays) ==
  /\ \A o \in overlays : o.key \in Seq(STRING) /\ o.prefix \in BOOLEAN
  /\ \A a, b \in overlays : a.key = b.key /\ a.prefix = b.prefix => a = b

Matches(o, path) == IF o.prefix THEN IsPrefix(o.key, path) ELSE path = o.key

\* The first of the sorted overlays that match, or the domain's own scope.
ForPath(domain, path) ==
  LET hits == {o \in domain.overlays : Matches(o, path)}
  IN IF hits = {} THEN domain.scope
     ELSE (CHOOSE o \in hits : \A p \in hits \ {o} : MoreSpecific(o, p)).scope

Scopes(domain) == {domain.scope} \cup {o.scope : o \in domain.overlays}

PoWAnywhere(domain) == \E scope \in Scopes(domain) : scope.pow

-----------------------------------------------------------------------------
(* Decisions. A stage that has nothing to say answers Continue.            *)

Decision(action, reason, bits, event) ==
  [action |-> action, reason |-> reason, bits |-> bits, event |-> event]

Continue == Decision("none", "none", 0, "none")
Default  == Decision("allow", "default", 0, "none")
Vouched  == Decision("allow", "pow:token", 0, "none")

Deny(reason, event)            == Decision("deny", reason, 0, event)
Challenge(reason, bits, event) == Decision("challenge", reason, bits, event)

ReasonCategory(reason) ==
  IF reason \in {"pow:token", "pow:no_token", "pow:token_invalid",
                 "pow:token_underdifficulty", "pow:unchallengeable"}
  THEN "pow" ELSE reason

-----------------------------------------------------------------------------
(* The attack posture moves a domain's difficulty window up, never down.   *)

Cap(p, maxBits) ==
  IF p.extra = 0 \/ p.cap = 0 THEN maxBits ELSE p.cap

EffectiveBits(p, baseBits, maxBits) ==
  IF p.extra = 0
  THEN [base |-> baseBits, max |-> maxBits]
  ELSE LET cap  == Max2(Cap(p, maxBits), maxBits)
           base == Max2(Min2(baseBits + p.extra, cap), baseBits)
       IN [base |-> base, max |-> Max2(Min2(maxBits + p.extra, cap), base)]

effBits(e) == EffectiveBits(e.posture, e.cfg.base, e.cfg.max)

ScaleDifficulty(window, score, challengeAt) ==
  IF challengeAt >= FullScore THEN window.base
  ELSE LET span == FullScore - challengeAt
           rise == (2 * (window.max - window.base) * (score - challengeAt) + span)
                      \div (2 * span)
       IN Min2(Max2(window.base + rise, window.base), window.max)

-----------------------------------------------------------------------------
(* Exemptions from proof of work. They never admit a request by themselves.*)

HeaderPoWExempt(r, e) == e.cfg.pow /\ r.header

(* What a client that claims to be a crawler turns out to be. r.bot is     *)
(* "match" when the claim is for the domains its address would confirm.    *)
ClaimsBot(r) == r.bot # "none"

classifyBotIdentity(r, e) ==
  IF ~ClaimsBot(r) THEN "no_claim"
  ELSE IF e.identity = "confirmed" /\ r.bot = "match" THEN "verified"
  ELSE IF e.identity = "error" THEN "error"
  ELSE "spoof"

PoWExemption(r, e) ==
  IF r.allowed THEN "allowlist"
  ELSE IF classifyBotIdentity(r, e) = "verified" THEN "verified_bot"
  ELSE IF HeaderPoWExempt(r, e) THEN "header_exemption"
  ELSE "none"

powExempt(r, e) == PoWExemption(r, e) # "none"

-----------------------------------------------------------------------------
(* The PoW cookie: absent, invalid (bad, expired or bound to another       *)
(* client), or solved by SHA-256 ("signed") or by Argon2id ("argon"). The  *)
(* floor is the configured base, not the shifted one: entering attack mode *)
(* must not throw away the tokens visitors hold. An Argon2id token has no  *)
(* bits to compare, and a domain that uses Argon2id asks for none.         *)

\* Mutant: the floor follows the attack posture.
TokenMinBitsShifted(e) == effBits(e).base

TokenMinBits(e) == IF e.cfg.argon THEN 0 ELSE e.cfg.base

powToken(r, e) ==
  IF ~e.cfg.pow THEN "absent"
  ELSE IF r.cookie.kind \in {"absent", "invalid"} THEN r.cookie.kind
  ELSE IF r.cookie.kind = "signed" /\ r.cookie.bits < TokenMinBits(e) THEN "underdifficulty"
  ELSE "valid"

hasValidPoWToken(r, e) == powToken(r, e) = "valid"

TokenReason(verdict) ==
  CASE verdict = "invalid"         -> "pow:token_invalid"
    [] verdict = "underdifficulty" -> "pow:token_underdifficulty"
    [] OTHER                       -> "pow:no_token"

-----------------------------------------------------------------------------
(* The stages, in the order the engine runs them. A stage that fails, the  *)
(* denylist on an address it cannot parse or the block lookup when the     *)
(* store is down, lets the request go on.                                  *)

DenylistStage(r, e) ==
  IF r.parseable /\ r.denied THEN Deny("denylist", "none") ELSE Continue

VerifiedBotStage(r, e) ==
  IF classifyBotIdentity(r, e) = "spoof" /\ ~e.cfg.spoofContinues
  THEN Deny("bot_spoof", "bot_spoof") ELSE Continue

IntelDenyStage(r, e) ==
  IF ~r.parseable THEN Continue
  ELSE IF r.feed = "deny" THEN Deny("reputation", "none")
  ELSE IF r.geo = "deny" THEN Deny("geo", "none")
  ELSE Continue

BehaviourBlockStage(r, e) ==
  IF \/ e.mirrored
     \/ (e.readThrough \/ ~r.parseable) /\ e.storeUp /\ e.stored
  THEN Deny("behaviour_block", "none") ELSE Continue

HoneypotStage(r, e) ==
  IF r.trap THEN Deny("honeypot", "instant_block") ELSE Continue

(* The first rule that matches; an exempt request skips challenge rules.   *)
MatchEnforcing(rules, exempt) ==
  LET enforced == SelectSeq(rules, LAMBDA a : ~(exempt /\ a = "challenge"))
  IN IF enforced = <<>> THEN "none" ELSE Head(enforced)

WafRulesStage(r, e) ==
  LET action == MatchEnforcing(r.rules, powExempt(r, e)) IN
  CASE action = "none"  -> Continue
    [] action = "allow" -> Decision("allow", "waf", 0, "none")
    [] action = "challenge" /\ e.cfg.pow ->
         IF hasValidPoWToken(r, e) THEN Vouched
         ELSE Challenge("waf", Min2(effBits(e).base + RuleStep, effBits(e).max), "rule_match")
    [] action = "block" -> Deny("waf", "instant_block")
    [] OTHER            -> Deny("waf", "rule_match")

PowTokenStage(r, e) ==
  IF ~powExempt(r, e) /\ hasValidPoWToken(r, e) THEN Vouched ELSE Continue

IntelChallengeStage(r, e) ==
  LET window == effBits(e) IN
  IF ~e.cfg.pow \/ powExempt(r, e) \/ ~r.parseable THEN Continue
  ELSE IF r.feed = "challenge"
       THEN Challenge("reputation", Min2(window.base + RuleStep, window.max), "none")
  ELSE IF r.geo = "challenge" THEN Challenge("geo", window.base, "none")
  ELSE Continue

AnomalyStage(r, e) ==
  IF e.cfg.anomaly # "on" THEN Continue
  ELSE IF r.score >= e.cfg.denyAt THEN Deny("anomaly", "anomaly")
  ELSE IF r.score >= e.cfg.challengeAt /\ e.cfg.pow /\ ~powExempt(r, e)
       THEN Challenge("anomaly", ScaleDifficulty(effBits(e), r.score, e.cfg.challengeAt),
                      "anomaly")
  ELSE Continue

PowChallengeStage(r, e) ==
  IF \/ ~e.cfg.pow \/ powExempt(r, e)
     \/ e.cfg.suspicion /\ e.cfg.anomaly # "off" /\ ~e.posture.forceAlways
  THEN Continue
  ELSE Challenge(TokenReason(powToken(r, e)), effBits(e).base, "none")

Stages(r, e) ==
  << DenylistStage(r, e), VerifiedBotStage(r, e), IntelDenyStage(r, e),
     BehaviourBlockStage(r, e), HoneypotStage(r, e), WafRulesStage(r, e),
     PowTokenStage(r, e), IntelChallengeStage(r, e), AnomalyStage(r, e),
     PowChallengeStage(r, e) >>

FirstVerdict(stages) ==
  LET i == SelectInSeq(stages, LAMBDA d : d.action # "none")
  IN IF i = 0 THEN Default ELSE stages[i]

(* A challenge aimed at a client that cannot complete one is a refusal.    *)
Refused(d) ==
  Decision("refuse", IF ReasonCategory(d.reason) = "pow" THEN "pow:unchallengeable"
                     ELSE d.reason, 0, d.event)

Evaluate(r, e, unchallengeable) ==
  LET d == FirstVerdict(Stages(r, e))
  IN IF d.action = "challenge" /\ unchallengeable /\ e.cfg.refuse THEN Refused(d) ELSE d

-----------------------------------------------------------------------------
(* The overload path: the same terminal checks without the store, without  *)
(* DNS and without events. `e.cached' says whether the identity of the     *)
(* client is in the local cache.                                           *)

\* Mutant: the overload path forgets the WAF rules.
ShedStagesBlind(r, e) == << IntelDenyStage(r, e), HoneypotStage(r, e) >>

ShedStages(r, e) ==
  << IntelDenyStage(r, e), HoneypotStage(r, e), WafRulesStage(r, e) >>

ShedVerdict(d) ==
  CASE d.action = "deny" -> "deny" [] d.action = "allow" -> "pass" [] OTHER -> "reject"

ShedDecision(r, e) ==
  LET checked == FirstVerdict(ShedStages(r, e)) IN
  IF DenylistStage(r, e) # Continue \/ e.mirrored THEN "deny"
  ELSE IF e.readThrough THEN "reject"
  ELSE IF ClaimsBot(r) /\ (~e.cached \/ e.identity = "error") THEN "reject"
  ELSE IF VerifiedBotStage(r, e) # Continue THEN "deny"
  ELSE IF checked # Default THEN ShedVerdict(checked)
  ELSE IF hasValidPoWToken(r, e) THEN "pass"
  ELSE "reject"
=============================================================================

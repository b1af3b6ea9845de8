--------------------------- MODULE RequestProofs ---------------------------
(***************************************************************************)
(* Proofs about a client's visit (Request): what the pipeline's two ways   *)
(* through the stages may answer, the difficulty window under any attack   *)
(* posture, the ring of recent decisions, and the inductive invariant Inv  *)
(* over any visits, clients, configurations and bounds. Inv ties the       *)
(* counter of requests in flight to the visits that are counted, a visit's *)
(* admission to the requests that were there before it, the relayed        *)
(* verdict to the recorded one, each token to the base it was issued at,   *)
(* and the escalation counter to the pages the client was due.             *)
(***************************************************************************)
EXTENDS Request, TLAPS, FiniteSetTheorems, NaturalsInduction

-----------------------------------------------------------------------------
(* The pipeline                                                            *)

\* The verdict of a list of stages is that of the first stage that has one.
LEMMA FirstIs ==
    ASSUME NEW s, NEW n \in Nat, Len(s) = n, NEW k \in 1 .. n, s[k].action # "none",
           \A j \in 1 .. n : j < k => s[j].action = "none"
    PROVE  FirstVerdict(s) = s[k]
<1> DEFINE I == {i \in 1 .. Len(s) : s[i].action # "none"}
<1>1. k \in I /\ \A j \in I : k <= j
    OBVIOUS
<1>2. Min(I) = k
    BY <1>1 DEF Min
<1>3. SelectInSeq(s, LAMBDA d : d.action # "none") = k
    BY <1>1, <1>2 DEF SelectInSeq
<1> QED
    BY <1>3 DEF FirstVerdict

\* Without one it is the default.
LEMMA NoneIs ==
    ASSUME NEW s, NEW n \in Nat, Len(s) = n, \A j \in 1 .. n : s[j].action = "none"
    PROVE  FirstVerdict(s) = Default
<1>3. SelectInSeq(s, LAMBDA d : d.action # "none") = 0
    BY DEF SelectInSeq
<1> QED
    BY <1>3 DEF FirstVerdict

\* A set of numbers has a least one.
LEMMA LeastNumber ==
    ASSUME NEW I \in SUBSET Nat, I # {}
    PROVE  \E k \in I : \A j \in I : k <= j
<1> DEFINE R == {p \in Nat \X Nat : p[1] < p[2]}
<1>1. IsWellFoundedOn(R, Nat)
    BY NatLessThanWellFounded, Zenon DEF OpToRel
<1>2. \E k \in I : \A j \in I : ~(<<j, k>> \in R)
    <2> HIDE DEF R
    <2> QED
        BY <1>1, WFMin
<1>3. PICK k \in I : \A j \in I : ~(<<j, k>> \in R)
    BY <1>2
<1>4. ASSUME NEW j \in I PROVE k <= j
    <2>1. ~(<<j, k>> \in R)
        BY <1>3
    <2>2. j \in Nat /\ k \in Nat
        OBVIOUS
    <2> QED
        BY <2>1, <2>2
<1> QED
    BY <1>4

\* It is one of the two: some stage answers first, or none answers.
LEMMA VerdictOf ==
    ASSUME NEW s, NEW n \in Nat, Len(s) = n
    PROVE  \/ FirstVerdict(s) = Default /\ \A j \in 1 .. n : s[j].action = "none"
           \/ \E k \in 1 .. n : FirstVerdict(s) = s[k] /\ s[k].action # "none"
<1> DEFINE I == {i \in 1 .. n : s[i].action # "none"}
<1>1. CASE I = {}
    BY <1>1, NoneIs
<1>2. CASE I # {}
    <2>1. I \in SUBSET Nat
        OBVIOUS
    <2>2. PICK k \in I : \A j \in I : k <= j
        <3> HIDE DEF I
        <3> QED
            BY <1>2, <2>1, LeastNumber
    <2>3. ASSUME NEW j \in 1 .. n, j < k
          PROVE  s[j].action = "none"
        <3>1. j \notin I
            BY <2>1, <2>2, <2>3
        <3> QED
            BY <3>1
    <2> QED
        BY <2>3, FirstIs
<1> QED
    BY <1>1, <1>2

\* The pipeline's ten stages and the overload path's three.
LEMMA StagesAre ==
    ASSUME NEW r, NEW e
    PROVE  /\ Len(Stages(r, e)) = 10
           /\ Stages(r, e)[1] = DenylistStage(r, e) /\ Stages(r, e)[2] = VerifiedBotStage(r, e)
           /\ Stages(r, e)[3] = IntelDenyStage(r, e) /\ Stages(r, e)[4] = BehaviourBlockStage(r, e)
           /\ Stages(r, e)[5] = HoneypotStage(r, e) /\ Stages(r, e)[6] = WafRulesStage(r, e)
           /\ Stages(r, e)[7] = PowTokenStage(r, e) /\ Stages(r, e)[8] = IntelChallengeStage(r, e)
           /\ Stages(r, e)[9] = AnomalyStage(r, e) /\ Stages(r, e)[10] = PowChallengeStage(r, e)
           /\ Len(ShedStages(r, e)) = 3
           /\ ShedStages(r, e)[1] = IntelDenyStage(r, e)
           /\ ShedStages(r, e)[2] = HoneypotStage(r, e)
           /\ ShedStages(r, e)[3] = WafRulesStage(r, e)
    BY DEF Stages, ShedStages

\* FirstIs for the lists of the two paths.
LEMMA FirstOf ==
    ASSUME NEW s, NEW n \in {3, 10}, Len(s) = n
    PROVE  \A k \in 1 .. n :
              s[k].action # "none" /\ (\A j \in 1 .. n : j < k => s[j].action = "none") =>
                 FirstVerdict(s) = s[k]
    BY FirstIs

\* What the stages before the token may answer.
LEMMA EarlyAnswers ==
    ASSUME NEW r, NEW e
    PROVE  /\ DenylistStage(r, e) = Continue \/ DenylistStage(r, e).action = "deny"
           /\ VerifiedBotStage(r, e) = Continue \/ VerifiedBotStage(r, e).action = "deny"
           /\ IntelDenyStage(r, e) = Continue \/ IntelDenyStage(r, e).action = "deny"
           /\ HoneypotStage(r, e) = Continue \/ HoneypotStage(r, e).action = "deny"
           /\ Continue.action = "none" /\ Default.action = "allow" /\ Vouched.action = "allow"
    BY DEF DenylistStage, VerifiedBotStage, IntelDenyStage, HoneypotStage, Deny, Continue, Default,
           Vouched, Decision

\* The WAF stage lets pass, denies, challenges or has nothing to say, and never answers
\* like the end of the pipeline.
LEMMA WafAnswers ==
    ASSUME NEW r, NEW e
    PROVE  /\ WafRulesStage(r, e).action \in {"none", "allow", "deny", "challenge"}
           /\ WafRulesStage(r, e).reason \in {"none", "waf", "pow:token"}
           /\ WafRulesStage(r, e).action = "none" => WafRulesStage(r, e) = Continue
<1> DEFINE action == MatchEnforcing(r.rules, powExempt(r, e))
           bits   == Min2(effBits(e).base + RuleStep, effBits(e).max)
<1> HIDE DEF action, bits
<1>1. \/ WafRulesStage(r, e) = Continue
      \/ WafRulesStage(r, e) = Decision("allow", "waf", 0, "none")
      \/ WafRulesStage(r, e) = Vouched
      \/ WafRulesStage(r, e) = Challenge("waf", bits, "rule_match")
      \/ WafRulesStage(r, e) = Deny("waf", "instant_block")
      \/ WafRulesStage(r, e) = Deny("waf", "rule_match")
    BY DEF WafRulesStage, action, bits
<1> QED
    BY <1>1 DEF Continue, Decision, Vouched, Challenge, Deny

\* The stages from the token on.
LEMMA LateAnswers ==
    ASSUME NEW r, NEW e
    PROVE  /\ BehaviourBlockStage(r, e).action \in {"none", "deny"}
           /\ BehaviourBlockStage(r, e).reason \in {"none", "behaviour_block"}
           /\ PowTokenStage(r, e).action \in {"none", "allow"}
           /\ PowTokenStage(r, e).reason \in {"none", "pow:token"}
           /\ IntelChallengeStage(r, e).action \in {"none", "challenge"}
           /\ IntelChallengeStage(r, e).reason \in {"none", "reputation", "geo"}
           /\ AnomalyStage(r, e).action \in {"none", "deny", "challenge"}
           /\ AnomalyStage(r, e).reason \in {"none", "anomaly"}
           /\ PowChallengeStage(r, e).action \in {"none", "challenge"}
<1>1. /\ BehaviourBlockStage(r, e).action \in {"none", "deny"}
      /\ BehaviourBlockStage(r, e).reason \in {"none", "behaviour_block"}
    BY DEF BehaviourBlockStage, Continue, Deny, Decision
<1>2. /\ PowTokenStage(r, e).action \in {"none", "allow"}
      /\ PowTokenStage(r, e).reason \in {"none", "pow:token"}
    BY DEF PowTokenStage, Continue, Vouched, Decision
<1>3. /\ IntelChallengeStage(r, e).action \in {"none", "challenge"}
      /\ IntelChallengeStage(r, e).reason \in {"none", "reputation", "geo"}
    <2> DEFINE bits == Min2(effBits(e).base + RuleStep, effBits(e).max)
    <2>1. \/ IntelChallengeStage(r, e) = Continue
          \/ IntelChallengeStage(r, e) = Challenge("reputation", bits, "none")
          \/ IntelChallengeStage(r, e) = Challenge("geo", effBits(e).base, "none")
        BY DEF IntelChallengeStage
    <2> HIDE DEF bits
    <2> QED
        BY <2>1 DEF Continue, Challenge, Decision
<1>4. /\ AnomalyStage(r, e).action \in {"none", "deny", "challenge"}
      /\ AnomalyStage(r, e).reason \in {"none", "anomaly"}
    <2> DEFINE bits == ScaleDifficulty(effBits(e), r.score, e.cfg.challengeAt)
    <2>1. \/ AnomalyStage(r, e) = Continue
          \/ AnomalyStage(r, e) = Deny("anomaly", "anomaly")
          \/ AnomalyStage(r, e) = Challenge("anomaly", bits, "anomaly")
        BY DEF AnomalyStage
    <2> HIDE DEF bits
    <2> QED
        BY <2>1 DEF Continue, Challenge, Deny, Decision
<1>5. PowChallengeStage(r, e).action \in {"none", "challenge"}
    BY DEF PowChallengeStage, Continue, Challenge, Decision
<1> QED
    BY <1>1, <1>2, <1>3, <1>4, <1>5

\* An exempt client meets no challenge: past the WAF rules it is allowed, or its score is
\* too high.
LEMMA ExemptAnswers ==
    ASSUME NEW r, NEW e, powExempt(r, e)
    PROVE  /\ PowTokenStage(r, e) = Continue
           /\ IntelChallengeStage(r, e) = Continue
           /\ PowChallengeStage(r, e) = Continue
           /\ AnomalyStage(r, e) = Continue \/ AnomalyStage(r, e).reason = "anomaly"
    BY DEF PowTokenStage, IntelChallengeStage, PowChallengeStage, AnomalyStage, Deny, Decision

(* A request that the overload path passes and the block stage denies is   *)
(* one whose address does not parse, and the pipeline's verdict is that    *)
(* stage's.                                                                *)
LEMMA ShedUnseen ==
    ASSUME NEW r, NEW e, NEW unchallengeable, ShedDecision(r, e) = "pass",
           BehaviourBlockStage(r, e) # Continue
    PROVE  /\ ~r.parseable /\ e.stored
           /\ Evaluate(r, e, unchallengeable).reason = "behaviour_block"
<1> DEFINE stages == Stages(r, e)
<1>1. /\ DenylistStage(r, e) = Continue /\ ~e.mirrored /\ ~e.readThrough
      /\ VerifiedBotStage(r, e) = Continue
    BY DEF ShedDecision
<1>2. ~r.parseable /\ e.stored
    BY <1>1 DEF BehaviourBlockStage
<1>3. /\ IntelDenyStage(r, e) = Continue
      /\ BehaviourBlockStage(r, e) = Deny("behaviour_block", "none")
    BY <1>2 DEF IntelDenyStage, BehaviourBlockStage
<1>4. /\ Len(stages) = 10
      /\ stages[1].action = "none" /\ stages[2].action = "none" /\ stages[3].action = "none"
      /\ stages[4].action = "deny" /\ stages[4].reason = "behaviour_block"
    BY <1>1, <1>3, StagesAre, EarlyAnswers DEF Deny, Decision
<1>5. FirstVerdict(stages) = stages[4]
    <2> HIDE DEF stages
    <2>1. \A j \in 1 .. 10 : j < 4 => stages[j].action = "none"
        BY <1>4
    <2> QED
        BY <1>4, <2>1, FirstOf
<1>6. Evaluate(r, e, unchallengeable) = FirstVerdict(stages)
    BY <1>4, <1>5 DEF Evaluate
<1> QED
    BY <1>2, <1>4, <1>5, <1>6

(* If the overload path passes a request that the block stage does not     *)
(* deny, then so does the full evaluation, but for an exempt client's      *)
(* anomaly.                                                                *)
LEMMA ShedHonest ==
    ASSUME NEW r, NEW e, NEW unchallengeable, BehaviourBlockStage(r, e) = Continue,
           ShedDecision(r, e) = "pass"
    PROVE  LET d == Evaluate(r, e, unchallengeable)
           IN d.action = "allow" \/ (powExempt(r, e) /\ d.reason = "anomaly")
<1> DEFINE checked == FirstVerdict(ShedStages(r, e))
           stages  == Stages(r, e)
<1> HIDE DEF checked
<1>1. /\ DenylistStage(r, e) = Continue /\ ~e.mirrored /\ ~e.readThrough
      /\ VerifiedBotStage(r, e) = Continue
      /\ \/ checked # Default /\ ShedVerdict(checked) = "pass"
         \/ checked = Default /\ hasValidPoWToken(r, e)
    BY DEF ShedDecision, checked
<1>3. checked # Default => checked.action = "allow"
    BY <1>1 DEF ShedVerdict
<1>4. checked.action = "allow"
    BY <1>3, EarlyAnswers
<1>5a. /\ IntelDenyStage(r, e).action # "none" => checked = IntelDenyStage(r, e)
       /\ IntelDenyStage(r, e).action = "none" /\ HoneypotStage(r, e).action # "none" =>
             checked = HoneypotStage(r, e)
       /\ IntelDenyStage(r, e).action = "none" /\ HoneypotStage(r, e).action = "none" =>
             (WafRulesStage(r, e).action # "none" => checked = WafRulesStage(r, e))
    <2> DEFINE s == ShedStages(r, e)
    <2>1. /\ Len(s) = 3 /\ s[1] = IntelDenyStage(r, e) /\ s[2] = HoneypotStage(r, e)
          /\ s[3] = WafRulesStage(r, e)
        BY StagesAre
    <2> HIDE DEF s
    <2>2. \A k \in 1 .. 3 :
             s[k].action # "none" /\ (\A j \in 1 .. 3 : j < k => s[j].action = "none") =>
                FirstVerdict(s) = s[k]
        BY <2>1, FirstOf
    <2>3. checked = FirstVerdict(s)
        BY DEF checked, s
    <2>4. /\ s[1].action # "none" => checked = s[1]
          /\ s[1].action = "none" /\ s[2].action # "none" => checked = s[2]
          /\ s[1].action = "none" /\ s[2].action = "none" /\ s[3].action # "none" => checked = s[3]
        BY <2>2, <2>3
    <2> QED
        BY <2>1, <2>4
<1>5. /\ IntelDenyStage(r, e) = Continue /\ HoneypotStage(r, e) = Continue
      /\ WafRulesStage(r, e).action \in {"none", "allow"}
    <2>1. IntelDenyStage(r, e) = Continue
        <3>1. CASE IntelDenyStage(r, e).action = "deny"
            <4>1. checked = IntelDenyStage(r, e)
                BY <3>1, <1>5a
            <4> QED
                BY <1>4, <3>1, <4>1
        <3> QED
            BY <3>1, EarlyAnswers
    <2>2. HoneypotStage(r, e) = Continue
        <3>1. CASE HoneypotStage(r, e).action = "deny"
            <4>1. checked = HoneypotStage(r, e)
                BY <2>1, <3>1, <1>5a, EarlyAnswers
            <4> QED
                BY <1>4, <3>1, <4>1
        <3> QED
            BY <3>1, EarlyAnswers
    <2>3. WafRulesStage(r, e).action \in {"none", "allow"}
        <3>1. CASE WafRulesStage(r, e).action # "none"
            <4>1. checked = WafRulesStage(r, e)
                BY <2>1, <2>2, <3>1, <1>5a, EarlyAnswers
            <4> QED
                BY <1>4, <4>1
        <3> QED
            BY <3>1
    <2> QED
        BY <2>1, <2>2, <2>3
<1>6. /\ Len(stages) = 10
      /\ stages[1].action = "none" /\ stages[2].action = "none" /\ stages[3].action = "none"
      /\ stages[4].action = "none" /\ stages[5].action = "none"
    BY <1>1, <1>5, StagesAre, EarlyAnswers
<1>6a. \A k \in 1 .. 10 :
          stages[k].action # "none" /\ (\A j \in 1 .. 10 : j < k => stages[j].action = "none") =>
             FirstVerdict(stages) = stages[k]
    BY <1>6, FirstOf
<1>7. \/ Evaluate(r, e, unchallengeable) = FirstVerdict(stages)
      \/ FirstVerdict(stages).action = "challenge"
    BY DEF Evaluate
<1>8. CASE WafRulesStage(r, e).action = "allow"
    <2>1. stages[6].action = "allow"
        BY <1>8, StagesAre
    <2>2. FirstVerdict(stages) = stages[6]
        <3> HIDE DEF stages
        <3>1. \A j \in 1 .. 10 : j < 6 => stages[j].action = "none"
            BY <1>6
        <3> QED
            BY <1>6a, <2>1, <3>1
    <2> QED
        BY <1>7, <2>1, <2>2
<1>9. CASE WafRulesStage(r, e).action = "none"
    <2>0. stages[6].action = "none"
        BY <1>9, StagesAre
    <2>1. checked = Default
        <3>1. \A j \in 1 .. 3 : ShedStages(r, e)[j].action = "none"
            BY <1>5, <1>9, StagesAre, EarlyAnswers
        <3> QED
            BY <3>1, StagesAre, NoneIs DEF checked
    <2>2. hasValidPoWToken(r, e)
        BY <1>1, <2>1
    <2>3. CASE ~powExempt(r, e)
        <3>1. stages[7] = Vouched
            BY <2>2, <2>3, StagesAre DEF PowTokenStage
        <3>2. FirstVerdict(stages) = stages[7]
            <4> HIDE DEF stages
            <4>1. \A j \in 1 .. 10 : j < 7 => stages[j].action = "none"
                BY <1>6, <2>0
            <4>2. stages[7].action # "none"
                BY <3>1, EarlyAnswers
            <4> QED
                BY <1>6a, <4>1, <4>2
        <3> QED
            BY <1>7, <3>1, <3>2, EarlyAnswers
    <2>4. CASE powExempt(r, e)
        <3>1. /\ stages[7].action = "none" /\ stages[8].action = "none"
              /\ stages[10].action = "none"
              /\ stages[9].action = "none" \/ stages[9].reason = "anomaly"
            BY <2>4, StagesAre, EarlyAnswers, ExemptAnswers
        <3>2. stages[9].action # "challenge"
            BY <2>4, StagesAre DEF AnomalyStage, Continue, Deny, Decision
        <3> HIDE DEF stages
        <3>3. CASE stages[9].action = "none"
            <4>1. \A j \in 1 .. 10 : stages[j].action = "none"
                BY <1>6, <2>0, <3>1, <3>3
            <4>2. FirstVerdict(stages) = Default
                BY <1>6, <4>1, NoneIs
            <4> QED
                BY <1>7, <4>2, EarlyAnswers
        <3>4. CASE stages[9].action # "none"
            <4>1. \A j \in 1 .. 10 : j < 9 => stages[j].action = "none"
                BY <1>6, <2>0, <3>1
            <4>2. FirstVerdict(stages) = stages[9]
                BY <1>6a, <3>4, <4>1
            <4> QED
                BY <1>7, <2>4, <3>1, <3>2, <3>4, <4>2
        <3> QED
            BY <3>3, <3>4
    <2> QED
        BY <2>3, <2>4
<1> QED
    BY <1>5, <1>8, <1>9

\* The attack posture moves the window up and keeps it a window.
LEMMA WindowIs ==
    ASSUME NEW p \in Postures, NEW base \in Nat, NEW max \in base .. MaxBits
    PROVE  LET window == EffectiveBits(p, base, max)
           IN /\ window.base \in Nat /\ window.max \in Nat
              /\ base <= window.base /\ window.base <= window.max /\ window.max <= MaxBits
<1>1. p.extra \in Nat /\ p.cap \in 0 .. MaxBits /\ MaxBits \in Nat
    BY InputsAreTyped, RequestAssumption
<1>2. CASE p.extra = 0
    BY <1>1, <1>2 DEF EffectiveBits
<1>3. CASE p.extra # 0
    <2> DEFINE cap == Max2(Cap(p, max), max)
               b   == Max2(Min2(base + p.extra, cap), base)
               m   == Max2(Min2(max + p.extra, cap), b)
    <2>1. Cap(p, max) \in 0 .. MaxBits
        BY <1>1 DEF Cap
    <2>2. cap \in max .. MaxBits
        BY <1>1, <2>1 DEF Max2
    <2> HIDE DEF cap
    <2>3. b \in base .. MaxBits
        BY <1>1, <2>2 DEF Max2, Min2
    <2> HIDE DEF b
    <2>4. m \in b .. MaxBits
        BY <1>1, <2>2, <2>3 DEF Max2, Min2
    <2> HIDE DEF m
    <2>5. EffectiveBits(p, base, max) = [base |-> b, max |-> m]
        BY <1>3 DEF EffectiveBits, cap, b, m
    <2> QED
        BY <1>1, <2>3, <2>4, <2>5
<1> QED
    BY <1>2, <1>3

\* So does the scope's window under the request's posture.
LEMMA ScopeWindow ==
    ASSUME NEW e, e.cfg \in AllScopes, e.posture \in Postures
    PROVE  effBits(e).base \in Nat /\ effBits(e).max \in Nat
<1>1. PICK p \in Postures, c \in AllScopes : p = e.posture /\ c = e.cfg
    OBVIOUS
<1>2. c.base \in Nat /\ c.max \in c.base .. MaxBits
    BY ConfigsAreValid
<1> QED
    BY <1>1, <1>2, WindowIs DEF effBits

\* A difficulty scaled by the score is a number of bits.
LEMMA ScaledIs ==
    ASSUME NEW window, window.base \in Nat, window.max \in Nat,
           NEW score \in 0 .. FullScore, NEW at \in Nat
    PROVE  ScaleDifficulty(window, score, at) \in Nat
<1>0. FullScore \in Nat
    BY PipelineAssumption
<1>1. CASE at >= FullScore
    BY <1>1 DEF ScaleDifficulty
<1>2. CASE ~(at >= FullScore)
    <2> DEFINE span == FullScore - at
               gain == 2 * (window.max - window.base) * (score - at)
               rise == (gain + span) \div (2 * span)
    <2>1. span \in Nat /\ 2 * span \in Nat /\ 2 * span > 0
        BY <1>0, <1>2
    <2>2. gain \in Int
        BY <1>0
    <2> HIDE DEF gain, span
    <2>3. rise \in Int
        BY <2>1, <2>2
    <2> HIDE DEF rise
    <2>4. ScaleDifficulty(window, score, at) =
             Min2(Max2(window.base + rise, window.base), window.max)
        BY <1>2 DEF ScaleDifficulty, rise, gain, span
    <2>5. window.base + rise \in Int
        BY <2>3
    <2> QED
        BY <2>4, <2>5 DEF Min2, Max2
<1> QED
    BY <1>1, <1>2

\* The reasons the stages give.
Reasons == {"none", "default", "denylist", "bot_spoof", "reputation", "geo", "behaviour_block",
            "honeypot", "waf", "anomaly", "pow:token", "pow:no_token", "pow:token_invalid",
            "pow:token_underdifficulty", "pow:unchallengeable"}

\* A verdict that a step of a visit acts on.
Verdict(d) ==
    /\ d.action \in {"allow", "deny", "challenge", "refuse"}
    /\ d.reason \in Reasons
    /\ d.action = "challenge" => d.bits \in Nat

\* The bits of a challenge, whichever stage asks for it.
LEMMA ChallengeBits ==
    ASSUME NEW r, NEW e, e.cfg \in AllScopes, e.posture \in Postures, r.score \in 0 .. FullScore
    PROVE  /\ WafRulesStage(r, e).bits \in Nat
           /\ IntelChallengeStage(r, e).bits \in Nat
           /\ AnomalyStage(r, e).bits \in Nat
           /\ PowChallengeStage(r, e).bits \in Nat
<1> DEFINE ruled  == Min2(effBits(e).base + RuleStep, effBits(e).max)
           scaled == ScaleDifficulty(effBits(e), r.score, e.cfg.challengeAt)
<1>1. effBits(e).base \in Nat /\ effBits(e).max \in Nat /\ e.cfg.challengeAt \in Nat
    BY ScopeWindow, ConfigsAreValid
<1>2. ruled \in Nat
    BY <1>1, PipelineAssumption DEF Min2
<1>3. scaled \in Nat
    BY <1>1, ScaledIs
<1> HIDE DEF ruled, scaled
<1>4. WafRulesStage(r, e).bits \in Nat
    <2>1. \/ WafRulesStage(r, e) = Continue
          \/ WafRulesStage(r, e) = Decision("allow", "waf", 0, "none")
          \/ WafRulesStage(r, e) = Vouched
          \/ WafRulesStage(r, e) = Challenge("waf", ruled, "rule_match")
          \/ WafRulesStage(r, e) = Deny("waf", "instant_block")
          \/ WafRulesStage(r, e) = Deny("waf", "rule_match")
        BY DEF WafRulesStage, ruled
    <2> QED
        BY <1>2, <2>1 DEF Continue, Decision, Vouched, Challenge, Deny
<1>5. IntelChallengeStage(r, e).bits \in Nat
    <2>1. \/ IntelChallengeStage(r, e) = Continue
          \/ IntelChallengeStage(r, e) = Challenge("reputation", ruled, "none")
          \/ IntelChallengeStage(r, e) = Challenge("geo", effBits(e).base, "none")
        BY DEF IntelChallengeStage, ruled
    <2> QED
        BY <1>1, <1>2, <2>1 DEF Continue, Challenge, Decision
<1>6. AnomalyStage(r, e).bits \in Nat
    <2>1. \/ AnomalyStage(r, e) = Continue
          \/ AnomalyStage(r, e) = Deny("anomaly", "anomaly")
          \/ AnomalyStage(r, e) = Challenge("anomaly", scaled, "anomaly")
        BY DEF AnomalyStage, scaled
    <2> QED
        BY <1>3, <2>1 DEF Continue, Challenge, Deny, Decision
<1>7. PowChallengeStage(r, e).bits \in Nat
    BY <1>1 DEF PowChallengeStage, Continue, Challenge, Decision
<1> QED
    BY <1>4, <1>5, <1>6, <1>7

\* Why the last stage challenges.
LEMMA PowChallengeReason ==
    ASSUME NEW r, NEW e
    PROVE  /\ PowChallengeStage(r, e).reason \in Reasons
           /\ PowChallengeStage(r, e).reason = "pow:token_underdifficulty" =>
                 r.cookie.kind = "signed" /\ r.cookie.bits < TokenMinBits(e)
<1>1. \/ TokenReason(powToken(r, e)) \in {"pow:token_invalid", "pow:no_token"}
      \/ /\ TokenReason(powToken(r, e)) = "pow:token_underdifficulty"
         /\ powToken(r, e) = "underdifficulty"
    BY DEF TokenReason
<1>2. powToken(r, e) = "underdifficulty" =>
         r.cookie.kind = "signed" /\ r.cookie.bits < TokenMinBits(e)
    BY DEF powToken
<1>3. \/ PowChallengeStage(r, e).reason = "none"
      \/ PowChallengeStage(r, e).reason = TokenReason(powToken(r, e))
    BY DEF PowChallengeStage, Continue, Challenge, Decision
<1> QED
    BY <1>1, <1>2, <1>3 DEF Reasons

\* What every evaluation answers: it refuses only those who cannot complete a challenge,
\* and blames the difficulty of a token only where the token is weaker than the floor.
LEMMA EvaluateAnswers ==
    ASSUME NEW r, NEW e, NEW unchallengeable,
           e.cfg \in AllScopes, e.posture \in Postures, r.score \in 0 .. FullScore
    PROVE  LET d == Evaluate(r, e, unchallengeable)
           IN /\ Verdict(d)
              /\ d.action = "refuse" => unchallengeable
              /\ d.reason = "pow:token_underdifficulty" =>
                    r.cookie.kind = "signed" /\ r.cookie.bits < TokenMinBits(e)
<1> DEFINE stages == Stages(r, e)
           first  == FirstVerdict(stages)
           OK(d)  == /\ d.action \in {"allow", "deny", "challenge"} /\ d.reason \in Reasons
                     /\ d.action = "challenge" => d.bits \in Nat
                     /\ d.reason = "pow:token_underdifficulty" =>
                           r.cookie.kind = "signed" /\ r.cookie.bits < TokenMinBits(e)
<1>1. \A k \in 1 .. 10 : stages[k].action # "none" => OK(stages[k])
    <2>1. DenylistStage(r, e).action # "none" => OK(DenylistStage(r, e))
        BY DEF DenylistStage, Deny, Continue, Decision, Reasons
    <2>2. VerifiedBotStage(r, e).action # "none" => OK(VerifiedBotStage(r, e))
        BY DEF VerifiedBotStage, Deny, Continue, Decision, Reasons
    <2>3. IntelDenyStage(r, e).action # "none" => OK(IntelDenyStage(r, e))
        BY DEF IntelDenyStage, Deny, Continue, Decision, Reasons
    <2>4. BehaviourBlockStage(r, e).action # "none" => OK(BehaviourBlockStage(r, e))
        BY LateAnswers DEF Reasons
    <2>5. HoneypotStage(r, e).action # "none" => OK(HoneypotStage(r, e))
        BY DEF HoneypotStage, Deny, Continue, Decision, Reasons
    <2>6. WafRulesStage(r, e).action # "none" => OK(WafRulesStage(r, e))
        BY WafAnswers, ChallengeBits DEF Reasons
    <2>7. PowTokenStage(r, e).action # "none" => OK(PowTokenStage(r, e))
        BY LateAnswers DEF Reasons
    <2>8. IntelChallengeStage(r, e).action # "none" => OK(IntelChallengeStage(r, e))
        BY LateAnswers, ChallengeBits DEF Reasons
    <2>9. AnomalyStage(r, e).action # "none" => OK(AnomalyStage(r, e))
        BY LateAnswers, ChallengeBits DEF Reasons
    <2>10. PowChallengeStage(r, e).action # "none" => OK(PowChallengeStage(r, e))
        BY LateAnswers, ChallengeBits, PowChallengeReason
    <2> HIDE DEF OK
    <2> QED
        BY <2>1, <2>2, <2>3, <2>4, <2>5, <2>6, <2>7, <2>8, <2>9, <2>10, StagesAre
<1>2. OK(Default)
    BY DEF Default, Decision, Reasons
<1>3. Len(stages) = 10
    BY StagesAre
<1> HIDE DEF stages
<1>4. OK(first)
    <2> HIDE DEF OK
    <2> QED
        BY <1>1, <1>2, <1>3, VerdictOf
<1> HIDE DEF first
<1>5. Evaluate(r, e, unchallengeable) =
         IF first.action = "challenge" /\ unchallengeable /\ e.cfg.refuse THEN Refused(first)
         ELSE first
    BY DEF Evaluate, first, stages
<1>6. CASE first.action = "challenge" /\ unchallengeable /\ e.cfg.refuse
    <2>1. Evaluate(r, e, unchallengeable) = Refused(first)
        BY <1>5, <1>6
    <2>2. /\ Refused(first).action = "refuse" /\ Refused(first).reason \in Reasons
          /\ Refused(first).reason # "pow:token_underdifficulty"
        BY <1>4 DEF Refused, ReasonCategory, Decision, Reasons
    <2> QED
        BY <1>6, <2>1, <2>2 DEF Verdict
<1>7. CASE ~(first.action = "challenge" /\ unchallengeable /\ e.cfg.refuse)
    <2>1. Evaluate(r, e, unchallengeable) = first
        BY <1>5, <1>7
    <2> QED
        BY <1>4, <2>1 DEF Verdict
<1> QED
    BY <1>6, <1>7

-----------------------------------------------------------------------------
(* The ring                                                                *)

\* The slot of the i-th newest row.
SlotOf(next, i) == IF i <= next THEN next - i ELSE next - i + RingSize
Slot(g, i) == SlotOf(g.next, i)

RingType == [buf : [0 .. RingSize - 1 -> Nat], next : 0 .. RingSize - 1,
             count : 0 .. RingSize, full : BOOLEAN]

RingInv ==
    /\ ring \in RingType /\ added \in Nat
    /\ ring.count = Min2(added, RingSize)
    /\ ring.full <=> added > RingSize
    /\ \A i \in 1 .. ring.count : ring.buf[Slot(ring, i)] = added + 1 - i

\* How the slots move when next does.
LEMMA SlotsMove ==
    ASSUME NEW n \in 0 .. RingSize - 1, NEW m, m = IF n + 1 = RingSize THEN 0 ELSE n + 1,
           NEW i \in 1 .. RingSize
    PROVE  /\ SlotOf(m, 1) = n
           /\ i > 1 => /\ SlotOf(m, i) = SlotOf(n, i - 1)
                       /\ SlotOf(n, i - 1) \in 0 .. RingSize - 1 /\ SlotOf(n, i - 1) # n
<1>0. RingSize \in Nat /\ RingSize > 0
    BY RequestAssumption
<1>1. CASE n + 1 = RingSize
    BY <1>0, <1>1 DEF SlotOf
<1>2. CASE n + 1 # RingSize
    BY <1>0, <1>2 DEF SlotOf
<1> QED
    BY <1>1, <1>2

\* An empty ring.
LEMMA RingInit ==
    ASSUME ring = newRecentRing, added = 0
    PROVE  RingInv
<1>1. RingSize \in Nat /\ RingSize > 0
    BY RequestAssumption
<1> QED
    BY <1>1 DEF RingInv, RingType, newRecentRing, Min2

\* RingAdd overwrites the oldest row only.
LEMMA RingStep ==
    ASSUME RingInv, Recorded \/ Unrecorded
    PROVE  RingInv'
<1>0. RingSize \in Nat /\ RingSize > 0
    BY RequestAssumption
<1>1. CASE Unrecorded
    BY <1>1 DEF Unrecorded, RingInv, RingType, Slot, SlotOf
<1>2. CASE Recorded
    <2>0. ring' = RingAdd(ring, added + 1) /\ added' = added + 1
        BY <1>2 DEF Recorded
    <2>1. /\ ring.buf \in [0 .. RingSize - 1 -> Nat] /\ ring.next \in 0 .. RingSize - 1
          /\ ring.count \in 0 .. RingSize /\ ring.full \in BOOLEAN /\ added \in Nat
          /\ ring.count = Min2(added, RingSize) /\ (ring.full <=> added > RingSize)
        BY DEF RingInv, RingType
    <2>2. /\ ring'.buf = [ring.buf EXCEPT ![ring.next] = added + 1]
          /\ ring'.next = IF ring.next + 1 = RingSize THEN 0 ELSE ring.next + 1
          /\ ring'.count = IF ring.count = RingSize THEN ring.count ELSE ring.count + 1
          /\ ring'.full = (ring.full \/ ring.count = RingSize)
          /\ ring' = [buf |-> ring'.buf, next |-> ring'.next, count |-> ring'.count,
                      full |-> ring'.full]
        BY <2>0 DEF RingAdd
    <2>3. /\ ring'.buf \in [0 .. RingSize - 1 -> Nat] /\ ring'.next \in 0 .. RingSize - 1
          /\ ring'.count \in 0 .. RingSize /\ ring'.full \in BOOLEAN
        BY <1>0, <2>1, <2>2
    <2>4. ring'.count = Min2(added', RingSize) /\ (ring'.full <=> added' > RingSize)
        <3>1. ring.count = RingSize <=> added >= RingSize
            BY <1>0, <2>1 DEF Min2
        <3>2. ring'.count = Min2(added', RingSize)
            BY <1>0, <2>0, <2>1, <2>2, <3>1 DEF Min2
        <3>3. (ring.full \/ ring.count = RingSize) <=> added + 1 > RingSize
            BY <1>0, <2>1, <3>1
        <3> QED
            BY <2>0, <2>2, <3>2, <3>3
    <2>5. ASSUME NEW i \in 1 .. ring'.count
          PROVE  ring'.buf[Slot(ring', i)] = added' + 1 - i
        <3>0. i \in Nat /\ i >= 1 /\ i <= RingSize
            BY <1>0, <2>3
        <3>0a. i \in 1 .. RingSize
            BY <3>0, <1>0
        <3>1. CASE i = 1
            <4>1. Slot(ring', i) = ring.next
                BY <2>1, <2>2, <3>1, <3>0a, SlotsMove DEF Slot
            <4>2. ring'.buf[ring.next] = added + 1
                BY <2>1, <2>2
            <4>3. added' + 1 - i = added + 1
                BY <2>0, <2>1, <3>1
            <4> QED
                BY <4>1, <4>2, <4>3
        <3>2. CASE i # 1
            <4>1. i - 1 \in 1 .. ring.count
                BY <1>0, <2>1, <2>2, <3>0, <3>2
            <4>2. Slot(ring', i) = Slot(ring, i - 1)
                BY <2>1, <2>2, <3>0, <3>0a, <3>2, SlotsMove DEF Slot
            <4>3. Slot(ring, i - 1) \in 0 .. RingSize - 1 /\ Slot(ring, i - 1) # ring.next
                BY <2>1, <2>2, <3>0, <3>0a, <3>2, SlotsMove DEF Slot
            <4>4. ring.buf[Slot(ring, i - 1)] = added + 1 - (i - 1)
                BY <4>1 DEF RingInv
            <4>5. ring'.buf[Slot(ring', i)] = ring.buf[Slot(ring, i - 1)]
                BY <2>1, <2>2, <4>2, <4>3
            <4> QED
                BY <2>0, <2>1, <3>0, <4>4, <4>5
        <3> QED
            BY <3>1, <3>2
    <2>6. ring' \in RingType
        BY <2>2, <2>3 DEF RingType
    <2>7. added' \in Nat
        BY <2>0, <2>1
    <2> QED
        BY <2>4, <2>5, <2>6, <2>7 DEF RingInv
<1> QED
    BY <1>1, <1>2

\* What a snapshot of any length reads.
LEMMA SnapshotReads ==
    ASSUME RingInv, NEW limit \in Nat
    PROVE  RingSnapshot(ring, limit) =
              [i \in 1 .. (IF limit = 0 \/ limit > ring.count THEN ring.count ELSE limit) |->
                  added + 1 - i]
<1> DEFINE n == IF limit <= 0 \/ limit > ring.count THEN ring.count ELSE limit
<1>0. RingSize \in Nat /\ RingSize > 0
    BY RequestAssumption
<1>1. ring.next \in 0 .. RingSize - 1 /\ ring.count \in 0 .. RingSize
    BY DEF RingInv, RingType
<1>2. n \in 0 .. ring.count
    BY <1>0, <1>1
<1>3. n = IF limit = 0 \/ limit > ring.count THEN ring.count ELSE limit
    OBVIOUS
<1> HIDE DEF n
<1>4. ASSUME NEW i \in 1 .. n
      PROVE  ring.buf[(ring.next - i + RingSize) % RingSize] = added + 1 - i
    <2>1. i \in 1 .. ring.count /\ i \in 1 .. RingSize
        BY <1>0, <1>1, <1>2
    <2>2. (ring.next - i + RingSize) % RingSize = Slot(ring, i)
        <3>1. CASE i <= ring.next
            <4> DEFINE x == ring.next - i
            <4>1. x \in Nat /\ x < RingSize /\ ring.next - i + RingSize = x + RingSize
                BY <1>0, <1>1, <2>1, <3>1
            <4>2. (x + RingSize) % RingSize = x
                <5> HIDE DEF x
                <5> QED
                    BY <1>0, <4>1
            <4>3. Slot(ring, i) = x
                BY <3>1 DEF Slot, SlotOf
            <4> HIDE DEF x
            <4> QED
                BY <4>1, <4>2, <4>3
        <3>2. CASE ~(i <= ring.next)
            <4> DEFINE x == ring.next - i + RingSize
            <4>1. x \in Nat /\ x < RingSize
                BY <1>0, <1>1, <2>1, <3>2
            <4>2. x % RingSize = x
                <5> HIDE DEF x
                <5> QED
                    BY <1>0, <4>1
            <4>3. Slot(ring, i) = x
                BY <3>2 DEF Slot, SlotOf
            <4> HIDE DEF x
            <4> QED
                BY <4>2, <4>3 DEF x
        <3> QED
            BY <3>1, <3>2
    <2> QED
        BY <2>1, <2>2 DEF RingInv
<1>5. RingSnapshot(ring, limit) =
         [i \in 1 .. n |-> ring.buf[(ring.next - i + RingSize) % RingSize]]
    BY DEF RingSnapshot, n
<1> QED
    BY <1>3, <1>4, <1>5

\* The two snapshots of the property.
LEMMA RingKeeps ==
    ASSUME RingInv
    PROVE  RingKeepsNewest
<1>0. RingSize \in Nat /\ RingSize > 0 /\ added \in Nat /\ ring.count = Min2(added, RingSize)
    BY RequestAssumption DEF RingInv
<1>1. RingSnapshot(ring, 0) = [i \in 1 .. Min2(added, RingSize) |-> added + 1 - i]
    BY <1>0, SnapshotReads
<1>2. RingSnapshot(ring, 1) = [i \in 1 .. Min2(added, 1) |-> added]
    <2> DEFINE n == IF 1 = 0 \/ 1 > ring.count THEN ring.count ELSE 1
    <2>1. RingSnapshot(ring, 1) = [i \in 1 .. n |-> added + 1 - i]
        BY SnapshotReads
    <2>2. n = Min2(added, 1) /\ n \in 0 .. 1
        BY <1>0 DEF Min2
    <2> HIDE DEF n
    <2>3. \A i \in 1 .. n : added + 1 - i = added
        BY <1>0, <2>2
    <2> QED
        BY <2>1, <2>2, <2>3
<1> QED
    BY <1>1, <1>2 DEF RingKeepsNewest, RingInv

-----------------------------------------------------------------------------
(* Visits                                                                  *)

Places == {"idle", "admit", "shed", "begin", "stages", "hop", "issue", "done"}
Kinds  == {"absent", "none", "subresource_refused", "accept_heuristic_refused"}
Actions == {"none", "allow", "deny", "challenge", "refuse"}
Answers == {"none", "allow", "deny", "shed", "refused", "unavailable", "limited", "issued"}
Heads  == {f.head : f \in Fetches} \cup {Stripped}

VisitType == [pc : Places, client : Clients, path : Paths, head : Heads, cookie : Cookies,
              floor : Nat, current : Nat, bound : Nat, before : SUBSET Visits, snap : AllScopes,
              posture : Postures, bits : Nat, relay : Kinds, recorded : Actions,
              reason : Reasons, served : Answers]

Offers == [by : Visits, token : Cookies, floor : Nat]

ClientTypes ==
    /\ unsolved \in [Clients -> Nat] /\ framed \in [Clients -> Nat]
    /\ issues \in [Clients -> Nat] /\ asked \in [Clients -> Nat]
    /\ offers \in [Clients -> SUBSET Offers]
    /\ cookie \in [Clients -> Cookies] /\ floor \in [Clients -> Nat]

LiveTypes == cfg \in Configs /\ posture \in Postures /\ relays \in BOOLEAN

\* A visit was counted with those in flight when it arrived; it was admitted within the
\* bound it read; with a proxy that relays verdicts its challenge hop knows the refusal.
Counted(x) ==
    /\ x.pc \in {"admit", "begin", "stages"} => x.current = Cardinality(x.before) + 1
    /\ x.pc \in {"begin", "stages"} /\ x.bound > 0 => x.current <= x.bound
Relayed(x) ==
    relays /\ x.pc \in {"hop", "issue"} =>
        /\ x.relay # "absent" /\ (x.relay # "none" <=> x.recorded = "refuse")
        /\ x.pc = "issue" => x.relay = "none"

\* A token is worth the base its challenge was issued at.
Worth(token, base) == token.kind = "signed" => token.bits >= base

\* The reason of a verdict is kept while its challenge hop is due.
Judged(x) == x.reason # "none" => x.pc \in {"hop", "issue"}

VisitOK(x) == Counted(x) /\ Relayed(x) /\ Worth(x.cookie, x.floor) /\ Judged(x)

VisitInv ==
    /\ visit \in [Visits -> VisitType]
    /\ \A v \in Visits : VisitOK(visit[v])

FlightInv == inflight = Cardinality(InFlight)

ClientInv ==
    \A c \in Clients : /\ unsolved[c] <= asked[c]
                       /\ Worth(cookie[c], floor[c])
                       /\ \A o \in offers[c] : Worth(o.token, o.floor)

Inv == /\ LiveTypes /\ ClientTypes /\ VisitInv /\ FlightInv /\ ClientInv
       /\ farms \subseteq Nat /\ NoFarmWithoutAbandon /\ RingInv

\* The fields a visit does not use have a value of their type.
LEMMA FreshIs ==
    /\ AnyClient \in Clients /\ AnyPath \in Paths /\ AnyScope \in AllScopes
    /\ Fresh \in VisitType /\ Stripped \in Heads /\ NoCookie \in Cookies /\ VisitOK(Fresh)
<1>1. AnyClient \in Clients
    BY RequestAssumption DEF AnyClient
<1>2. AnyPath \in Paths
    BY RequestAssumption DEF AnyPath, Paths
<1>3. AnyScope \in AllScopes
    <2>0. PICK config \in Configs : TRUE
        BY RequestAssumption
    <2>0a. config.domain.scope \in Scopes(config.domain)
        BY DEF Scopes
    <2>1. AllScopes # {}
        BY <2>0a DEF AllScopes
    <2> QED
        BY <2>1 DEF AnyScope
<1>4. NoCookie \in Cookies /\ Stripped \in Heads /\ Normal \in Postures
    BY InputsAreTyped DEF NoCookie, Token, Cookies, Heads
<1>5. /\ "idle" \in Places /\ "absent" \in Kinds /\ "none" \in Actions /\ "none" \in Reasons
      /\ "none" \in Answers /\ {} \in SUBSET Visits
    BY DEF Places, Kinds, Actions, Reasons, Answers
<1>6. Fresh \in VisitType
    BY <1>1, <1>2, <1>3, <1>4, <1>5 DEF Fresh, VisitType
<1>7. VisitOK(Fresh)
    BY DEF VisitOK, Judged, Counted, Relayed, Worth, Fresh, NoCookie, Token
<1> QED
    BY <1>1, <1>2, <1>3, <1>4, <1>6, <1>7

\* Keys as long as each other that match one path as prefixes are one key.
LEMMA PrefixesAgree ==
    ASSUME NEW a \in Seq(STRING), NEW b \in Seq(STRING), NEW path \in Seq(STRING),
           IsPrefix(a, path), IsPrefix(b, path), Len(a) = Len(b)
    PROVE  a = b
<1>1. SubSeq(a, 1, Len(a)) = SubSeq(b, 1, Len(b))
    BY DEF IsPrefix
<1>2. \A s \in Seq(STRING) : SubSeq(s, 1, Len(s)) = s
    OBVIOUS
<1> QED
    BY <1>1, <1>2

\* Of the overlays that match a path one is more specific than all others, so that
\* the sort of resolvePaths decides which of them ForPath returns.
LEMMA MostSpecificHit ==
    ASSUME NEW overlays, Keyed(overlays), NEW path \in Seq(STRING),
           NEW hits, hits = {o \in overlays : Matches(o, path)}, hits # {}
    PROVE  \E o \in hits : \A p \in hits \ {o} : MoreSpecific(o, p)
<1>1. \A o \in hits : /\ o \in overlays /\ o.key \in Seq(STRING) /\ Len(o.key) \in Nat
                      /\ o.prefix \in BOOLEAN /\ Matches(o, path)
    BY DEF Keyed
<1>2. \A o \in hits : Len(o.key) <= Len(path)
    BY <1>1 DEF Matches, IsPrefix
<1>3. CASE \E o \in hits : ~o.prefix
    <2>1. PICK o \in hits : ~o.prefix
        BY <1>3
    <2>2. o.key = path
        BY <1>1, <2>1 DEF Matches
    <2>3. ASSUME NEW p \in hits \ {o} PROVE MoreSpecific(o, p)
        <3>1. CASE Len(p.key) = Len(path)
            <4>1. p.key = path
                <5>1. CASE p.prefix
                    <6>1. IsPrefix(p.key, path) /\ IsPrefix(path, path)
                        BY <1>1, <5>1 DEF Matches, IsPrefix
                    <6> QED
                        BY <1>1, <3>1, <6>1, PrefixesAgree
                <5> QED
                    BY <1>1, <5>1 DEF Matches
            <4>2. p.prefix # o.prefix
                BY <1>1, <2>2, <4>1 DEF Keyed
            <4> QED
                BY <1>1, <2>1, <2>2, <3>1, <4>2 DEF MoreSpecific
        <3>2. CASE Len(p.key) # Len(path)
            BY <1>1, <1>2, <2>2, <3>2 DEF MoreSpecific
        <3> QED
            BY <3>1, <3>2
    <2> QED
        BY <2>3
<1>4. CASE \A o \in hits : o.prefix
    <2> DEFINE I == {Len(path) - Len(o.key) : o \in hits}
    <2>1. I \in SUBSET Nat /\ I # {}
        <3>1. Len(path) \in Nat
            OBVIOUS
        <3>2. \A o \in hits : Len(path) - Len(o.key) \in Nat
            BY <1>1, <1>2, <3>1
        <3> QED
            BY <3>2
    <2>2. PICK k \in I : \A j \in I : k <= j
        <3> HIDE DEF I
        <3> QED
            BY <2>1, LeastNumber
    <2>3. PICK o \in hits : k = Len(path) - Len(o.key)
        OBVIOUS
    <2>4. ASSUME NEW p \in hits \ {o} PROVE MoreSpecific(o, p)
        <3>1. Len(p.key) <= Len(o.key)
            <4>1. Len(path) - Len(p.key) \in I
                OBVIOUS
            <4>2. Len(path) - Len(o.key) <= Len(path) - Len(p.key)
                BY <2>2, <2>3, <4>1
            <4> QED
                BY <1>1, <4>2
        <3>2. Len(p.key) # Len(o.key)
            <4>1. IsPrefix(p.key, path) /\ IsPrefix(o.key, path) /\ p.prefix /\ o.prefix
                BY <1>1, <1>4 DEF Matches
            <4>2. p.key # o.key
                BY <1>1, <4>1 DEF Keyed
            <4> QED
                BY <1>1, <4>1, <4>2, PrefixesAgree
        <3> QED
            BY <1>1, <3>1, <3>2 DEF MoreSpecific
    <2> QED
        BY <2>4
<1> QED
    BY <1>3, <1>4

\* ForPath returns the scope of the most specific overlay that matches, and the
\* domain's own only where none does.
LEMMA PathHasScope ==
    ASSUME NEW domain, Keyed(domain.overlays), NEW path \in Seq(STRING)
    PROVE  ForPath(domain, path) \in Scopes(domain)
<1> DEFINE hits == {o \in domain.overlays : Matches(o, path)}
<1>1. CASE hits = {}
    BY <1>1 DEF ForPath, Scopes
<1>2. CASE hits # {}
    <2>1. \E o \in hits : \A p \in hits \ {o} : MoreSpecific(o, p)
        <3>1. hits = {o \in domain.overlays : Matches(o, path)}
            OBVIOUS
        <3> HIDE DEF hits
        <3> QED
            BY <1>2, <3>1, MostSpecificHit
    <2>2. PICK o \in hits : o = CHOOSE q \in hits : \A p \in hits \ {q} : MoreSpecific(q, p)
        BY <2>1
    <2>3. ForPath(domain, path) = o.scope
        BY <1>2, <2>2 DEF ForPath
    <2> QED
        BY <2>3 DEF Scopes
<1> QED
    BY <1>1, <1>2

\* The scope of a visit's path.
LEMMA LiveIs ==
    ASSUME LiveTypes, VisitInv, NEW v \in Visits
    PROVE  Live(v) \in AllScopes
<1>1. visit[v].path \in Paths /\ cfg \in Configs
    BY DEF LiveTypes, VisitInv, VisitType
<1>2. PICK p \in Paths : p = visit[v].path
    BY <1>1
<1>3. Live(v) = ForPath(cfg.domain, p)
    BY <1>1, <1>2 DEF Live, ConfigFor
<1>4. ForPath(cfg.domain, p) \in Scopes(cfg.domain)
    BY <1>1, ConfigsAreValid, InputsAreTyped, PathHasScope
<1> QED
    BY <1>1, <1>3, <1>4 DEF AllScopes

\* One visit moves.
LEMMA VisitStep ==
    ASSUME VisitInv, NEW v \in Visits, NEW x \in VisitType, Step(v, x), VisitOK(x),
           UNCHANGED relays
    PROVE  /\ VisitInv' /\ visit'[v] = x
           /\ \A w \in Visits \ {v} : visit'[w] = visit[w]
<1>1. visit' = [visit EXCEPT ![v] = x] /\ visit \in [Visits -> VisitType]
    BY DEF Step, VisitInv
<1>2. /\ visit' \in [Visits -> VisitType] /\ visit'[v] = x
      /\ \A w \in Visits \ {v} : visit'[w] = visit[w]
    BY <1>1
<1>3. \A w \in Visits : VisitOK(visit[w])
    BY DEF VisitInv
<1>4. ASSUME NEW w \in Visits
      PROVE  VisitOK(visit[w])'
    BY <1>2, <1>3 DEF VisitOK, Judged, Counted, Relayed, Worth
<1> QED
    BY <1>2, <1>4 DEF VisitInv

\* A visit that is over.
LEMMA ClosedIs ==
    ASSUME NEW answer \in Answers
    PROVE  /\ Closed(answer) \in VisitType /\ VisitOK(Closed(answer))
           /\ Closed(answer).pc = "done" /\ Closed(answer).served = answer
           /\ Closed(answer).reason = "none"
<1>1. Closed(answer) = [Fresh EXCEPT !.pc = "done", !.served = answer]
    BY DEF Closed
<1>2. Fresh.reason = "none" /\ Fresh.cookie = NoCookie
    BY DEF Fresh
<1>3. Closed(answer) \in VisitType /\ Closed(answer).pc = "done" /\ Closed(answer).served = answer
      /\ Closed(answer).reason = "none" /\ Closed(answer).cookie = NoCookie
    BY <1>1, <1>2, FreshIs DEF VisitType, Places
<1>4. VisitOK(Closed(answer))
    BY <1>3 DEF VisitOK, Judged, Counted, Relayed, Worth, NoCookie, Token
<1> QED
    BY <1>3, <1>4

\* Those in flight are finitely many.
LEMMA FlightFinite ==
    /\ IsFiniteSet(InFlight) /\ InFlight \subseteq Visits /\ Cardinality(InFlight) \in Nat
    /\ \A v \in Visits \ InFlight : Cardinality(InFlight \cup {v}) = Cardinality(InFlight) + 1
    /\ \A v \in InFlight : Cardinality(InFlight \ {v}) = Cardinality(InFlight) - 1
<1>1. InFlight \subseteq Visits /\ IsFiniteSet(Visits)
    BY RequestAssumption DEF InFlight
<1>2. IsFiniteSet(InFlight)
    BY <1>1, FS_Subset
<1> HIDE DEF InFlight
<1> QED
    BY <1>1, <1>2, FS_CardinalityType, FS_AddElement, FS_RemoveElement

\* One visit moves, and with it the number of those in flight.
LEMMA FlightStep ==
    ASSUME FlightInv, NEW v \in Visits, NEW x, visit'[v] = x,
           \A w \in Visits \ {v} : visit'[w] = visit[w]
    PROVE  /\ v \notin InFlight /\ x.pc = "admit" /\ inflight' = inflight + 1 => FlightInv'
           /\ v \in InFlight /\ x.pc \in {"begin", "stages"} /\ inflight' = inflight => FlightInv'
           /\ v \in InFlight /\ x.pc \in {"shed", "hop", "done"} /\ inflight' = inflight - 1 =>
                 FlightInv'
           /\ v \notin InFlight /\ x.pc \in {"hop", "issue", "done"} /\ inflight' = inflight =>
                 FlightInv'
<1>1. CASE v \notin InFlight /\ x.pc = "admit"
    <2>1. InFlight' = InFlight \cup {v}
        BY <1>1 DEF InFlight
    <2> QED
        BY <1>1, <2>1, FlightFinite DEF FlightInv
<1>2. CASE v \in InFlight /\ x.pc \in {"begin", "stages"}
    <2>1. InFlight' = InFlight
        BY <1>2 DEF InFlight
    <2> QED
        BY <1>2, <2>1 DEF FlightInv
<1>3. CASE v \in InFlight /\ x.pc \in {"shed", "hop", "done"}
    <2>1. InFlight' = InFlight \ {v}
        BY <1>3 DEF InFlight
    <2> QED
        BY <1>3, <2>1, FlightFinite DEF FlightInv
<1>4. CASE v \notin InFlight /\ x.pc \in {"hop", "issue", "done"}
    <2>1. InFlight' = InFlight
        BY <1>4 DEF InFlight
    <2> QED
        BY <1>4, <2>1 DEF FlightInv
<1> QED
    BY <1>1, <1>2, <1>3, <1>4

\* The rest of the invariant in a step that touches no client and no live setting.
LEMMA Aside ==
    ASSUME Inv, UNCHANGED <<cfg, posture, relays, clientVars>>, VisitInv', FlightInv', RingInv'
    PROVE  Inv'
<1>1. LiveTypes' /\ ClientTypes'
    BY DEF Inv, LiveTypes, ClientTypes, clientVars
<1>2. ClientInv'
    BY DEF Inv, ClientInv, Worth, clientVars
<1>3. (farms \subseteq Nat)' /\ NoFarmWithoutAbandon'
    BY DEF Inv, NoFarmWithoutAbandon, clientVars
<1> QED
    BY <1>1, <1>2, <1>3 DEF Inv

\* A request arrives and is counted.
LEMMA ArriveInv ==
    ASSUME Inv, NEW v \in Visits, Arrive(v)
    PROVE  Inv'
<1>1. PICK c \in Clients, f \in Fetches :
         Step(v, [visit[v] EXCEPT !.pc = "admit", !.client = c, !.path = f.path, !.head = f.head,
                    !.cookie = IF f.stale THEN Token("invalid", 0) ELSE cookie[c],
                    !.floor = floor[c],
                    !.current = Entering(inflight), !.before = InFlight])
    BY DEF Arrive
<1> DEFINE token == IF f.stale THEN Token("invalid", 0) ELSE cookie[c]
           x == [visit[v] EXCEPT !.pc = "admit", !.client = c, !.path = f.path, !.head = f.head,
                    !.cookie = token, !.floor = floor[c],
                    !.current = inflight + 1, !.before = InFlight]
<1>2. token \in Cookies /\ Worth(token, floor[c]) /\ floor[c] \in Nat
    <2>1. Token("invalid", 0) \in Cookies /\ Worth(Token("invalid", 0), floor[c])
        BY DEF Token, Cookies, Worth
    <2>2. cookie[c] \in Cookies /\ Worth(cookie[c], floor[c]) /\ floor[c] \in Nat
        BY DEF Inv, ClientTypes, ClientInv
    <2> QED
        BY <2>1, <2>2
<1> HIDE DEF token
<1>3. inflight = Cardinality(InFlight) /\ inflight + 1 \in Nat /\ InFlight \subseteq Visits
    BY FlightFinite DEF Inv, FlightInv
<1>4. f.path \in Paths /\ f.head \in Heads /\ "admit" \in Places
    BY DEF Paths, Heads, Places
<1>5. visit[v] \in VisitType /\ visit[v].pc = "idle" /\ visit[v].reason = "none"
    BY DEF Inv, VisitInv, VisitOK, Judged, Arrive
<1>6. /\ x \in VisitType
      /\ x.pc = "admit" /\ x.cookie = token /\ x.floor = floor[c]
      /\ x.current = inflight + 1 /\ x.before = InFlight /\ x.reason = visit[v].reason
    BY <1>2, <1>3, <1>4, <1>5 DEF VisitType
<1>7. Step(v, x)
    BY <1>1 DEF Entering, token
<1> HIDE DEF x
<1>8. VisitOK(x)
    BY <1>2, <1>3, <1>5, <1>6 DEF VisitOK, Judged, Counted, Relayed
<1>9. UNCHANGED <<cfg, posture, relays, clientVars, ring, added>> /\ inflight' = inflight + 1
    BY DEF Arrive, Entering
<1>10. VisitInv' /\ visit'[v] = x /\ \A w \in Visits \ {v} : visit'[w] = visit[w]
    BY <1>6, <1>7, <1>8, <1>9, VisitStep DEF Inv
<1>11. v \notin InFlight
    BY <1>5 DEF InFlight
<1>12. FlightInv'
    BY <1>6, <1>9, <1>10, <1>11, FlightStep DEF Inv
<1>13. RingInv'
    BY <1>9, RingStep DEF Inv, Unrecorded
<1> QED
    BY <1>9, <1>10, <1>12, <1>13, Aside

\* The bound is compared with the count of the arrival, and kept.
LEMMA AdmitInv ==
    ASSUME Inv, NEW v \in Visits, Admit(v)
    PROVE  Inv'
<1> DEFINE over == cfg.bound > 0 /\ visit[v].current > cfg.bound
           x == IF over THEN [visit[v] EXCEPT !.pc = "shed"]
                ELSE [visit[v] EXCEPT !.pc = "begin", !.bound = cfg.bound]
<1>1. /\ visit[v] \in VisitType /\ VisitOK(visit[v]) /\ visit[v].pc = "admit"
      /\ cfg.bound \in Nat /\ visit[v].current \in Nat
    BY ConfigsAreValid DEF Inv, VisitInv, VisitType, LiveTypes, Admit
<1>2. /\ Step(v, x) /\ inflight' = (IF over THEN inflight - 1 ELSE inflight)
      /\ UNCHANGED <<cfg, posture, relays, clientVars, ring, added>>
    BY DEF Admit
<1>3. /\ x \in VisitType /\ x.cookie = visit[v].cookie /\ x.floor = visit[v].floor
      /\ x.current = visit[v].current /\ x.before = visit[v].before
      /\ x.pc = (IF over THEN "shed" ELSE "begin") /\ x.reason = visit[v].reason
      /\ ~over => x.bound = cfg.bound
    <2>1. "shed" \in Places /\ "begin" \in Places
        BY DEF Places
    <2> QED
        BY <1>1, <2>1 DEF VisitType
<1> HIDE DEF x
<1>4. VisitOK(x)
    BY <1>1, <1>3 DEF VisitOK, Judged, Counted, Relayed
<1>5. VisitInv' /\ visit'[v] = x /\ \A w \in Visits \ {v} : visit'[w] = visit[w]
    BY <1>2, <1>3, <1>4, VisitStep DEF Inv
<1>6. v \in InFlight
    BY <1>1 DEF InFlight
<1>7. FlightInv'
    <2>1. CASE over
        BY <1>2, <1>3, <1>5, <1>6, <2>1, FlightStep DEF Inv
    <2>2. CASE ~over
        BY <1>2, <1>3, <1>5, <1>6, <2>2, FlightStep DEF Inv
    <2> QED
        BY <2>1, <2>2
<1>8. RingInv'
    BY <1>2, RingStep DEF Inv, Unrecorded
<1> QED
    BY <1>2, <1>5, <1>7, <1>8, Aside

\* What the overload path answers.
LEMMA ShedAnswers ==
    ASSUME NEW scope \in AllScopes, NEW state \in Postures, NEW token \in Cookies,
           NEW verdict \in ShedVerdicts[scope][state][token]
    PROVE  ShedAnswer(verdict) \in Answers
<1>1. ShedVerdicts[scope][state][token] =
         UNION {{ShedDecision(With(t, token), e) : e \in Lookups(t, scope, state)} : t \in Traits}
    BY DEF ShedVerdicts
<1>2. \E r, f : verdict = ShedDecision(r, f)
    BY <1>1
<1>3. \A r, f : ShedDecision(r, f) \in {"pass", "deny", "reject"}
    BY DEF ShedDecision, ShedVerdict
<1>4. verdict \in {"pass", "deny", "reject"}
    BY <1>2, <1>3
<1> QED
    BY <1>4 DEF ShedAnswer, Answers

\* What the full evaluation may answer.
LEMMA VerdictIs ==
    ASSUME NEW scope \in AllScopes, NEW state \in Postures, NEW token \in Cookies,
           NEW unchallengeable \in BOOLEAN,
           NEW d \in Verdicts[scope][state][token][unchallengeable]
    PROVE  /\ Verdict(d)
           /\ d.action = "refuse" => unchallengeable
           /\ d.reason = "pow:token_underdifficulty" =>
                 token.kind = "signed" /\ token.bits < (IF scope.argon THEN 0 ELSE scope.base)
<1>1. Verdicts[scope][state][token][unchallengeable] =
         UNION {{Evaluate(With(t, token), e, unchallengeable) : e \in Lookups(t, scope, state)} :
                  t \in Traits}
    BY DEF Verdicts
<1>2a. PICK t \in Traits : \E e \in Lookups(t, scope, state) :
         d = Evaluate(With(t, token), e, unchallengeable)
    BY <1>1
<1>2. PICK e \in Lookups(t, scope, state) : d = Evaluate(With(t, token), e, unchallengeable)
    BY <1>2a
<1>3. e.cfg = scope /\ e.posture = state
    BY DEF Lookups
<1>4. With(t, token).score \in 0 .. FullScore /\ With(t, token).cookie = token
    BY InputsAreTyped DEF With
<1>5. PICK r : r = With(t, token)
    OBVIOUS
<1>6. /\ Verdict(Evaluate(r, e, unchallengeable))
      /\ Evaluate(r, e, unchallengeable).action = "refuse" => unchallengeable
      /\ Evaluate(r, e, unchallengeable).reason = "pow:token_underdifficulty" =>
            r.cookie.kind = "signed" /\ r.cookie.bits < TokenMinBits(e)
    BY <1>3, <1>4, <1>5, EvaluateAnswers
<1>7. TokenMinBits(e) = IF scope.argon THEN 0 ELSE scope.base
    BY <1>3 DEF TokenMinBits
<1> QED
    BY <1>2, <1>4, <1>5, <1>6, <1>7

\* A visit that was shed is over.
LEMMA ShedInv ==
    ASSUME Inv, NEW v \in Visits, Shed(v)
    PROVE  Inv'
<1>1. /\ visit[v] \in VisitType /\ visit[v].pc = "shed" /\ visit[v].cookie \in Cookies
      /\ Live(v) \in AllScopes /\ posture \in Postures
    BY LiveIs DEF Inv, VisitInv, VisitType, LiveTypes, Shed
<1>2. PICK verdict \in ShedVerdicts[Live(v)][posture][visit[v].cookie] :
         Step(v, Closed(ShedAnswer(verdict)))
    BY DEF Shed
<1>3. ShedAnswer(verdict) \in Answers
    <2>1. PICK scope \in AllScopes, state \in Postures, token \in Cookies :
             scope = Live(v) /\ state = posture /\ token = visit[v].cookie
        BY <1>1
    <2>2. verdict \in ShedVerdicts[scope][state][token]
        BY <2>1
    <2> QED
        BY <2>2, ShedAnswers
<1>4. PICK x \in VisitType : x = Closed(ShedAnswer(verdict)) /\ VisitOK(x) /\ x.pc = "done"
    BY <1>3, ClosedIs
<1>5. Step(v, x) /\ UNCHANGED <<cfg, posture, relays, inflight, clientVars, ring, added>>
    BY <1>2, <1>4 DEF Shed
<1>6. VisitInv' /\ visit'[v] = x /\ \A w \in Visits \ {v} : visit'[w] = visit[w]
    BY <1>4, <1>5, VisitStep DEF Inv
<1>7. v \notin InFlight
    BY <1>1 DEF InFlight
<1>8. FlightInv'
    BY <1>4, <1>5, <1>6, <1>7, FlightStep DEF Inv
<1>9. RingInv'
    BY <1>5, RingStep DEF Inv, Unrecorded
<1> QED
    BY <1>5, <1>6, <1>8, <1>9, Aside

\* Evaluate takes its configuration and posture.
LEMMA BeginInv ==
    ASSUME Inv, NEW v \in Visits, Begin(v)
    PROVE  Inv'
<1> DEFINE x == [visit[v] EXCEPT !.pc = "stages", !.snap = Live(v), !.posture = posture]
<1>1. /\ visit[v] \in VisitType /\ VisitOK(visit[v]) /\ visit[v].pc = "begin"
      /\ Live(v) \in AllScopes /\ posture \in Postures /\ "stages" \in Places
    BY LiveIs DEF Inv, VisitInv, VisitType, LiveTypes, Begin, Places
<1>2. Step(v, x) /\ UNCHANGED <<cfg, posture, relays, inflight, clientVars, ring, added>>
    BY DEF Begin
<1>3. /\ x \in VisitType /\ x.cookie = visit[v].cookie /\ x.floor = visit[v].floor
      /\ x.current = visit[v].current /\ x.before = visit[v].before /\ x.bound = visit[v].bound
      /\ x.pc = "stages" /\ x.reason = visit[v].reason
    BY <1>1 DEF VisitType
<1> HIDE DEF x
<1>4. VisitOK(x)
    BY <1>1, <1>3 DEF VisitOK, Judged, Counted, Relayed
<1>5. VisitInv' /\ visit'[v] = x /\ \A w \in Visits \ {v} : visit'[w] = visit[w]
    BY <1>2, <1>3, <1>4, VisitStep DEF Inv
<1>6. v \in InFlight
    BY <1>1 DEF InFlight
<1>7. FlightInv'
    BY <1>2, <1>3, <1>5, <1>6, FlightStep DEF Inv
<1>8. RingInv'
    BY <1>2, RingStep DEF Inv, Unrecorded
<1> QED
    BY <1>2, <1>5, <1>7, <1>8, Aside

\* Why a request cannot complete a challenge.
LEMMA KindIs ==
    ASSUME NEW h
    PROVE  refusalKind(h) \in Kinds \ {"absent"}
    BY DEF refusalKind, Kinds

\* What the auth hop leaves for the challenge hop, or for nobody.
LEMMA DecideVisit ==
    ASSUME Inv, NEW v \in Visits, Decide(v)
    PROVE  \E x \in VisitType :
              /\ Step(v, x) /\ VisitOK(x) /\ x.pc \in {"hop", "done"}
              /\ x.reason = "pow:token_underdifficulty" =>
                    visit[v].snap.base > visit[v].floor /\ visit[v].cookie.kind # "argon"
<1>1. /\ visit[v] \in VisitType /\ VisitOK(visit[v]) /\ visit[v].pc = "stages"
      /\ visit[v].cookie \in Cookies /\ visit[v].snap \in AllScopes
      /\ visit[v].posture \in Postures /\ visit[v].floor \in Nat
    BY DEF Inv, VisitInv, VisitType, Decide
<1>2. PICK d \in Verdicts[visit[v].snap][visit[v].posture][visit[v].cookie][Unchallengeable(v)] :
         Step(v, IF d.action \in {"challenge", "refuse"} THEN Relay(v, d) ELSE Closed(d.action))
    BY DEF Decide
<1>3. PICK scope \in AllScopes, state \in Postures, token \in Cookies, u \in BOOLEAN :
         /\ scope = visit[v].snap /\ state = visit[v].posture /\ token = visit[v].cookie
         /\ u = Unchallengeable(v)
    BY <1>1 DEF Unchallengeable
<1>4. d \in Verdicts[scope][state][token][u]
    BY <1>2, <1>3
<1>5. /\ Verdict(d)
      /\ d.action = "refuse" => u
      /\ d.reason = "pow:token_underdifficulty" =>
            token.kind = "signed" /\ token.bits < (IF scope.argon THEN 0 ELSE scope.base)
    BY <1>4, VerdictIs
<1>6. CASE d.action \notin {"challenge", "refuse"}
    <2>1. d.action \in Answers
        BY <1>5, <1>6 DEF Verdict, Answers
    <2>2. PICK x \in VisitType : /\ x = Closed(d.action) /\ VisitOK(x) /\ x.pc = "done"
                                 /\ x.reason = "none"
        BY <2>1, ClosedIs
    <2>3. Step(v, x)
        BY <1>2, <1>6, <2>2
    <2> QED
        BY <2>2, <2>3
<1>7. CASE d.action \in {"challenge", "refuse"}
    <2> DEFINE bits  == IF d.action = "challenge" THEN d.bits ELSE 0
               kind  == refusalKind(visit[v].head)
               relay == IF ~relays THEN "absent" ELSE IF d.action = "refuse" THEN kind ELSE "none"
               x == [visit[v] EXCEPT !.pc = "hop", !.cookie = NoCookie, !.floor = 0,
                        !.snap = AnyScope, !.posture = Normal, !.current = 0, !.bound = 0,
                        !.before = {}, !.recorded = d.action, !.reason = d.reason,
                        !.bits = bits, !.relay = relay]
    <2>1. x = Relay(v, d)
        BY DEF Relay
    <2>2. bits \in Nat
        BY <1>5 DEF Verdict
    <2>3. kind \in Kinds /\ kind # "absent" /\ (d.action = "refuse" => kind # "none")
        <3>1. kind \in Kinds \ {"absent"}
            BY KindIs
        <3>2. d.action = "refuse" => kind # "none"
            BY <1>3, <1>5 DEF Unchallengeable
        <3> QED
            BY <3>1, <3>2
    <2> HIDE DEF kind, bits
    <2>4. /\ relay \in Kinds
          /\ relays => relay # "absent" /\ (relay # "none" <=> d.action = "refuse")
        BY <2>3 DEF Kinds
    <2> HIDE DEF relay
    <2>5. /\ NoCookie \in Cookies /\ AnyScope \in AllScopes /\ Normal \in Postures
          /\ "hop" \in Places /\ d.action \in Actions /\ d.reason \in Reasons
          /\ {} \in SUBSET Visits
        BY <1>5, FreshIs, InputsAreTyped DEF Places, Actions, Verdict
    <2>6. /\ x \in VisitType /\ x.pc = "hop" /\ x.cookie = NoCookie /\ x.recorded = d.action
          /\ x.reason = d.reason /\ x.relay = relay
        BY <1>1, <2>2, <2>4, <2>5 DEF VisitType
    <2> HIDE DEF x
    <2>7. VisitOK(x)
        BY <2>4, <2>6 DEF VisitOK, Judged, Counted, Relayed, Worth, NoCookie, Token
    <2>8. Step(v, x)
        BY <1>2, <1>7, <2>1
    <2>9. x.reason = "pow:token_underdifficulty" =>
             visit[v].snap.base > visit[v].floor /\ visit[v].cookie.kind # "argon"
        <3>1. SUFFICES ASSUME x.reason = "pow:token_underdifficulty"
                       PROVE  visit[v].snap.base > visit[v].floor /\ visit[v].cookie.kind # "argon"
            OBVIOUS
        <3>2. token.kind = "signed" /\ token.bits < (IF scope.argon THEN 0 ELSE scope.base)
            BY <1>5, <2>6, <3>1
        <3>3. token.bits \in Nat /\ scope.base \in Nat
            BY <3>2, ConfigsAreValid, RequestAssumption DEF Cookies, Token
        <3>4. token.bits >= visit[v].floor
            BY <1>1, <1>3, <3>2 DEF VisitOK, Worth
        <3> QED
            BY <1>1, <1>3, <3>2, <3>3, <3>4
    <2> QED
        BY <2>6, <2>7, <2>8, <2>9
<1> QED
    BY <1>6, <1>7

\* The evaluation ends: it is counted out and its decision recorded.
LEMMA DecideInv ==
    ASSUME Inv, NEW v \in Visits, Decide(v)
    PROVE  Inv'
<1>1. PICK x \in VisitType : Step(v, x) /\ VisitOK(x) /\ x.pc \in {"hop", "done"}
    BY DecideVisit
<1>2. /\ UNCHANGED <<cfg, posture, relays, clientVars>> /\ inflight' = inflight - 1
      /\ Recorded \/ Unrecorded
    BY DEF Decide
<1>3. VisitInv' /\ visit'[v] = x /\ \A w \in Visits \ {v} : visit'[w] = visit[w]
    BY <1>1, <1>2, VisitStep DEF Inv
<1>4. v \in InFlight
    BY DEF Decide, InFlight
<1>5. FlightInv'
    BY <1>1, <1>2, <1>3, <1>4, FlightStep DEF Inv
<1>6. RingInv'
    BY <1>2, RingStep DEF Inv
<1> QED
    BY <1>2, <1>3, <1>5, <1>6, Aside

\* The challenge hop: a refusal, another short answer, or on to the page.
LEMMA HopVisit ==
    ASSUME Inv, NEW v \in Visits, Hop(v)
    PROVE  /\ \E x \in VisitType :
                 /\ Step(v, x) /\ VisitOK(x) /\ x.pc \in {"issue", "done"}
                 /\ relays /\ x.pc = "done" =>
                       (x.served = "refused" <=> visit[v].recorded = "refuse")
           /\ issues' \in [Clients -> Nat]
<1>1. /\ visit[v] \in VisitType /\ VisitOK(visit[v]) /\ visit[v].pc = "hop"
      /\ visit[v].client \in Clients /\ visit[v].head \in Heads
      /\ Live(v) \in AllScopes /\ "issue" \in Places
    BY LiveIs DEF Inv, VisitInv, VisitType, Hop, Places
<1> DEFINE c == visit[v].client
           y(h) == [visit[v] EXCEPT !.pc = "issue", !.head = h, !.snap = Live(v)]
<1>2. PICK h \in {visit[v].head, Stripped} :
         /\ Step(v, IF Refusal(v, h) # "none" THEN Closed("refused")
                    ELSE IF ~Live(v).pow THEN Closed("unavailable")
                    ELSE IF rateLimitExceeded(v, issues[c] + 1) THEN Closed("limited")
                    ELSE y(h))
         /\ issues' = IF Refusal(v, h) # "none" \/ ~Live(v).pow THEN issues
                      ELSE [issues EXCEPT ![c] = @ + 1]
    BY DEF Hop
<1>3. issues' \in [Clients -> Nat]
    BY <1>1, <1>2 DEF Inv, ClientTypes
<1>4. relays => (Refusal(v, h) # "none" <=> visit[v].recorded = "refuse")
    BY <1>1 DEF VisitOK, Relayed, Refusal
<1>5. h \in Heads
    BY <1>1, <1>2 DEF Heads
<1>6. CASE Refusal(v, h) # "none"
    <2>1. PICK x \in VisitType : /\ x = Closed("refused") /\ VisitOK(x) /\ x.pc = "done"
                                 /\ x.served = "refused"
        BY ClosedIs DEF Answers
    <2>2. Step(v, x)
        BY <1>2, <1>6, <2>1
    <2> QED
        BY <1>3, <1>4, <1>6, <2>1, <2>2
<1>7. CASE Refusal(v, h) = "none" /\ (~Live(v).pow \/ rateLimitExceeded(v, issues[c] + 1))
    <2>1. PICK answer \in {"unavailable", "limited"} : Step(v, Closed(answer))
        BY <1>2, <1>7
    <2>2. PICK x \in VisitType : /\ x = Closed(answer) /\ VisitOK(x) /\ x.pc = "done"
                                 /\ x.served = answer
        BY ClosedIs DEF Answers
    <2>3. Step(v, x) /\ x.served # "refused"
        BY <2>1, <2>2
    <2> QED
        BY <1>3, <1>4, <1>7, <2>2, <2>3
<1>8. CASE Refusal(v, h) = "none" /\ Live(v).pow /\ ~rateLimitExceeded(v, issues[c] + 1)
    <2>1. /\ y(h) \in VisitType /\ y(h).pc = "issue" /\ y(h).relay = visit[v].relay
          /\ y(h).recorded = visit[v].recorded /\ y(h).cookie = visit[v].cookie
          /\ y(h).floor = visit[v].floor
        BY <1>1, <1>5 DEF VisitType
    <2>2. PICK x \in VisitType : x = y(h)
        BY <2>1
    <2> HIDE DEF y
    <2>3. relays => visit[v].relay = "none" /\ visit[v].relay # "absent"
        BY <1>1, <1>8 DEF VisitOK, Relayed, Refusal
    <2>4. VisitOK(x)
        BY <1>1, <2>1, <2>2, <2>3 DEF VisitOK, Judged, Counted, Relayed
    <2>5. Step(v, x)
        BY <1>2, <1>8, <2>2
    <2> QED
        BY <1>3, <2>1, <2>2, <2>4, <2>5
<1> QED
    BY <1>6, <1>7, <1>8

\* The challenge hop counts the issue and leaves the rest of the client alone.
LEMMA HopInv ==
    ASSUME Inv, NEW v \in Visits, Hop(v)
    PROVE  Inv'
<1>1. PICK x \in VisitType : Step(v, x) /\ VisitOK(x) /\ x.pc \in {"issue", "done"}
    BY HopVisit
<1>2. UNCHANGED <<cfg, posture, relays, inflight, unsolved, framed, offers, cookie, floor, asked,
                  farms, ring, added>>
    BY DEF Hop
<1>3. VisitInv' /\ visit'[v] = x /\ \A w \in Visits \ {v} : visit'[w] = visit[w]
    BY <1>1, <1>2, VisitStep DEF Inv
<1>4. v \notin InFlight
    BY DEF Hop, InFlight
<1>5. FlightInv'
    BY <1>1, <1>2, <1>3, <1>4, FlightStep DEF Inv
<1>6. RingInv'
    BY <1>2, RingStep DEF Inv, Unrecorded
<1>7. LiveTypes' /\ ClientTypes'
    BY <1>2, HopVisit DEF Inv, LiveTypes, ClientTypes
<1>8. ClientInv' /\ (farms \subseteq Nat)' /\ NoFarmWithoutAbandon'
    BY <1>2 DEF Inv, ClientInv, Worth, NoFarmWithoutAbandon
<1> QED
    BY <1>3, <1>5, <1>6, <1>7, <1>8 DEF Inv

\* The escalation adds bits once a client has asked often enough.
LEMMA ExtraIs ==
    ASSUME NEW n \in Nat
    PROVE  ExtraBits(n) \in Nat /\ (ExtraBits(n) > 0 => n >= FreeIssues + EscalationStep)
<1>1. FreeIssues \in Nat /\ EscalationStep \in Nat /\ EscalationStep > 0
    BY RequestAssumption
<1>2. CASE n <= FreeIssues
    BY <1>2 DEF ExtraBits
<1>3. CASE ~(n <= FreeIssues)
    <2> DEFINE m == n - FreeIssues
               q == m \div EscalationStep
    <2>1. m \in Nat
        BY <1>1, <1>3
    <2> HIDE DEF m
    <2>2. q \in Nat /\ (q > 0 => m >= EscalationStep)
        BY <1>1, <2>1
    <2>3. ExtraBits(n) = q
        BY <1>3 DEF ExtraBits, m
    <2> HIDE DEF q
    <2> QED
        BY <1>1, <2>2, <2>3 DEF m
<1> QED
    BY <1>2, <1>3

\* No offer is worth less than the base it was issued at.
LEMMA OfferIs ==
    ASSUME Inv, NEW v \in Visits, NEW extra \in Nat
    PROVE  LET window == EffectiveBits(posture, visit[v].snap.base, visit[v].snap.max)
               bits   == Min2(RequestedBits(v, window) + extra, window.max)
           IN bits \in 0 .. MaxBits /\ bits >= visit[v].snap.base /\ visit[v].snap.base \in Nat
<1> DEFINE window == EffectiveBits(posture, visit[v].snap.base, visit[v].snap.max)
           bits   == Min2(RequestedBits(v, window) + extra, window.max)
<1>1. posture \in Postures /\ visit[v].snap \in AllScopes /\ visit[v].bits \in Nat
    BY DEF Inv, LiveTypes, VisitInv, VisitType
<1>2. /\ visit[v].snap.base \in Nat /\ visit[v].snap.max \in visit[v].snap.base .. MaxBits
      /\ MaxBits \in Nat
    BY <1>1, ConfigsAreValid, RequestAssumption
<1>3a. PICK b \in Nat : b = visit[v].snap.base
    BY <1>2
<1>3b. PICK m \in b .. MaxBits : m = visit[v].snap.max
    BY <1>2, <1>3a
<1>3. PICK p \in Postures : p = posture /\ b = visit[v].snap.base /\ m = visit[v].snap.max
    BY <1>1, <1>3a, <1>3b
<1>4. /\ window.base \in Nat /\ window.max \in Nat
      /\ b <= window.base /\ window.base <= window.max /\ window.max <= MaxBits
    BY <1>3, WindowIs
<1> HIDE DEF window
<1>5. RequestedBits(v, window) \in window.base .. window.max
    BY <1>1, <1>4 DEF RequestedBits, Min2, Max2
<1>6. bits \in 0 .. MaxBits /\ bits >= b
    BY <1>2, <1>3, <1>4, <1>5 DEF Min2
<1> QED
    BY <1>2, <1>3, <1>6 DEF window

\* The page: one ask more for a request that is scored, and an offer.
LEMMA IssueInv ==
    ASSUME Inv, NEW v \in Visits, Issue(v)
    PROVE  Inv'
<1> DEFINE c == visit[v].client
           scored == ~unscorableFrame(visit[v].head)
           n == (IF scored THEN unsolved[c] ELSE framed[c]) + 1
           extra == ExtraBits(n)
           window == EffectiveBits(posture, visit[v].snap.base, visit[v].snap.max)
           bits == Min2(RequestedBits(v, window) + extra, window.max)
           solved == IF visit[v].snap.argon THEN Token("argon", 0) ELSE Token("signed", bits)
           offer == [by |-> v, token |-> solved, floor |-> visit[v].snap.base]
<1>1. PICK up, keys \in BOOLEAN :
         /\ unsolved' = IF scored THEN [unsolved EXCEPT ![c] = n] ELSE unsolved
         /\ framed' = IF scored THEN framed ELSE [framed EXCEPT ![c] = n]
         /\ asked' = IF scored THEN [asked EXCEPT ![c] = @ + 1] ELSE asked
         /\ farms' = IF scored /\ FarmDetected(window, extra) THEN farms \cup {asked'[c]} ELSE farms
         /\ offers' = IF keys \/ (up /\ ~posture.stateless)
                      THEN [offers EXCEPT ![c] = @ \cup {offer}] ELSE offers
         /\ Step(v, Closed(IF keys \/ (up /\ ~posture.stateless) THEN "issued" ELSE "unavailable"))
    <2> HIDE DEF window, bits
    <2> QED
        BY DEF Issue, Scored, window, bits
<1>2. /\ UNCHANGED <<cfg, posture, relays, inflight, issues, cookie, floor, ring, added>>
      /\ visit[v].pc = "issue"
    BY DEF Issue
<1>3. /\ c \in Clients /\ unsolved \in [Clients -> Nat] /\ framed \in [Clients -> Nat]
      /\ asked \in [Clients -> Nat] /\ offers \in [Clients -> SUBSET Offers]
      /\ \A d \in Clients : unsolved[d] <= asked[d]
    BY DEF Inv, ClientTypes, VisitInv, VisitType, ClientInv
<1>4. n \in Nat
    BY <1>3
<1>5. extra \in Nat /\ (extra > 0 => n >= FreeIssues + EscalationStep)
    BY <1>4, ExtraIs
<1> HIDE DEF extra
<1>6. bits \in 0 .. MaxBits /\ bits >= visit[v].snap.base /\ visit[v].snap.base \in Nat
    BY <1>5, OfferIs
<1> HIDE DEF bits, window
<1>7. offer \in Offers /\ Worth(offer.token, offer.floor)
    <2>1. solved \in Cookies /\ Worth(solved, visit[v].snap.base)
        BY <1>6 DEF Token, Cookies, Worth
    <2> HIDE DEF solved
    <2> QED
        BY <1>6, <2>1 DEF Offers
<1> HIDE DEF offer
<1>8. /\ unsolved' \in [Clients -> Nat] /\ framed' \in [Clients -> Nat]
      /\ asked' \in [Clients -> Nat]
    BY <1>1, <1>3, <1>4
<1>9. offers' \in [Clients -> SUBSET Offers]
    BY <1>1, <1>3, <1>7
<1>10. LiveTypes' /\ ClientTypes'
    BY <1>2, <1>8, <1>9 DEF Inv, LiveTypes, ClientTypes
<1>11. ASSUME NEW d \in Clients
       PROVE  /\ unsolved'[d] <= asked'[d]
              /\ Worth(cookie[d], floor[d])'
              /\ \A o \in offers'[d] : Worth(o.token, o.floor)
    <2>1. unsolved'[d] <= asked'[d]
        <3>1. CASE scored /\ d = c
            BY <1>1, <1>3, <3>1
        <3>2. CASE ~(scored /\ d = c)
            BY <1>1, <1>3, <3>2
        <3> QED
            BY <3>1, <3>2
    <2>2. Worth(cookie[d], floor[d])'
        BY <1>2 DEF Inv, ClientInv, Worth
    <2>3. \A o \in offers[d] : Worth(o.token, o.floor)
        BY DEF Inv, ClientInv
    <2>4. ASSUME NEW o \in offers'[d]
          PROVE  Worth(o.token, o.floor)
        <3>1. o \in offers[d] \/ o = offer
            BY <1>1, <1>3
        <3> QED
            BY <1>7, <2>3, <3>1
    <2> QED
        BY <2>1, <2>2, <2>4
<1>12. ClientInv'
    BY <1>11 DEF ClientInv, Worth
<1>13. (farms \subseteq Nat)' /\ NoFarmWithoutAbandon'
    <2>0. farms \subseteq Nat /\ \A k \in farms : k >= FreeIssues + EscalationStep
        BY DEF Inv, NoFarmWithoutAbandon
    <2>1. CASE scored /\ FarmDetected(window, extra)
        <3>1. farms' = farms \cup {asked'[c]} /\ asked'[c] \in Nat
            BY <1>1, <1>3, <1>8, <2>1
        <3>2. unsolved'[c] = n /\ unsolved'[c] <= asked'[c]
            BY <1>1, <1>3, <1>11, <2>1
        <3>3. extra > 0
            BY <2>1 DEF FarmDetected
        <3>4. asked'[c] >= FreeIssues + EscalationStep
            BY <1>4, <1>5, <3>1, <3>2, <3>3, RequestAssumption
        <3> QED
            BY <2>0, <3>1, <3>4 DEF NoFarmWithoutAbandon
    <2>2. CASE ~(scored /\ FarmDetected(window, extra))
        BY <1>1, <2>0, <2>2 DEF NoFarmWithoutAbandon
    <2> QED
        BY <2>1, <2>2
<1>14. PICK x \in VisitType : Step(v, x) /\ VisitOK(x) /\ x.pc = "done"
    <2>1. PICK answer \in {"issued", "unavailable"} : Step(v, Closed(answer))
        BY <1>1
    <2> QED
        BY <2>1, ClosedIs DEF Answers
<1>15. VisitInv' /\ visit'[v] = x /\ \A w \in Visits \ {v} : visit'[w] = visit[w]
    BY <1>2, <1>14, VisitStep DEF Inv
<1>16. FlightInv'
    <2>1. v \notin InFlight
        BY <1>2 DEF InFlight
    <2> QED
        BY <1>2, <1>14, <1>15, <2>1, FlightStep DEF Inv
<1>17. RingInv'
    BY <1>2, RingStep DEF Inv, Unrecorded
<1> QED
    BY <1>10, <1>12, <1>13, <1>15, <1>16, <1>17 DEF Inv

\* A step that touches no visit.
LEMMA Between ==
    ASSUME Inv, UNCHANGED <<relays, visit, inflight>>
    PROVE  VisitInv' /\ FlightInv'
<1>1. VisitInv'
    BY DEF Inv, VisitInv, VisitOK, Judged, Counted, Relayed, Worth
<1>2. InFlight' = InFlight
    BY DEF InFlight
<1> QED
    BY <1>1, <1>2 DEF Inv, FlightInv

\* A redemption: the client keeps its token or takes the one it was offered.
LEMMA RedeemInv ==
    ASSUME Inv, NEW c \in Clients, NEW o \in offers[c], RedeemSolved(c, o) \/ RedeemFailed(c, o)
    PROVE  Inv'
<1>1. /\ UNCHANGED <<cfg, posture, relays, visit, inflight, issues, farms>> /\ Recorded
      /\ offers' \in {offers, [offers EXCEPT ![c] = @ \ {o}]}
    BY DEF RedeemSolved, RedeemFailed
<1>2. /\ \/ UNCHANGED <<cookie, floor>>
         \/ cookie' = [cookie EXCEPT ![c] = o.token] /\ floor' = [floor EXCEPT ![c] = o.floor]
      /\ \/ UNCHANGED <<unsolved, framed, asked>>
         \/ /\ unsolved' = [unsolved EXCEPT ![c] = 0] /\ framed' = [framed EXCEPT ![c] = 0]
            /\ asked' = [asked EXCEPT ![c] = 0]
    BY DEF RedeemSolved, RedeemFailed, ForgetEscalation
<1>3. /\ o \in Offers /\ Worth(o.token, o.floor) /\ offers \in [Clients -> SUBSET Offers]
      /\ cookie \in [Clients -> Cookies] /\ floor \in [Clients -> Nat]
      /\ unsolved \in [Clients -> Nat] /\ framed \in [Clients -> Nat] /\ asked \in [Clients -> Nat]
    BY DEF Inv, ClientTypes, ClientInv
<1>4. o.token \in Cookies /\ o.floor \in Nat
    BY <1>3 DEF Offers
<1>5. /\ cookie' \in [Clients -> Cookies] /\ floor' \in [Clients -> Nat]
      /\ unsolved' \in [Clients -> Nat] /\ framed' \in [Clients -> Nat]
      /\ asked' \in [Clients -> Nat]
    BY <1>2, <1>3, <1>4
<1>6. offers' \in [Clients -> SUBSET Offers] /\ \A d \in Clients : offers'[d] \subseteq offers[d]
    BY <1>1, <1>3
<1>7. LiveTypes' /\ ClientTypes'
    BY <1>1, <1>5, <1>6 DEF Inv, LiveTypes, ClientTypes
<1>8. ASSUME NEW d \in Clients
      PROVE  /\ unsolved'[d] <= asked'[d]
             /\ Worth(cookie'[d], floor'[d])
             /\ \A w \in offers'[d] : Worth(w.token, w.floor)
    <2>1. /\ unsolved[d] <= asked[d] /\ Worth(cookie[d], floor[d])
          /\ \A w \in offers[d] : Worth(w.token, w.floor)
        BY DEF Inv, ClientInv
    <2>2. unsolved'[d] <= asked'[d]
        BY <1>2, <1>3, <2>1
    <2>3. Worth(cookie'[d], floor'[d])
        <3>1. \/ cookie'[d] = cookie[d] /\ floor'[d] = floor[d]
              \/ cookie'[d] = o.token /\ floor'[d] = o.floor
            BY <1>2, <1>3
        <3> QED
            BY <1>3, <2>1, <3>1
    <2> QED
        BY <1>6, <2>1, <2>2, <2>3
<1>9. ClientInv'
    BY <1>8 DEF ClientInv, Worth
<1>10. (farms \subseteq Nat)' /\ NoFarmWithoutAbandon'
    BY <1>1 DEF Inv, NoFarmWithoutAbandon
<1>11. RingInv'
    BY <1>1, RingStep DEF Inv
<1> QED
    BY <1>1, <1>7, <1>9, <1>10, <1>11, Between DEF Inv

\* Counters that lapse or are deleted: what a client was due is forgotten with the
\* counter of its pages, never before it.
LEMMA CountersInv ==
    ASSUME Inv, NEW c \in Clients, Lapse(c) \/ ResetEscalation(c)
    PROVE  Inv'
<1>1. /\ UNCHANGED <<cfg, posture, relays, visit, inflight, offers, cookie, floor, farms, ring,
                     added>>
      /\ unsolved' \in {unsolved, [unsolved EXCEPT ![c] = 0]}
      /\ framed' \in {framed, [framed EXCEPT ![c] = 0]}
      /\ issues' \in {issues, [issues EXCEPT ![c] = 0]}
      /\ \/ asked' = asked
         \/ asked' = [asked EXCEPT ![c] = 0] /\ unsolved' = [unsolved EXCEPT ![c] = 0]
    BY DEF Lapse, ResetEscalation
<1>2. /\ unsolved \in [Clients -> Nat] /\ framed \in [Clients -> Nat]
      /\ issues \in [Clients -> Nat] /\ asked \in [Clients -> Nat]
      /\ \A d \in Clients : unsolved[d] <= asked[d]
    BY DEF Inv, ClientTypes, ClientInv
<1>3. /\ unsolved' \in [Clients -> Nat] /\ framed' \in [Clients -> Nat]
      /\ issues' \in [Clients -> Nat] /\ asked' \in [Clients -> Nat]
    BY <1>1, <1>2
<1>4. \A d \in Clients : unsolved'[d] <= asked'[d]
    BY <1>1, <1>2
<1>5. LiveTypes' /\ ClientTypes'
    BY <1>1, <1>3 DEF Inv, LiveTypes, ClientTypes
<1>6. ClientInv'
    BY <1>1, <1>4 DEF Inv, ClientInv, Worth
<1>7. (farms \subseteq Nat)' /\ NoFarmWithoutAbandon'
    BY <1>1 DEF Inv, NoFarmWithoutAbandon
<1>8. RingInv'
    BY <1>1, RingStep DEF Inv, Unrecorded
<1> QED
    BY <1>1, <1>5, <1>6, <1>7, <1>8, Between DEF Inv

\* A reload, or another posture.
LEMMA AroundInv ==
    ASSUME Inv, Reload \/ Shift
    PROVE  Inv'
<1>1. /\ UNCHANGED <<relays, visit, inflight, clientVars, ring, added>>
      /\ cfg' \in Configs /\ posture' \in Postures
    BY DEF Reload, Shift, Inv, LiveTypes
<1>2. LiveTypes' /\ ClientTypes'
    BY <1>1 DEF Inv, LiveTypes, ClientTypes, clientVars
<1>3. ClientInv' /\ (farms \subseteq Nat)' /\ NoFarmWithoutAbandon'
    BY <1>1 DEF Inv, ClientInv, Worth, NoFarmWithoutAbandon, clientVars
<1>4. RingInv'
    BY <1>1, RingStep DEF Inv, Unrecorded
<1> QED
    BY <1>1, <1>2, <1>3, <1>4, Between DEF Inv

\* Nothing is in flight, asked or recorded at the start.
LEMMA InitInv == Init => Inv
<1> SUFFICES ASSUME Init PROVE Inv
    OBVIOUS
<1>1. LiveTypes
    BY InputsAreTyped DEF Init, LiveTypes
<1>2. \A token \in Cookies : token.bits \in Nat
    BY RequestAssumption DEF Cookies, Token
<1>3. cookie \in [Clients -> Cookies] /\ floor \in [Clients -> Nat]
    BY <1>2, InputsAreTyped DEF Init
<1>4. ClientTypes
    BY <1>3 DEF Init, ClientTypes
<1>5. VisitInv
    <2>1. visit \in [Visits -> VisitType]
        BY FreshIs DEF Init
    <2>2. \A v \in Visits : visit[v] = Fresh
        BY DEF Init
    <2> QED
        BY <2>1, <2>2, FreshIs DEF VisitInv
<1>6. FlightInv
    <2>1. InFlight = {}
        BY DEF Init, InFlight, Fresh
    <2> QED
        BY <2>1, FS_EmptySet DEF Init, FlightInv
<1>7. ClientInv
    <2>1. ASSUME NEW c \in Clients
          PROVE  cookie[c].bits \in Nat /\ floor[c] = cookie[c].bits
        BY <1>2, <1>3 DEF Init
    <2> QED
        BY <2>1 DEF Init, ClientInv, Worth
<1>8. farms \subseteq Nat /\ NoFarmWithoutAbandon
    BY DEF Init, NoFarmWithoutAbandon
<1>9. RingInv
    BY RingInit DEF Init
<1> QED
    BY <1>1, <1>4, <1>5, <1>6, <1>7, <1>8, <1>9 DEF Inv

\* Every step keeps the invariant, one lemma per step.
LEMMA NextInv == Inv /\ [Next]_vars => Inv'
<1> SUFFICES ASSUME Inv, [Next]_vars PROVE Inv'
    OBVIOUS
<1>1. ASSUME NEW v \in Visits,
             Arrive(v) \/ Admit(v) \/ Shed(v) \/ Begin(v) \/ Decide(v) \/ Hop(v) \/ Issue(v)
      PROVE  Inv'
    BY <1>1, ArriveInv, AdmitInv, ShedInv, BeginInv, DecideInv, HopInv, IssueInv
<1>2. ASSUME NEW c \in Clients, NEW o \in offers[c], RedeemSolved(c, o) \/ RedeemFailed(c, o)
      PROVE  Inv'
    BY <1>2, RedeemInv
<1>3. ASSUME NEW c \in Clients, Lapse(c) \/ ResetEscalation(c)
      PROVE  Inv'
    BY <1>3, CountersInv
<1>4. CASE UNCHANGED vars
    <2>1. RingInv' /\ VisitInv' /\ FlightInv'
        BY <1>4, RingStep, Between DEF Inv, Unrecorded, vars
    <2> QED
        BY <1>4, <2>1, Aside DEF vars
<1> QED
    BY <1>1, <1>2, <1>3, <1>4, AroundInv DEF Next

\* What the invariant says of evaluations side by side: those that arrived before one of
\* them were fewer than the bound it was admitted under.
LEMMA WithinBound ==
    ASSUME Inv
    PROVE  EvaluationsBounded
<1>1. ASSUME NEW v \in Evaluating, visit[v].bound > 0
      PROVE  Cardinality(Evaluating \cap visit[v].before) < visit[v].bound
    <2>1. /\ v \in Visits /\ visit[v].pc \in {"begin", "stages"}
          /\ visit[v].before \in SUBSET Visits
          /\ visit[v].bound \in Nat /\ visit[v].current \in Nat
        BY DEF Evaluating, Inv, VisitInv, VisitType
    <2>2. /\ visit[v].current = Cardinality(visit[v].before) + 1
          /\ visit[v].current <= visit[v].bound
        BY <1>1, <2>1 DEF Inv, VisitInv, VisitOK, Counted
    <2>3. PICK before : before = visit[v].before /\ IsFiniteSet(before)
        BY <2>1, RequestAssumption, FS_Subset
    <2>4. PICK some : some = Evaluating \cap before
        OBVIOUS
    <2>5. some \subseteq before
        BY <2>4
    <2>6. /\ Cardinality(some) <= Cardinality(before) /\ Cardinality(some) \in Nat
          /\ Cardinality(before) \in Nat
        BY <2>3, <2>5, FS_Subset, FS_CardinalityType
    <2> QED
        BY <2>1, <2>2, <2>3, <2>4, <2>6
<1> QED
    BY <1>1 DEF EvaluationsBounded, Inv, FlightInv

\* The table of the property holds everywhere.
LEMMA ShedTable ==
    ASSUME NEW scope \in AllScopes, NEW state \in Postures, NEW token \in Cookies,
           NEW u \in BOOLEAN
    PROVE  NoBypass[scope][state][token][u]
<1>1. ASSUME NEW t \in AllTraits, NEW e \in Lookups(t, scope, state)
      PROVE  LET r == With(t, token)
                 d == Evaluate(r, e, u)
             IN ShedDecision(r, e) = "pass" => d.action = "allow" \/ Excused(r, e, d)
    <2>1. PICK r : r = With(t, token)
        OBVIOUS
    <2>2. ASSUME ShedDecision(r, e) = "pass"
          PROVE  Evaluate(r, e, u).action = "allow" \/ Excused(r, e, Evaluate(r, e, u))
        <3>1. CASE BehaviourBlockStage(r, e) = Continue
            BY <2>2, <3>1, ShedHonest DEF Excused
        <3>2. CASE BehaviourBlockStage(r, e) # Continue
            BY <2>2, <3>2, ShedUnseen DEF Excused
        <3> QED
            BY <3>1, <3>2
    <2> QED
        BY <2>1, <2>2
<1> QED
    BY <1>1 DEF NoBypass

\* So it holds of every visit that is being shed.
LEMMA ShedIsHonest ==
    ASSUME Inv
    PROVE  ShedNeverBypasses
<1>1. ASSUME NEW v \in Visits
      PROVE  NoBypass[Live(v)][posture][visit[v].cookie][Unchallengeable(v)]
    <2>1. Live(v) \in AllScopes /\ posture \in Postures /\ visit[v].cookie \in Cookies
        BY LiveIs DEF Inv, LiveTypes, VisitInv, VisitType
    <2>2. PICK scope \in AllScopes, state \in Postures, token \in Cookies, u \in BOOLEAN :
             /\ scope = Live(v) /\ state = posture /\ token = visit[v].cookie
             /\ u = Unchallengeable(v)
        BY <2>1 DEF Unchallengeable
    <2> QED
        BY <2>2, ShedTable
<1> QED
    BY <1>1 DEF ShedNeverBypasses

\* The two action properties, of one visit.
Honoured(v) ==
    relays /\ visit[v].pc \in {"hop", "issue"} /\ visit'[v].pc = "done" =>
        (visit'[v].served = "refused" <=> visit[v].recorded = "refuse")
TokenHonoured(v) ==
    visit[v].pc = "stages" /\ visit'[v].reason = "pow:token_underdifficulty" =>
        visit[v].snap.base > visit[v].floor /\ visit[v].cookie.kind # "argon"

\* A visit that does not move satisfies both; so does one that is at neither place.
LEMMA NothingToHonour ==
    ASSUME Inv, NEW v \in Visits,
           visit'[v] = visit[v] \/ visit[v].pc \notin {"stages", "hop", "issue"}
    PROVE  Honoured(v) /\ TokenHonoured(v)
<1>1. visit[v].pc = "stages" => visit[v].reason = "none"
    BY DEF Inv, VisitInv, VisitOK, Judged
<1> QED
    BY <1>1 DEF Honoured, TokenHonoured

\* Every step honours the recorded verdict and the solved token.
LEMMA StepsHonour ==
    ASSUME Inv, [Next]_vars
    PROVE  \A w \in Visits : Honoured(w) /\ TokenHonoured(w)
<1>0. visit \in [Visits -> VisitType]
    BY DEF Inv, VisitInv
<1>1. ASSUME NEW v \in Visits, NEW w \in Visits,
             Arrive(v) \/ Admit(v) \/ Shed(v) \/ Begin(v) \/ Decide(v) \/ Hop(v) \/ Issue(v)
      PROVE  Honoured(w) /\ TokenHonoured(w)
    <2>1. CASE w # v
        <3>1. \E x : visit' = [visit EXCEPT ![v] = x]
            <4>1. CASE Arrive(v) \/ Admit(v) \/ Begin(v)
                BY <4>1 DEF Arrive, Admit, Begin, Step
            <4>2. CASE Shed(v)
                BY <4>2 DEF Shed, Step
            <4>3. CASE Decide(v)
                BY <4>3, DecideVisit DEF Step
            <4>4. CASE Hop(v)
                BY <4>4, HopVisit DEF Step
            <4>5. CASE Issue(v)
                BY <4>5 DEF Issue, Step
            <4> QED
                BY <1>1, <4>1, <4>2, <4>3, <4>4, <4>5
        <3>2. visit'[w] = visit[w]
            BY <1>0, <2>1, <3>1
        <3> QED
            BY <3>2, NothingToHonour
    <2>2. CASE w = v /\ (Arrive(v) \/ Admit(v) \/ Shed(v) \/ Begin(v))
        <3>1. visit[v].pc \notin {"stages", "hop", "issue"}
            BY <2>2 DEF Arrive, Admit, Shed, Begin
        <3> QED
            BY <2>2, <3>1, NothingToHonour
    <2>3. CASE w = v /\ Decide(v)
        <3>1. PICK x \in VisitType :
                 /\ Step(v, x)
                 /\ x.reason = "pow:token_underdifficulty" =>
                       visit[v].snap.base > visit[v].floor /\ visit[v].cookie.kind # "argon"
            BY <2>3, DecideVisit
        <3>2. visit'[v] = x /\ visit[v].pc = "stages"
            BY <1>0, <2>3, <3>1 DEF Step, Decide
        <3> QED
            BY <2>3, <3>1, <3>2 DEF Honoured, TokenHonoured
    <2>4. CASE w = v /\ Hop(v)
        <3>1. PICK x \in VisitType :
                 /\ Step(v, x)
                 /\ relays /\ x.pc = "done" =>
                       (x.served = "refused" <=> visit[v].recorded = "refuse")
            BY <2>4, HopVisit
        <3>2. visit'[v] = x /\ visit[v].pc = "hop"
            BY <1>0, <2>4, <3>1 DEF Step, Hop
        <3> QED
            BY <2>4, <3>1, <3>2 DEF Honoured, TokenHonoured
    <2>5. CASE w = v /\ Issue(v)
        <3>1. PICK answer \in {"issued", "unavailable"} : Step(v, Closed(answer))
            BY <2>5 DEF Issue
        <3>2. visit'[v] = Closed(answer) /\ visit[v].pc = "issue"
            BY <1>0, <2>5, <3>1 DEF Step, Issue
        <3>3. Closed(answer).served # "refused"
            BY ClosedIs DEF Answers
        <3>4. relays => visit[v].recorded # "refuse"
            BY <3>2 DEF Inv, VisitInv, VisitOK, Relayed
        <3> QED
            BY <2>5, <3>2, <3>3, <3>4 DEF Honoured, TokenHonoured
    <2> QED
        BY <1>1, <2>1, <2>2, <2>3, <2>4, <2>5
<1>2. CASE UNCHANGED visit
    BY <1>2, NothingToHonour
<1>3. ASSUME NEW c \in Clients,
             \/ Lapse(c) \/ ResetEscalation(c)
             \/ \E o \in offers[c] : RedeemSolved(c, o) \/ RedeemFailed(c, o)
      PROVE  UNCHANGED visit
    BY <1>3 DEF Lapse, ResetEscalation, RedeemSolved, RedeemFailed
<1>4. Reload \/ Shift \/ UNCHANGED vars => UNCHANGED visit
    BY DEF Reload, Shift, vars
<1> QED
    BY <1>1, <1>2, <1>3, <1>4 DEF Next

\* The inductive invariant.
LEMMA Invariant == Spec => []Inv
    BY InitInv, NextInv, PTL DEF Spec

-----------------------------------------------------------------------------
(* The theorems                                                            *)

(* The ring of recent decisions lists the newest rows in order and says    *)
(* exactly when it has dropped some, for every size of it (recent.go).     *)
THEOREM RingIsNewestFirst == Spec => []RingKeepsNewest
<1>1. Inv => RingKeepsNewest
    BY RingKeeps DEF Inv
<1> QED
    BY <1>1, Invariant, PTL

(* max_inflight bounds the evaluations from the moment it is loaded, and   *)
(* the counter is the number of requests in flight (handleAuth).           *)
THEOREM EvaluationsAreBounded == Spec => []EvaluationsBounded
<1>1. Inv => EvaluationsBounded
    BY WithinBound
<1> QED
    BY <1>1, Invariant, PTL

(* challenge_farm is reported only about clients that were due enough      *)
(* pages (handleChallenge, the escalation's ExtraBits).                    *)
THEOREM FarmsAbandoned == Spec => []NoFarmWithoutAbandon
<1>1. Inv => NoFarmWithoutAbandon
    BY DEF Inv
<1> QED
    BY <1>1, Invariant, PTL

(* An overloaded daemon admits nobody the pipeline would turn away, but    *)
(* for an exempt client's anomaly and for a block whose address does not   *)
(* parse (ShedDecision against Evaluate).                                  *)
THEOREM ShedIsSafe == Spec => []ShedNeverBypasses
<1>1. Inv => ShedNeverBypasses
    BY ShedIsHonest
<1> QED
    BY <1>1, Invariant, PTL

(* Behind a proxy that relays verdicts, the challenge hop refuses exactly  *)
(* what the auth hop recorded as refused (relayedRefusal).                 *)
THEOREM VerdictsAgree == Spec => OneVerdictPerVisit
<1>1. Inv /\ [Next]_vars =>
         [\A v \in Visits :
            relays /\ visit[v].pc \in {"hop", "issue"} /\ visit'[v].pc = "done" =>
              (visit'[v].served = "refused" <=> visit[v].recorded = "refuse")]_vars
    BY StepsHonour DEF Honoured
<1> QED
    BY <1>1, Invariant, PTL DEF Spec, OneVerdictPerVisit

(* A solved challenge is not called too weak while the configured base     *)
(* stays, whatever the attack posture does (EffectiveBits, VerifyToken).   *)
THEOREM SolutionsAreVouched == Spec => SolvedIsVouched
<1>1. Inv /\ [Next]_vars =>
         [\A v \in Visits :
            visit[v].pc = "stages" /\ visit'[v].reason = "pow:token_underdifficulty" =>
              visit[v].snap.base > visit[v].floor /\ visit[v].cookie.kind # "argon"]_vars
    BY StepsHonour DEF TokenHonoured
<1> QED
    BY <1>1, Invariant, PTL DEF Spec, SolvedIsVouched
============================================================================

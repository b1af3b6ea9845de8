----------------------------- MODULE MCRequest -----------------------------
EXTENDS Request

Plain == [parseable |-> TRUE, allowed |-> FALSE, header |-> FALSE, denied |-> FALSE,
          bot |-> "none", feed |-> "none", geo |-> "none", trap |-> FALSE, rules |-> <<>>,
          score |-> 0]

(* One thing out of the ordinary.                                          *)
Twists ==
  { [parseable |-> FALSE], [allowed |-> TRUE], [header |-> TRUE], [denied |-> TRUE],
    [bot |-> "match"], [bot |-> "mismatch"], [feed |-> "deny"], [feed |-> "challenge"],
    [geo |-> "deny"], [geo |-> "challenge"], [trap |-> TRUE],
    [rules |-> <<"allow">>], [rules |-> <<"challenge">>], [rules |-> <<"deny">>],
    [rules |-> <<"block">>], [rules |-> <<"challenge", "deny">>],
    [score |-> 3], [score |-> 4] }

(* Those that change what the others mean.                                 *)
Exempting == { [parseable |-> FALSE], [allowed |-> TRUE], [header |-> TRUE], [bot |-> "match"] }

MCAllTraits == {Plain} \cup {t @@ Plain : t \in Twists}
              \cup {t @@ (u @@ Plain) : t \in Exempting, u \in Twists}

MCTraits == {Plain} \cup
  {t @@ Plain : t \in { [denied |-> TRUE], [bot |-> "mismatch"], [feed |-> "challenge"],
                        [trap |-> TRUE], [rules |-> <<"allow">>], [rules |-> <<"challenge">>],
                        [score |-> 3], [score |-> 4] }}

Root  == <<"index">>
Login == <<"login">>
Form  == <<"login", "form">>

From(path, dest, site, accept, stale) ==
  [path |-> path, stale |-> stale,
   head |-> [dest |-> dest, site |-> site, navigate |-> FALSE, accept |-> accept]]

MCFetches == { From(Root, "document", "own", {"html"}, FALSE),
               From(Form, "document", "own", {"html"}, FALSE),
               From(Login, "frame", "foreign", {"html"}, FALSE),
               From(Root, "subresource", "own", {"other"}, FALSE),
               From(Root, "absent", "absent", {"other"}, TRUE) }

Usual == [pow |-> TRUE, argon |-> FALSE, base |-> 1, max |-> 2, refuse |-> TRUE, suspicion |-> FALSE,
          anomaly |-> "on", denyAt |-> 4, challengeAt |-> 2, spoofContinues |-> FALSE, limit |-> 2]
Lenient == [Usual EXCEPT !.refuse = FALSE, !.suspicion = TRUE, !.limit = 1, !.argon = TRUE]
Hard    == [Usual EXCEPT !.base = 2, !.spoofContinues = TRUE]
Off     == [Usual EXCEPT !.pow = FALSE, !.anomaly = "off"]

Config(bound, scope, overlays) ==
  [bound |-> bound, domain |-> [scope |-> scope, overlays |-> overlays]]
At(key, prefix, scope) == [key |-> key, prefix |-> prefix, scope |-> scope]

(* In the last one an exact key is off where a prefix key is hard.         *)
MCConfigs == { Config(1, Usual, {}),
               Config(0, Lenient, {}),
               Config(1, Off, {At(<<"login">>, TRUE, Usual)}),
               Config(0, Usual, {At(<<"login">>, TRUE, Hard), At(<<"login">>, FALSE, Off)}) }

MCNormal == [extra |-> 0, cap |-> 0, forceAlways |-> FALSE, stateless |-> FALSE]

MCPostures == { MCNormal,
                [extra |-> 1, cap |-> 0, forceAlways |-> TRUE, stateless |-> TRUE] }

MCTokens == { Token("absent", 0), Token("signed", 1) }

(* The tables have an entry for every case. Looking at all of each of them *)
(* once has TLC keep their values.                                         *)
Decisions == [action : {"allow", "deny", "challenge", "refuse"}, reason : STRING,
              bits : 0 .. MaxBits, event : STRING]

ASSUME TablesAreTotal ==
  /\ ConfigFor \in [Configs -> [Paths -> AllScopes]]
  /\ Verdicts \in
       [AllScopes -> [Postures -> [Cookies -> [BOOLEAN -> SUBSET Decisions]]]]
  /\ ShedVerdicts \in [AllScopes -> [Postures -> [Cookies -> SUBSET {"pass", "deny", "reject"}]]]
  /\ NoBypass \in [AllScopes -> [Postures -> [Cookies -> [BOOLEAN -> BOOLEAN]]]]

Symmetry == Permutations(Visits)
=============================================================================

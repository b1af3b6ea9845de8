SPECIFICATION Spec
CONSTANTS
  Visits = {v1, v2}
  Clients = {c1}
  Fetches <- MCFetches
  Traits <- MCTraits
  AllTraits <- MCAllTraits
  Normal <- MCNormal
  Configs <- MCConfigs
  Postures <- MCPostures
  Tokens <- MCTokens
  RuleStep = 1
  FullScore = 4
  FreeIssues = 1
  EscalationStep = 1
  MaxBits = 3
  RingSize = 2
  MaxReloads = 1
  MaxShifts = 1
  MaxResets = 1
INVARIANTS NoFarmWithoutAbandon EvaluationsBounded RingKeepsNewest
  ShedNeverBypasses
PROPERTIES OneVerdictPerVisit SolvedIsVouched
SYMMETRY Symmetry
CHECK_DEADLOCK FALSE

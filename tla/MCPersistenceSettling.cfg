SPECIFICATION FairSpec
CONSTANTS
  Requests = {r1, r2, r3}
  Cases = {c1}
  Contents <- TwoContents
  TriageOf <- TwoTriageOf
  TextHits = {}
  Findings = {}
  MaxRounds = 0
  MaxRoundCalls = 1
INVARIANTS
  EffectiveResult
  InvestigatingExplained
PROPERTIES
  Settles
CHECK_DEADLOCK FALSE

SPECIFICATION Spec
CONSTANTS
  Requests = {r1, r2}
  Cases = {c1}
  Contents <- TwoContents
  TriageOf <- TwoTriageOf
  TextHits = {}
  Findings = {}
  MaxRounds = 0
  MaxRoundCalls = 1
INVARIANTS
  SnapshotReplays
CHECK_DEADLOCK FALSE

SPECIFICATION Spec
CONSTANTS
  Requests = {r1, r2}
  Cases = {c1, c2}
  Contents <- MCContents
  TriageOf <- MCTriageOf
  TextHits <- MCTextHits
  Findings = {"image", "price"}
  MaxRounds = 1
  MaxRoundCalls = 2
INVARIANTS
  TypeOK
  ResultExplained
  TraceIsPath
  EvidenceComplete
CHECK_DEADLOCK FALSE

SPECIFICATION FairSpec
CONSTANTS
  Precedents <- MCPrecedents
  Clauses <- MCClauses
  PolicyOf <- MCPolicyOf
  ToolWorlds <- TrailWorlds
  Cases <- TrailCases
  Calls <- TrailCalls
  MaxRoundCalls = 2
  MaxLLMCalls = 8
  MaxToolCalls = 3
INVARIANTS
  BudgetBound
  ChargesAudited
  RoundBound
  RoundCost
  AuditTrail
  NoRepeatedSuccess
  EvidenceProvenance
PROPERTIES
  StopsInvestigating
  EvidenceOnlyGrows
  Termination
CHECK_DEADLOCK FALSE

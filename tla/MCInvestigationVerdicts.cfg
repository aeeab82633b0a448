SPECIFICATION Spec
CONSTANTS
  Precedents <- MCPrecedents
  Clauses <- MCClauses
  PolicyOf <- MCPolicyOf
  ToolWorlds <- MCToolWorlds
  Cases <- MCCases
  Calls <- VerdictCalls
  MaxRoundCalls = 3
  MaxLLMCalls = 5
  MaxToolCalls = 4
INVARIANTS
  TypeOK
  PassJustified
  RejectJustified
  DegradationReported
  ProbeAgrees
  MarginalGain
PROPERTIES
  ImplementsAdjudication
CHECK_DEADLOCK FALSE

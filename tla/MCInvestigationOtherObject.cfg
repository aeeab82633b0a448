SPECIFICATION Spec
CONSTANTS
  Precedents <- MCPrecedents
  Clauses <- MCClauses
  PolicyOf <- MCPolicyOf
  ToolWorlds <- TrailWorlds
  Cases <- TrailCases
  Calls <- TrailCalls
  MaxRoundCalls = 2
  MaxLLMCalls = 5
  MaxToolCalls = 3
INVARIANTS
  PassMeasuredThisCase
CHECK_DEADLOCK FALSE

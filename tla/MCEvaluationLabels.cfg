CONSTANTS
  c1 = c1
  c2 = c2
  Foreign = Foreign
  CaseOrder <- OneCase
  Datasets <- EveryCase
  Arguments <- PlainArguments
  Surveys <- EverySurvey
  ModelAnswers <- OneAnswer
  Precedents <- MCPrecedents
  Clauses <- MCClauses
  PolicyOf <- MCPolicyOf
SPECIFICATION Spec
INVARIANTS
  DecidesAsLabelled
  BlindSpot
  AssertionsQuiet
CHECK_DEADLOCK FALSE

CONSTANTS
  c1 = c1
  c2 = c2
  Foreign = Foreign
  CaseOrder <- TwoCases
  Datasets <- FewDatasets
  Arguments <- FewArguments
  Surveys <- FewSurveys
  ModelAnswers <- FewAnswers
  Precedents <- MCPrecedents
  Clauses <- MCClauses
  PolicyOf <- MCPolicyOf
SPECIFICATION FairSpec
INVARIANTS
  TypeOK
  DenominatorsHold
  NoFalseAlarm
PROPERTIES
  Completes
CHECK_DEADLOCK FALSE

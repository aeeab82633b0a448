SPECIFICATION Spec
CONSTANTS
  MaxLLMCalls = 4
  MaxNewEvidence = 1
INVARIANTS
  CompleteRecord
CHECK_DEADLOCK FALSE

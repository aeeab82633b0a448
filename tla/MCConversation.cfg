SPECIFICATION Spec
CONSTANTS
  MaxLLMCalls = 7
  MaxNewEvidence = 2
INVARIANTS
  TypeOK
  Dialogue
  AskedAsRecorded
  ToldOnce
  AskedWhenInformed
  AttemptsCharged
CHECK_DEADLOCK FALSE

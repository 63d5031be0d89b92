CONSTANTS
  MaxPieces = 4
  MaxToolIterations = 2
  MaxEmptyAnswerRetries = 1
  MaxMessages = 6
SPECIFICATION Spec
INVARIANTS
  AnswersAreSeen
CHECK_DEADLOCK FALSE

\* A question answered at two levels.
SPECIFICATION Spec
CONSTANTS
  Worlds <- TwoLevels
  Attempts = 2
  MaxLevels = 2
  MaxQuestions = 2
  MaxTokens = 1
  MaxDrops = 0
INVARIANT AllRendered
CHECK_DEADLOCK FALSE

\* Two questions; one or two levels, lost connections and failures.
SPECIFICATION FairSpec
CONSTANTS
  Worlds <- EveryWorld
  Attempts = 2
  MaxLevels = 2
  MaxQuestions = 2
  MaxTokens = 2
  MaxDrops = 2
INVARIANTS AnswerIsItsOwn LockedWhileActive
PROPERTIES FormReopens
CHECK_DEADLOCK FALSE

SPECIFICATION MCSpec
CONSTANTS
  Question = {q1, q2}
  First = q1
  Second = q2
  NoQuestion = NoQuestion
  TopicNames <- Registry
  MaxAttempts = 2
  MaxFiles = 2
  MaxOutages = 1
  MaxDeaths = 2
  MaxRetries = 2
  MaxLevels = 2
  MaxTokens = 2
  MaxDrops = 1
  MaxFaults = 1
  SameId = TRUE
INVARIANTS ShownIsTheLink NothingLost AnswerIsItsOwn BootstrapAccounts AcceptedIsWhole
PROPERTIES ServesInTheEnd
CHECK_DEADLOCK FALSE

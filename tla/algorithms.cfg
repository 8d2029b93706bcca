SPECIFICATION AlgorithmsSpec
CONSTANTS
  Sid = {s1, s2, none}
  NoSid = none
  Text = {q, empty, blank}
  Empty = empty
  Blanks = blank
  MaxMessages = 3
  TTL = 1
  MaxClock = 3
  MaxExchanges = 2
  MaxPieces = 4
  Texts <- PieceTexts
  MaxChunk = 3
  Options <- FourOptions
  Candidates <- FourQuestions
  MinSingle = 1
  MinMulti = 1
  Descriptive = 2
  Points <- SomeMarks
INVARIANTS HistoryIsRecentTail ChunksDoNotMatter LagIsOneHeader ReportIsConsistent ActionFollowsScore
CHECK_DEADLOCK FALSE

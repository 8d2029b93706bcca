\* Two quizzes, the learner's or a workflow's, submitted up to twice, with a
\* restart of the quiz service in the world where its process ends.
SPECIFICATION FairSpec
CONSTANTS
  Worlds <- EveryWorld
  MaxQuizzes = 2
  MaxWorkflows = 1
  MaxEdits = 1
  MaxSubmits = 2
  MaxRestarts = 1
INVARIANTS LockedWhileUnderWay ResultIsOfTheLast
CONSTRAINT OneQuiz
PROPERTIES LoadingEnds AnswersPreserved
CHECK_DEADLOCK FALSE

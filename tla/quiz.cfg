\* Three generations against a model that misbehaves, a process that dies and records that kill it.
SPECIFICATION FairSpec
CONSTANTS
  Worlds <- MCWorlds
  MaxAttempts = 2
  MaxTries = 2
  PoolSize = 2
  MaxDeaths = 2
  NoJob = NoJob
INVARIANTS CommittedIsAnswered GenerationIsSound PoolDrained
PROPERTY Answered
CHECK_DEADLOCK FALSE

\* What agent.py says of its exceptions, against answers that cannot be used.
SPECIFICATION Spec
CONSTANTS
  Worlds <- UnusableOnly
  MaxAttempts = 2
  MaxTries = 2
  PoolSize = 2
  MaxDeaths = 1
  NoJob = NoJob
PROPERTY NothingPropagates
CHECK_DEADLOCK FALSE

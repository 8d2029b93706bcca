\* Pages in parallel, then kills, stops and unusable records.
SPECIFICATION FairSpec
CONSTANTS
  Worlds <- MCWorlds
  MaxErrors = 2
  MaxStarts = 3
INVARIANTS SourceOrder NoPageLost CommittedIsCompleted StopRepeatsNothing
PROPERTY EveryRequestCompleted
CHECK_DEADLOCK FALSE

\* Two submissions, reliable Kafka and agents.
SPECIFICATION FairSpec
CONSTANTS
  Submission = {s1, s2}
  Workflow = {w1, w2}
  RawLevel <- MCRawLevel
  Level <- MCLevel
  Lower <- MCLower
  EnumLevel <- MCLevel
  UnknownLevel = "unknown"
  Payload <- MixedPayload
  Faults = {}
  NoWorkflow = NoWorkflow
  NoSubmission = NoSubmission
CHECK_DEADLOCK FALSE
INVARIANTS OwedWhatItLacks ResumeFeedsRightNode TeachingIsComplete
PROPERTY Answered

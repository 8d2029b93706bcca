\* Everything one user can ask for, with every failure, and with a record read twice.
SPECIFICATION Spec
CONSTANTS
  Submission = {s1}
  Workflow = {w1, w2}
  RawLevel <- MCRawLevel
  Level <- MCLevel
  Lower <- MCLower
  EnumLevel <- MCLevel
  UnknownLevel = "unknown"
  Payload <- AnyPayload
  Faults = {"publish_fails", "agent_silent", "redelivery", "restart", "bad_record"}
  NoWorkflow = NoWorkflow
  NoSubmission = NoSubmission
CONSTRAINT SecondRuns
CHECK_DEADLOCK FALSE
INVARIANTS ActiveIffPaused NeverRepublished AtMostOneAnswer
PROPERTY ImplementsLearningWorkflow

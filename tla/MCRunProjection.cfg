SPECIFICATION Spec
CONSTANTS
  Node <- Ids
  Flows <- EveryKindFlows
  MaxPolls = 2
  MaxAttempts = 2
  Decision = {"APPROVED"}
  Moves = {"cancel", "expire", "early_resume", "configure", "crash", "lost_answer", "overrun", "lost_call"}
  MaxFaults = 2
INVARIANTS
  ProjectionTypeOK
  UpstreamRowsFirst
  RowAgreesWithResult
  SkippedNeverRuns
  RunWaitsForSomeNode
  OnlyAcceptedCallbackCompletes
CHECK_DEADLOCK FALSE

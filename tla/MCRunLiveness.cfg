SPECIFICATION FairSpec
CONSTANTS
  Node <- Ids
  Flows <- EveryKindFlows
  MaxPolls = 2
  MaxAttempts = 2
  Decision = {"APPROVED", "REJECTED"}
  Moves = {"expire", "configure", "crash", "lost_answer"}
  MaxFaults = 2
INVARIANTS
  ApprovedTaskIsDecided
PROPERTIES
  RunSettles
  CallbackResumesUnlessRepeated
CHECK_DEADLOCK FALSE

SPECIFICATION FairSpec
CONSTANTS
  Node <- Ids
  Flows <- CallbackFlow
  MaxPolls = 2
  MaxAttempts = 2
  Decision = {"APPROVED"}
  Moves = {"lost_call"}
  MaxFaults = 1
PROPERTIES
  AcceptedCallbackResumes
CHECK_DEADLOCK FALSE

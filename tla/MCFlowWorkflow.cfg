SPECIFICATION WfFairSpec
CONSTANTS
  Node <- Ids
  Flows <- WalkedFlows
  MaxPolls = 2
  Decision = {"APPROVED"}
INVARIANTS
  TypeOK
  UpstreamFirst
  BranchesRespected
  NeverStuck
  SuccessHasOutput
  CycleNeverSucceeds
PROPERTIES
  SettledIsFinal
  KeepsPromise
  EndsUnlessWaiting
CHECK_DEADLOCK FALSE

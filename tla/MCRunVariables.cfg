SPECIFICATION VariablesSpec
CONSTANTS
  Plans <- TwoWrites
  MaxTries = 2
  MaxFaults = 2
INVARIANTS
  VariablesTypeOK
  SerialUnlessOverrun
  EachNodeCountsOnce
CHECK_DEADLOCK FALSE

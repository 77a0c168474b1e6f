SPECIFICATION FairPageSpec
CONSTANTS
  Writer = {w1, w2}
  MaxEvents = 3
  MaxFaults = 1
INVARIANTS
  PageTypeOK
  SkippedWasOvertaken
PROPERTY
  PageFollowsRun
CHECK_DEADLOCK FALSE

SPECIFICATION FairScheduleSpec
CONSTANTS
  Schedule = {nightly}
  Timing = {at_one}
  Handler = {h1}
  MaxIds = 1
  MaxFires = 1
  MaxFaults = 0
PROPERTIES
  PausedRejectsScheduled
CHECK_DEADLOCK FALSE

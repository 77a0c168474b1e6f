SPECIFICATION ScheduleSpec
CONSTANTS
  Schedule = {nightly}
  Timing = {at_one, at_two}
  Handler = {h1, h2}
  MaxIds = 3
  MaxFires = 2
  MaxFaults = 1
INVARIANTS
  ScheduleTypeOK
  InSyncWhenQuiet
  OneClock
  RowKeepsItsSchedule
CHECK_DEADLOCK FALSE

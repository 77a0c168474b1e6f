--------------------------- MODULE MCScheduleSync ---------------------------
(* Schedules that want one of two timings, and requests that overlap.      *)
EXTENDS ScheduleSync
=============================================================================

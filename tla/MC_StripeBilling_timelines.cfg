SPECIFICATION Spec
CONSTANT Worlds <- Worlds_timelines
INVARIANTS TypeOK Converged AckedEventsAreTold
PROPERTIES AppliedEventsAreTold RecordNeverGoesBack EveryEventHandled
CHECK_DEADLOCK FALSE

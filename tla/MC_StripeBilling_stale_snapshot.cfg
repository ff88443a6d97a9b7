SPECIFICATION Spec
CONSTANT Worlds <- Worlds_stale_snapshot
PROPERTY CanceledIsFinal
CHECK_DEADLOCK FALSE

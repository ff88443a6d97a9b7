SPECIFICATION Spec
CONSTANT Worlds <- Worlds_skipped_edge
INVARIANT Converged
CHECK_DEADLOCK FALSE

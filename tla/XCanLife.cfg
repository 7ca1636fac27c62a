CONSTANT Calls = {"remove", "berr", "early"}
SPECIFICATION Spec
INVARIANTS TypeOK NothingLeaks CallsClocked StrayOnlyInWindows
PROPERTIES MisledOnlyByLateStart OrphanOnlyAroundOpen DeafOnlyFromStart
CHECK_DEADLOCK FALSE

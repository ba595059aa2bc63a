CONSTANT MaxTask = 1
CONSTANT Modes = {"TELEOP", "AUTO"}
SPECIFICATION Spec
CHECK_DEADLOCK FALSE
INVARIANT FaultResettable

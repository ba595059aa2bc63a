CONSTANT Clients = {c1}
CONSTANT MaxSeq = 2
CONSTANT RobotIgnores = FALSE
SPECIFICATION Spec
CHECK_DEADLOCK FALSE
PROPERTY NoMotionForwardedInEstop

CONSTANT Clients = {c1}
CONSTANT MaxSeq = 3
CONSTANT RobotIgnores = FALSE
SPECIFICATION Spec
CHECK_DEADLOCK FALSE
PROPERTY AbortOnlyDuringEstop

CONSTANT Clients = {c1}
CONSTANT MaxSeq = 2
CONSTANT RobotIgnores = FALSE
SPECIFICATION AnsweringSpec
CHECK_DEADLOCK FALSE
PROPERTY EstopAcknowledged

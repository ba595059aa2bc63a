CONSTANT Clients = {c1}
CONSTANT MaxSeq = 2
CONSTANT RobotIgnores = TRUE
SPECIFICATION Spec
CHECK_DEADLOCK FALSE
INVARIANT TypeOK
INVARIANT AckIsTruthful
INVARIANT OrderKept
PROPERTY CommandsAnswered
PROPERTY EstopForwarded

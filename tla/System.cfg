CONSTANT Clients = {c1}
CONSTANT MaxSeq = 3
CONSTANT RobotIgnores = TRUE
CONSTANT Tasks = {t1}
CONSTANT Nothing = Nothing
CONSTANT Errors = {fault}
CONSTANT Curable = {}
CONSTANT Scripts <- MCScripts
SPECIFICATION SystemSpec
CHECK_DEADLOCK FALSE
INVARIANT MovesOnlyWhenTold
INVARIANT StopIsHonoured
PROPERTY ImplementsBridge
PROPERTY ImplementsService

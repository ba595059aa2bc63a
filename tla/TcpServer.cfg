CONSTANT Clients = {c1, c2}
CONSTANT Fds = {4}
CONSTANT Stories = {"timeouts", "shutdown"}
SPECIFICATION Spec
CHECK_DEADLOCK FALSE
INVARIANT TypeOK
INVARIANT DescriptorsOwned
PROPERTY WatchdogHonest
PROPERTY SilenceReported
PROPERTY StopEnds
PROPERTY DescriptorsReleased

CONSTANT MaxTask = 1
CONSTANT Modes = {"TELEOP", "AUTO"}
SPECIFICATION Spec
CHECK_DEADLOCK FALSE
INVARIANT TypeOK
INVARIANT RunningIsSafe
INVARIANT ControlMeansReady
INVARIANT PhaseExplained
INVARIANT StoppedTaskStaysStopped
INVARIANT PublishedIsCurrent
PROPERTY ImplementsInterlock
PROPERTY TickKeepsUp
INVARIANT OfferedWhenReady
INVARIANT RecoveryOffered
INVARIANT CauseShownFirst

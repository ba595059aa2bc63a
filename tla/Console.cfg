CONSTANT MaxClicks = 3
CONSTANT MaxFaults = 2
CONSTANT MaxStarts = 4
CONSTANT Worlds = {"calm", "hasty"}
SPECIFICATION Spec
CHECK_DEADLOCK FALSE
INVARIANT TypeOK
INVARIANT ShownStateIsLive
INVARIANT OnlineIsHonest
INVARIANT ManualSticks
PROPERTY SilentServerNoticed
PROPERTY ReconnectsWhenAccepted

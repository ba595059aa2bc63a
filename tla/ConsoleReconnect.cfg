CONSTANT MaxClicks = 1
CONSTANT MaxFaults = 2
CONSTANT MaxStarts = 8
CONSTANT Worlds = {"refusing"}
SPECIFICATION Spec
CHECK_DEADLOCK FALSE
PROPERTY Reconnects

CONSTANT MaxClicks = 3
CONSTANT MaxFaults = 1
CONSTANT MaxStarts = 8
CONSTANT Worlds = {"calm"}
SPECIFICATION Spec
CHECK_DEADLOCK FALSE
PROPERTY ConnectHonoured

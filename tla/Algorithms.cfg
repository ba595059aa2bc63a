CONSTANT Width = 3
CONSTANT Height = 3
CONSTANT Maps <- AllMaps
CONSTANT Points <- AllPoints
CONSTANT Routes <- AllRoutes
CONSTANT MaxLength = 12
CONSTANT MaxChunk = 20
CONSTANT Frames <- MCFrames
CONSTANT Garbage <- MCGarbage
CONSTANT MaxStream = 28
CONSTANT Names <- MCNames
SPECIFICATION MCSpec
CHECK_DEADLOCK FALSE
INVARIANT PathIsLegal
INVARIANT PathIsShortest
PROPERTY SearchEnds
INVARIANT DemoGoalsPlannable
INVARIANT FramesSurviveSplits
INVARIANT CorruptionContained
INVARIANT CommandsReadRight
INVARIANT LookupFindsKeys

SPECIFICATION Spec
CONSTANT Handlers <- MCHandlers
CONSTANT Deltas <- MCDeltas
CONSTANT ButtonStates <- MCButtons
CONSTANT AckCounts <- MCAcks
CONSTANT MaxPackets = 2
CONSTANT MaxLoss = 1
CONSTANT MaxInits = 2
INVARIANT TypeOK
INVARIANT ToldMatchesButtons
PROPERTY PressReleaseAlternate
PROPERTY DeliversReports
PROPERTY MovementKeepsSign
CHECK_DEADLOCK FALSE

SPECIFICATION Spec
CONSTANT Handlers <- MCComplete
CONSTANT Deltas <- MCFar
CONSTANT ButtonStates <- MCButtons
CONSTANT AckCounts <- MCWholeAcks
CONSTANT MaxPackets = 2
CONSTANT MaxLoss = 0
CONSTANT MaxInits = 2
PROPERTY MovementKeepsSign
CHECK_DEADLOCK FALSE

SPECIFICATION SafeSpec
CONSTANT Handlers <- MCComplete
CONSTANT Deltas <- MCExact
CONSTANT ButtonStates <- MCButtons
CONSTANT AckCounts <- MCWholeAcks
CONSTANT MaxPackets = 2
CONSTANT MaxLoss = 0
CONSTANT MaxInits = 2
INVARIANT NoEventBeforeReport
CHECK_DEADLOCK FALSE

SPECIFICATION Spec
CONSTANT Width = 4
CONSTANT Height = 3
CONSTANT Configs <- MCGapConfigs
CONSTANT Buses = 2
CONSTANT Devices = 2
CONSTANT FirmwareCards <- MCOneCard
CONSTANT SampleWindows <- MCWindows
CONSTANT Vectors <- MCVectors
CONSTANT MaxInterrupts = 0
CONSTANT MaxNesting = 1
INVARIANT ScanFindsAll

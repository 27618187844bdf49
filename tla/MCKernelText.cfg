SPECIFICATION Spec
CONSTANT Width = 4
CONSTANT Height = 3
CONSTANT Configs <- MCOneConfig
CONSTANT Buses = 2
CONSTANT Devices = 2
CONSTANT FirmwareCards <- MCOneCard
CONSTANT SampleWindows <- MCWindows
CONSTANT Vectors <- MCSpurious
CONSTANT MaxInterrupts = 210
CONSTANT MaxNesting = 1
INVARIANT TextInVideoMemory

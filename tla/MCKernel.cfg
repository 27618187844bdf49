SPECIFICATION Spec
CONSTANT Width = 4
CONSTANT Height = 3
CONSTANT Configs <- MCConfigs
CONSTANT Buses = 2
CONSTANT Devices = 2
CONSTANT FirmwareCards <- MCFirmwareCards
CONSTANT SampleWindows <- MCWindows
CONSTANT Vectors <- MCVectors
CONSTANT MaxInterrupts = 3
CONSTANT MaxNesting = 2
INVARIANT TypeOK
INVARIANT ScanFindsAll
INVARIANT PortsAreBaseAddresses
INVARIANT OneLineEach
INVARIANT ModeSet
INVARIANT StoresOnScreen
INVARIANT FrameShowsScene
INVARIANT VectorReachesHandler
INVARIANT SelectorsValid
PROPERTY InterruptsTransparent
PROPERTY PaintsFrames
PROPERTY FramesAdvance
PROPERTY DrawsForever

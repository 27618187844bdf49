SPECIFICATION Spec
CONSTANT Firmware <- MCFirmware
CONSTANT ScanCodes <- MCOneScanCode
CONSTANT Reports <- MCOneReport
CONSTANT Hurry <- MCHurry
CONSTANT QuietBoots = {TRUE, FALSE}
CONSTANT DrainTimeout <- MCDrainTimeout
CONSTANT MaxScans = 1
CONSTANT MaxReports = 1
CONSTANT MaxStalls = 1
INVARIANT TypeOK
INVARIANT NoLostWakeup
INVARIANT InputEnabledQuietly
INVARIANT OnlyWidthCalled
PROPERTY BytesReachTheirDriver
PROPERTY BootAdvances
PROPERTY BootCompletes
PROPERTY BytesAreRead
CHECK_DEADLOCK FALSE

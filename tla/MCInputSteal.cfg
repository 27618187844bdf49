SPECIFICATION SafeSpec
CONSTANT Firmware <- MCFirmware
CONSTANT ScanCodes <- MCScanCodes
CONSTANT Reports <- MCReports
CONSTANT Hurry <- MCNoHurry
CONSTANT QuietBoots = {TRUE}
CONSTANT DrainTimeout <- MCDrainTimeout
CONSTANT MaxScans = 2
CONSTANT MaxReports = 1
CONSTANT MaxStalls = 0
INVARIANT KeyboardHandlesKeys
CHECK_DEADLOCK FALSE

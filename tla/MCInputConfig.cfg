SPECIFICATION SafeSpec
CONSTANT Firmware <- MCFirmware
CONSTANT ScanCodes <- MCScanCodes
CONSTANT Reports <- MCReports
CONSTANT Hurry <- MCNoHurry
CONSTANT QuietBoots = {FALSE}
CONSTANT DrainTimeout <- MCLongDrain
CONSTANT MaxScans = 2
CONSTANT MaxReports = 1
CONSTANT MaxStalls = 0
INVARIANT InputEnabled
CHECK_DEADLOCK FALSE

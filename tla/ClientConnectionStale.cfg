SPECIFICATION Spec
CONSTANTS
  Window = 1
  MaxSerial = 1
  MaxFaults = 2
  MaxEvents = 1
  MaxReports = 1
  LastName = 0
PROPERTIES
  OldFailuresIgnored

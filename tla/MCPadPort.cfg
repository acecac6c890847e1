SPECIFICATION FairSpec
CONSTANTS
  FrameSize = 2
  Kits <- MCKits
  TapSlots = 2
  TapBytes = 4
INVARIANTS PortAndDevicesAgree WrittenIsKept
PROPERTIES SectorsReachFile
CHECK_DEADLOCK FALSE

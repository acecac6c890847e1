SPECIFICATION Spec
CONSTANTS
  Kits <- MCKits
  FifoSize = 4
  MaxFifo = 6
  MaxPolyline = 4
  MaxRunAhead = 1
  DrawTicks = 2
  Block = 4
  MaxLate = 1
INVARIANTS WordsAreFramed FlagsAndEventAgree
PROPERTIES WaitingEnds
CHECK_DEADLOCK FALSE

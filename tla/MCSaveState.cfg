SPECIFICATION SpecS
CONSTANTS
  a = a
  b = b
  Event = {a, b}
  Crtc = a
  Owner <- OwnerCard
  Delays = {1}
  Intervals = {1}
  Steps = {2}
  Period0 = 1
  MaxTime = 1
  MaxDeadline = 1
  MaxStates = 1
INVARIANTS LoadedInTime LoadedCaughtUp
PROPERTIES SaveKeepsDeadlines
CHECK_DEADLOCK FALSE

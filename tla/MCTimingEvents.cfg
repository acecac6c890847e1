SPECIFICATION FairSpec
CONSTANTS
  a = a
  b = b
  c = c
  Event = {a, b}
  Crtc = a
  Delays = {1, 3}
  Intervals = {2}
  Steps = {1, 2}
  Period0 = 2
  MaxTime = 2
  MaxDeadline = 4
INVARIANTS QueueSorted QueueIsActiveSet CpuStopsAtHead
PROPERTIES DispatchOnTime ImplementsClock CommitTerminates
CHECK_DEADLOCK FALSE

SPECIFICATION Spec
CONSTANTS
  Timer = {0, 2}
  Overflow = 4
  Div = 2
  MaxSlice = 5
  Modes <- SomeModes
  Values = {2}
  MaxGpuTicks = 1
  MaxLate = 1
INVARIANTS NoTickLostAtGate BulkIsExact InterruptsAreDue OneShotFiresOnce

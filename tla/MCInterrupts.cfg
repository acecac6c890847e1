SPECIFICATION FairSpec
CONSTANTS
  vblank = vblank
  dma = dma
  Irq = {vblank, dma}
INVARIANTS RequestFollowsRegisters InterruptsArePrecise
PROPERTIES EdgesAreKept InterruptIsTaken

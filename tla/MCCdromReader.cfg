SPECIFICATION FairSpec
CONSTANTS
  d1 = d1
  d2 = d2
  Disc = {d1, d2}
  None = None
  Length = 4
  Bad = {3}
  Cap = 2
  CountMod = 4
  Calls = {}
INVARIANTS BuffersBelongToDisc LatestReadAnswered
PROPERTIES CallsReturn

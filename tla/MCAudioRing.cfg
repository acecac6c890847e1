SPECIFICATION Spec
CONSTANTS
  Chunk = 2
  TimeShare = 8
  PlainShare = 2
  Sizes <- MCSizes
  Requests <- MCRequests
  Frames = 3
  MaxChanges = 1
INVARIANTS RingIsShared
PROPERTIES ImplementsQueue SoundComesBack

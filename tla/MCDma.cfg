SPECIFICATION FairSpec
CONSTANTS
  Channel = {2, 6}
  Otc = 6
  SyncModes <- ModesOf
  Slices = {1, 2}
  Full = 2
  Delays = {0, 2}
  HaltTicks = 1
  Reenters <- DropOwn
  Exits = {2}
  DicrWrites <- Enabling
  MaxHalt = 1
INVARIANTS TransfersAddUp NoLostTransfer
PROPERTIES ReadyMovesOn

SPECIFICATION FairSpecM
CONSTANTS
  Channel = {0, 1}
  Otc = 6
  SyncModes <- ByRequest
  Slices = {1}
  Full = 2
  Delays = {0}
  HaltTicks = 1
  Reenters = {}
  Exits = {}
  DicrWrites = {}
  MaxHalt = 1
  InCap = 4
  OutCap = 2
  Burst = 2
  InBlock = 2
  OutBlock = 1
  Picture = {1, 2}
  Words = {1, 2}
  Tables = {2}
  Depths = {TRUE, FALSE}
  Commands = {"decode", "table", "invalid"}
INVARIANTS DecoderAndChannelsAgree ExactUnlessNested
PROPERTIES StreamFlows
CHECK_DEADLOCK FALSE

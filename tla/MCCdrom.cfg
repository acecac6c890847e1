SPECIFICATION FairSpec
CONSTANTS
  Commands = {"simple", "setloc", "setmode", "getid", "seek", "readt", "read", "play", "pause", "stop", "init", "motoron"}
  Loads = {"same", "off"}
  Swaps = {TRUE, FALSE}
INVARIANTS EventsAndResponsesAgree OnlyHasteSticks
PROPERTIES AnswersArrive
CHECK_DEADLOCK FALSE

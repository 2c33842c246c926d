SPECIFICATION FairSpec
CONSTANTS
  Pdus = {"l", "a"}
  MsgOf <- SaMsgOf
  Garbled = {}
  Unencodable = {}
  Slots = {1, 2}
  Auto = FALSE
  MaxFaults = 1
  Sender <- SaSender
  Text <- SaText
  Files <- OneFile
PROPERTIES StuckPromptCleared

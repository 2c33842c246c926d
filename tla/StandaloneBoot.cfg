SPECIFICATION BootSpec
CONSTANTS
  Pdus = {"l", "a"}
  MsgOf <- SaMsgOf
  Garbled = {}
  Unencodable = {}
  Slots = {1, 2}
  Auto = TRUE
  MaxFaults = 1
  Sender <- SaSender
  Text <- SaText
  Files <- OneFile
INVARIANTS StoredNotExecuted

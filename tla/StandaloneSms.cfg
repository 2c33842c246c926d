SPECIFICATION FairSpec
CONSTANTS
  Pdus = {"l", "k", "r"}
  MsgOf <- SaMsgOf
  Garbled = {}
  Unencodable = {}
  Slots = {1, 2}
  Auto = TRUE
  MaxFaults = 1
  Sender <- SaSender
  Text <- SaText
  Files <- SaFiles
INVARIANTS TypeOK Accounted OncePerRun AnswersMatch InertWhileDisabled
PROPERTIES NeverStranded

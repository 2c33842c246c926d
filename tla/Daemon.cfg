SPECIFICATION FairSpec
CONSTANTS
  Values <- ZdValues
  Default <- ZdDefault
  Senders = {"n1", "n2"}
  Accounts <- ZdAccounts
  MaxWrites = 3
  MaxFaults = 1
  MaxCmds = 2
INVARIANTS IInv StaleIsPending NotOlder PublishedTrue GateHolds
PROPERTIES HotApplied

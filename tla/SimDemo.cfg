SPECIFICATION FairSpec
CONSTANTS
  DenyTokens = {"pw"}
  Consoles = {"con"}
  Peers = {"peer"}
  Senders = {"n1", "n2"}
  DefaultFrom = "n1"
  Texts <- SimTexts
  PeerRequests <- SimPeerRequests
  Allowlists <- SimAllowlists
  Seed <- SimSeed
  MaxCalls <- SimCalls
  MaxSettings = 1
  MaxRestarts = 1
INVARIANTS TypeOK NoSecretShown OkMeansRunOnce
PROPERTIES WritersLoggedIn PromptReturns ConnsReclaimed

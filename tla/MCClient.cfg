CONSTANTS
  a = a
  b = b
  Server = {a, b}
  NoServer = NoServer
  BanTime = 5
  Copies = {0, 1, 2}
  Strays = TRUE
  MaxPending = 2
SPECIFICATION FairSpec
INVARIANTS TypeOK ActiveListed BannedNotActive FailureHasServer
PROPERTIES AnsweredOrGivenUp FindsServer
CHECK_DEADLOCK FALSE

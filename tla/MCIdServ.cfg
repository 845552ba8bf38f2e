CONSTANTS
  Entry = {a, b}
  Request = {p, q}
  NoEntry = NoEntry
  Mixed = Mixed
  Buffer = 1
  MaxRegs = 4
SPECIFICATION FairSpec
INVARIANTS
  TypeOK
  OneWaits
  AloneGetsList
PROPERTIES
  EveryoneAnswered
  Registered
CHECK_DEADLOCK FALSE

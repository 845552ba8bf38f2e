CONSTANTS
  Other = {a}
  Host = Host
  Inbound = Inbound
  MaxFd = 2
  MaxListed = 3
  MaxJoins = 2
SPECIFICATION Spec
INVARIANTS
  TypeOK
  DescriptorsOwned
  AskedOnce
  ReadsReported
PROPERTIES
  PassKeepsOpen
CHECK_DEADLOCK FALSE

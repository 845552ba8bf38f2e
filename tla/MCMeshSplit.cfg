SPECIFICATION Spec
CONSTANTS
  Server = {a, b}
  Message = {m1}
  Capacity = 1
  NoServer = NoServer
  NoConn = NoConn
  NoMessage = NoMessage
  Reliable = TRUE
  Segmented = TRUE
  MaxStops = 0
INVARIANTS
  NoLineDropped

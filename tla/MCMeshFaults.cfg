SPECIFICATION Spec
CONSTANTS
  Server = {a, b}
  Message = {m1}
  Capacity = 1
  NoServer = NoServer
  NoConn = NoConn
  NoMessage = NoMessage
  Reliable = FALSE
  Segmented = TRUE
  MaxStops = 1
PROPERTIES
  BulletinSpec

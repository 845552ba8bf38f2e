SPECIFICATION Spec
CONSTANTS
  Server = {a, b}
  Message = {m1, m2}
  Capacity = 2
  NoServer = NoServer
  NoConn = NoConn
  NoMessage = NoMessage
  Reliable = TRUE
  Segmented = FALSE
  MaxStops = 1
INVARIANTS
  TypeOK
  MeshComplete
  NoLineDropped
  Converged
PROPERTIES
  BulletinSpec

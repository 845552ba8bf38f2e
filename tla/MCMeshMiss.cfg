SPECIFICATION Spec
CONSTANTS
  Server = {a, b, c}
  Message = {m1}
  Capacity = 1
  NoServer = NoServer
  NoConn = NoConn
  NoMessage = NoMessage
  Reliable = TRUE
  Segmented = FALSE
  MaxStops = 0
SYMMETRY Symmetry
CONSTRAINT OneAtATime
INVARIANTS
  Converged

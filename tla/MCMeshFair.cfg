SPECIFICATION FairSpec
CONSTANTS
  Server = {a, b}
  Message = {m1, m2}
  Capacity = 1
  NoServer = NoServer
  NoConn = NoConn
  NoMessage = NoMessage
  Reliable = TRUE
  Segmented = FALSE
  MaxStops = 0
PROPERTIES
  LinesArrive
  JoinerCatchesUp

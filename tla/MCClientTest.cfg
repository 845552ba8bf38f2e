CONSTANTS
  a = a
  b = b
  Server = {a, b}
  NoServer = NoServer
  BanTime = 5
  Copies = {0, 1, 2}
  Strays = FALSE
  MaxPending = 2
SPECIFICATION Spec
SYMMETRY ServerSymmetry
INVARIANT AnswerClearsTest
CHECK_DEADLOCK FALSE

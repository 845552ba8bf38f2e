SPECIFICATION Spec
CONSTANTS
  Capacity = 3
  MaxAdds = 7
  Message = {m1, m2}
  NoItem = NoItem
  Stamps <- MCStamps
  Asked <- MCAsked
INVARIANTS
  TypeOK
  StampsIncrease
PROPERTY
  LogSpec

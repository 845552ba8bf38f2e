CONSTANTS
  Blank = " "
  Plain <- MCPlain
  Hex <- MCHex
  Lower <- MCLower
  Entries <- MCEntries
  Terms <- MCTerms
  Key <- MCKeys
  NoItem = NoItem
  NoKey = NoKey
SPECIFICATION Spec
INVARIANTS
  TypeOK
  FilterExact
  FocusDisplayed
PROPERTIES
  KeysFollowOrder

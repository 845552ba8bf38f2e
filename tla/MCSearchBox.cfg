CONSTANTS
  Text <- MCText
  Label <- MCLabel
  Blank = " "
  Content <- MCContent
  NoMatches = NoMatches
  NoPage = NoPage
  MaxTimers = 2
SPECIFICATION FairSpec
INVARIANTS
  TypeOK
  HiddenForgets
  FrameFollowsSearch
  LabelWhenIdle
  NotHiddenUnderPointer
PROPERTIES
  TextSearched

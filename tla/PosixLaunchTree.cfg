CONSTANTS
  Child = child
  Descendants = {d1}
  NoProcess = none
  MaxOutput = 0
  StdinCap = 1
  Options <- TreeOptions
  MaxReadErrors = 0
SPECIFICATION FairSpec
INVARIANTS
  TreeCloseEndsGroup
PROPERTIES
  CallsReturn

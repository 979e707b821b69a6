CONSTANTS
  Child = child
  Descendants = {d1}
  NoProcess = none
  MaxOutput = 0
  StdinCap = 0
  Options <- LostTreeOptions
  MaxReadErrors = 0
SPECIFICATION Spec
INVARIANTS
  TreeCloseEndsGroup

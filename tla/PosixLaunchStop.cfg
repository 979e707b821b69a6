CONSTANTS
  Child = child
  Descendants = {}
  NoProcess = none
  MaxOutput = 0
  StdinCap = 0
  Options <- StopOptions
  MaxReadErrors = 0
SPECIFICATION Spec
INVARIANTS
  StopNeedsProcessID

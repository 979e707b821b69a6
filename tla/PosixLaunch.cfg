CONSTANTS
  Child = child
  Descendants = {d1}
  NoProcess = none
  MaxOutput = 1
  StdinCap = 0
  Options <- ManyOptions
  MaxReadErrors = 1
SPECIFICATION Spec
INVARIANTS
  TypeOK
  RefsCountUsers
  CloseTakesEffect
  ExitedAfterAllOutput
PROPERTIES
  FollowsContract
  QuietAfterJoin

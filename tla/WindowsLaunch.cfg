CONSTANTS
  Child = child
  Descendants = {d1}
  NoProcess = none
  MaxOutput = 1
  StdinCap = 0
  Options <- ManyOptions
SPECIFICATION FairSpec
INVARIANTS
  TypeOK
  LaunchIsSound
PROPERTIES
  FollowsContract
  CallsReturn

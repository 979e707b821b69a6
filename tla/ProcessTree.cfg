CONSTANTS
  Root = root
  Others = {p1, p2, p3}
  Protected = {p3}
  Adopter = init
SPECIFICATION FairSpec
INVARIANTS
  TypeOK
  KillsWholeTree
  NothingLeftPaused
PROPERTIES
  Terminates
CHECK_DEADLOCK FALSE

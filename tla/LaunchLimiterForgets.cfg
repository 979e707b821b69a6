CONSTANTS
  Launches = {l1, l2}
  Pids = {p1, p2}
  Program = program
  Adopter = init
  Nobody = nobody
SPECIFICATION FairSpec
PROPERTIES StoppedRunsAgain
CHECK_DEADLOCK FALSE

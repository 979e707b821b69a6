CONSTANTS
  Launches = {l1}
  NoLaunch = none
  MaxRequests = 0
  MaxOutput = 0
  Faults = {"client"}
  ClosesWith = {{"Terminate", "Block"}}
SPECIFICATION FairSpec
PROPERTIES
  LaunchesEndWithoutClient
CHECK_DEADLOCK FALSE

SPECIFICATION FairSpec
CONSTANTS
    Launches = {l1}
    NoLaunch = none
    MaxRequests = 1
    MaxOutput = 1
    Faults = {"client", "server", "read"}
    ClosesWith = {{}, {"Terminate", "Block"}, {"Stop", "Linger"}}
INVARIANTS
    TypeOK EndIsLast LateRequestsReachLaunch NoOrphans
PROPERTIES
    QuietAfterClose LaunchesComeToAnEnd
CHECK_DEADLOCK FALSE

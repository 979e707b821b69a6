SPECIFICATION OwnersSpec
CONSTANTS
    Callers = {c1, c2}
    OutputKind = {"StdOut", "StdErr"}
    MaxText = 2
    MaxSends = 2
    Configs <- AllConfigs
    StopsMayFail = TRUE
    h1 = h1
    Launches = {h1, h2}
    MaxOutput = 2
    Setups <- AllSetups
INVARIANTS
    TypeOK OutputIsWhole StopsAreServed
    HandlerTypeOK CallbacksFindTheirLaunch LaunchesAreTold
PROPERTIES
    KeepsContract CallsReturn HandlerKeepsWord
CHECK_DEADLOCK FALSE

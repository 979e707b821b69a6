SPECIFICATION FairClientsSpec
CONSTANTS
    Readers = {"text", "binary", "subscription", "blocking", r1, r2, r3}
    LineInput = {r1}
    Exclusive = {r3, "blocking"}
    Length = 6
    MaxImps = 4
    MayFail = TRUE
    MaxCalls = 2
    Configs <- AllConfigs
INVARIANTS
    ClientsTypeOK RegistrationIsSound TextIsKept ReadsAreWhole
PROPERTIES
    InputIsServed
CHECK_DEADLOCK FALSE

SPECIFICATION FairSpec
CONSTANTS
    Launches = {l1}
    Streams = {s1}
    MaxGen = 2
    ObsoleteLimit = 2
    MaxFaults = 1
    Faults = {"gateway", "controller", "call", "vanish", "command"}
INVARIANT OwnersStayAuthorized
PROPERTY RetirementSparesStreams
PROPERTY RevocationReaches
PROPERTY RetirementProceeds

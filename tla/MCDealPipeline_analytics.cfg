SPECIFICATION FairSpec
CONSTANTS
    r1 = r1
    r2 = r2
    r3 = r3
    neon = neon
    stranger = stranger
    Requests = {r1, r2}
    Customers = {neon}
    Stages = {"new", "won"}
    Inputs <- OneInput
    MaxFaults = 0
PROPERTIES
    PublishedReachesAnalytics
CHECK_DEADLOCK FALSE

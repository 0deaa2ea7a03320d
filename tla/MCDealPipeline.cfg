SPECIFICATION FairSpec
CONSTANTS
    r1 = r1
    r2 = r2
    r3 = r3
    neon = neon
    stranger = stranger
    Requests = {r1, r2, r3}
    Customers = {neon}
    Stages = {"new", "won"}
    Inputs <- MCInputs
    MaxFaults = 2
INVARIANTS
    TypeOK
    NothingWithoutDeal
    HeldOnlyByFaults
PROPERTIES
    ImplementsChannel
    TubeDrains
CHECK_DEADLOCK FALSE

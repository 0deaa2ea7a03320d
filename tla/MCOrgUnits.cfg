SPECIFICATION Spec
CONSTANTS
    r1 = r1
    r2 = r2
    r3 = r3
    hqId = hqId
    salesId = salesId
    NoCode = NoCode
    NoUnit = NoUnit
    Requests = {r1, r2, r3}
    Labels = {"HQ", "HQ-SALES", "HQ-WMS"}
    Codes <- MCCodes
    Bodies <- MCBodies
    InitialUnits <- MCUnits
    InitialNamed <- MCNamed
INVARIANTS
    TypeOK
    TreeShape
    NamedUnitsStay
PROPERTIES
    LandsUnderNamedParent
    ConflictNeedsDots
CHECK_DEADLOCK FALSE

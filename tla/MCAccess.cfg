SPECIFICATION FairSpec
CONSTANTS
    r1 = r1
    r2 = r2
    r3 = r3
    admin = admin
    clerk = clerk
    guest = guest
    seeded = seeded
    Any = Any
    Keep = Keep
    Nobody = Nobody
    Requests = {r1, r2}
    Emails = {"admin@", "clerk@", "guest@", "new@"}
    Passwords = {"old", "new"}
    Codes = {"director", "sales", "Sales"}
    Units = {"HQ", "HQ-SALES", "HQ-WMS"}
    Existing = {"HQ", "HQ-SALES"}
    Lower <- MCLower
    Logins <- MCLogins
    Bodies <- MCBodies
    InitialUsers <- MCUsers
    InitialRoles <- MCRoles
    InitialRows <- MCRows
    InitialTokens <- MCTokens
    UnitsOf <- MCUnitsOf
INVARIANTS
    TypeOK
PROPERTIES
    CreatedWhole
    ReplacesWhole
    AdmittedOnRights
    RefusedOnlyWithoutRight
    RevokedOnce
    EveryRequestAnswered
CHECK_DEADLOCK FALSE

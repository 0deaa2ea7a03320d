SPECIFICATION FairSpec
CONSTANTS
    r1 = r1
    r2 = r2
    r3 = r3
    ivan = ivan
    anna = anna
    nobody = nobody
    contract = contract
    offer = offer
    act = act
    unseeded = unseeded
    NoDoc = NoDoc
    Requests = {r1, r2, r3}
    Site <- MixedSites
    MaxConns <- TwoConns
    NumberSequences = {offer, act}
    Prefix <- OwnPrefixes
    FirstFree <- FreshCounters
    Templates = {contract}
    Signers = {ivan, anna}
    CreateInputs <- OneCreate
    UpdateInputs <- OneMark
PROPERTIES
    EveryRequestAnswered
CHECK_DEADLOCK FALSE

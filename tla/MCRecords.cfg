SPECIFICATION Spec
CONSTANTS
    r1 = r1
    r2 = r2
    r3 = r3
    s1 = s1
    s2 = s2
    s3 = s3
    process = process
    task = task
    operation = operation
    crew = crew
    job = job
    template = template
    signer = signer
    None = None
    Requests = {r1, r2, r3}
    Second <- MCSecond
    Codes = {"K1", "k1"}
    Upper <- MCUpper
    Sendings <- MCSendings
    InitialRows <- MCRows
SYMMETRY Others
INVARIANTS
    TypeOK
    CodesNameRows
    NoEditIsLost
    AnswerShowsEdit
CHECK_DEADLOCK FALSE

SPECIFICATION FairSpec
CONSTANTS
    r1 = r1
    r2 = r2
    NoMessage = NoMessage
    JobCount = 2
    Pdfs = {1}
    Runs = {r1, r2}
    BatchSize = 2
    MaxAttempts = 2
    Capacity = 1
    MaxFaults = 1
INVARIANTS
    WorkIsNeverLost
    JobsRunOnce
PROPERTIES
    KeepsTheShelf
    EveryJobSettles
CHECK_DEADLOCK FALSE

CONSTANTS
    q1 = q1
    q2 = q2
    k1 = k1
    k2 = k2
    Requests = {q1, q2}
    Keys = {k1, k2}
    MaxJobs = 3
    h1 = h1
    h2 = h2
    Handles = {h1, h2}
    N = 3
    PageSize = 1
    Batch = 1
    MaxBatches = 2
    MaxRetries = 2
    MaxFound = 1
SPECIFICATION FairSpec
CHECK_DEADLOCK FALSE
INVARIANTS
    RequestsAgree
    DrawerTellsTheTruth
    RestsOnTheEnd
PROPERTIES
    EveryoneComesToRest

CONSTANTS
    NoDocument = none
    Jobs = {j1, j2}
    Briefs = {j2}
    Documents = {d1, d2}
    Leftovers = {d1}
    Sweep = sweep
    MaxIds = 2
    Horizon = 2
SPECIFICATION FairSpec
CHECK_DEADLOCK FALSE
INVARIANT TypeOK
PROPERTIES
    SweepSparesEvidence
    EventuallyErased

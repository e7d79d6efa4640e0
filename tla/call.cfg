CONSTANTS
    Deliveries = {d1, d2}
    Evidence = {s1}
    Gateway = "openrouter"
    MaxAttempts = 3
    StartTokens = 4
    Ceiling = 9
    Answers <- CallAnswers
SPECIFICATION FairSpec
CHECK_DEADLOCK FALSE
INVARIANTS
    NeverCutTwiceAlike
    CostIsTotal
PROPERTIES
    AskedNoMoreThanAllowed
    WrittenOnce
    StopReachesTheGateway

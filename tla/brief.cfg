SPECIFICATION FairSpec
CONSTANTS
  Workers = {w1, w2}
  JobTime = 3
  LeaseTime = 1
  Generations = 3
  Redeliveries = 2
CHECK_DEADLOCK FALSE
INVARIANTS
    LinkedFollowsPrimary
    PublishedIsQuiet
    SuppressedIsRevoked
PROPERTIES
    NothingPersistedUnpermitted
    Promised
    EventuallyClosed

SPECIFICATION FairSpec
CONSTANTS
  ann = ann
  bob = bob
  Shards = {s1}
  Waves = {v1}
  Story = story
  NamesOf <- TwoNames
  Deep = TRUE
  BareHandle = TRUE
  SynthesisKey = TRUE
  JobTime = 4
  AnchorReserve = 1
  AnchorWindow = 1
  WaveBudget = 2
  Workers = {w1, w2}
  Outcomes = {"success", "partial_success", "provider_error"}
  ShardLease = 1
  WaveLease = 2
  StoryLease = 1
  Redeliveries = 0
  Losses = {s1, v1}
CHECK_DEADLOCK FALSE
INVARIANTS
  TypeOK
  ExclusiveOwner
  NoGhostAttempt
  EvidenceMatchesOutcomes
  ReadyDeepJobRanItsStory
  ChosenAnchorStartsWave
PROPERTIES
  SettledIsFinal
  StoryHasAllEvidence
  EventuallyClosed

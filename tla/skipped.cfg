SPECIFICATION Spec
CONSTANTS
  ann = ann
  bob = bob
  Shards = {s1}
  Waves = {v1}
  Story = story
  NamesOf <- OneName
  Deep = TRUE
  BareHandle = FALSE
  SynthesisKey = TRUE
  JobTime = 3
  AnchorReserve = 1
  AnchorWindow = 1
  WaveBudget = 2
  Workers = {w1}
  Outcomes = {"success", "provider_error"}
  ShardLease = 1
  WaveLease = 2
  StoryLease = 1
  Redeliveries = 0
  Losses = {}
CHECK_DEADLOCK FALSE
INVARIANTS
  SkippedMeansNotConfigured

SPECIFICATION FairSpec
CONSTANTS
  ann = ann
  bob = bob
  Shards = {s1}
  Waves = {}
  Story = story
  NamesOf <- OneName
  Deep = TRUE
  BareHandle = FALSE
  SynthesisKey = TRUE
  JobTime = 2
  AnchorReserve = 1
  AnchorWindow = 1
  WaveBudget = 2
  Workers = {w1}
  Outcomes = {"success", "provider_error"}
  ShardLease = 1
  WaveLease = 2
  StoryLease = 1
  Redeliveries = 0
  Losses = {story}
CHECK_DEADLOCK FALSE
PROPERTIES
  EventuallyClosed

SPECIFICATION Spec
CONSTANTS
  ann = ann
  bob = bob
  Shards = {s1}
  Waves = {}
  Story = story
  NamesOf <- OneName
  Deep = FALSE
  BareHandle = FALSE
  SynthesisKey = TRUE
  JobTime = 2
  AnchorReserve = 1
  AnchorWindow = 1
  WaveBudget = 2
  Workers = {w1, w2}
  Outcomes = {"success"}
  ShardLease = 1
  WaveLease = 2
  StoryLease = 1
  Redeliveries = 2
  Losses = {}
CHECK_DEADLOCK FALSE
PROPERTIES
  SettledRunIsNotReplayed

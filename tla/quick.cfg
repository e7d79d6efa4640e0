SPECIFICATION LoopSpec
CONSTANTS
  ann = ann
  bob = bob
  Shards = {s1, s2}
  Waves = {v1}
  Story = story
  NamesOf <- TwoNames
  Deep = FALSE
  BareHandle = TRUE
  SynthesisKey = TRUE
  JobTime = 2
  AnchorReserve = 1
  AnchorWindow = 1
  WaveBudget = 2
  Workers = {w1}
  Outcomes = {"success", "provider_error"}
  ShardLease = 1
  WaveLease = 2
  StoryLease = 1
  Redeliveries = 1
  Losses = {s1, v1}
CHECK_DEADLOCK FALSE
INVARIANTS
  ReportIsFrozen
  ClosedJobIsQuiet
PROPERTIES
  Promised
  ChooserIsLeft
  EventuallyClosed

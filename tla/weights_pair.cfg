SPECIFICATION Spec
CONSTANTS
  p1 = p1
  p2 = p2
  demo = demo
  other = other
  shard = shard
  config = config
  success = success
  Procs <- TwoProcs
  Bundles <- OneBundle
  Files <- PairFiles
  Selected <- PairSelected
  Required <- PairRequired
  FirstSize <- PairSize
  LegacySets <- PairLegacy
  MaxSize = 2
  MaxVersion = 1
  MaxAttempts = 1
  MaxFaults = 2
INVARIANTS
  InterruptedNeverLooksLegacy
PROPERTIES
  LegacyPathIsGuarded

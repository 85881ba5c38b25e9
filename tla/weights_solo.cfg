SPECIFICATION Spec
CONSTANTS
  p1 = p1
  p2 = p2
  demo = demo
  other = other
  shard = shard
  config = config
  success = success
  Procs <- OneProc
  Bundles <- OneBundle
  Files <- SoloFiles
  Selected <- SoloSelected
  Required <- SoloRequired
  FirstSize <- SoloSize
  LegacySets <- SoloLegacy
  MaxSize = 2
  MaxVersion = 1
  MaxAttempts = 2
  MaxFaults = 3
INVARIANTS
  CompleteIsFaithful
  CompletedPullRunsOffline
  PreparedIsWhole

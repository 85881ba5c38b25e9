SPECIFICATION FairSpec
CONSTANTS
  p1 = p1
  p2 = p2
  demo = demo
  other = other
  shard = shard
  config = config
  success = success
  Procs <- OneProc
  Bundles <- TwoBundles
  Files <- SharedFiles
  Selected <- SharedSelected
  Required <- SharedRequired
  FirstSize <- SharedSize
  LegacySets <- NoLegacy
  MaxSize = 2
  MaxVersion = 2
  MaxAttempts = 1
  MaxFaults = 1
INVARIANTS
  MarkerUntilComplete
PROPERTIES
  PullsConverge

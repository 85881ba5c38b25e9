SPECIFICATION FairSpec
CONSTANTS
  manifest = manifest
  code = code
  lib = lib
  dir = dir
  envA = envA
  envB = envB
  wantA = wantA
  wantB = wantB
  NoDir = NoDir
  NoWant = NoWant
  NoEnv = NoEnv
  Paths <- AllPaths
  ManifestPath = manifest
  Dirs = {dir}
  Legacy = {}
  DirOf <- DirOfPath
  Envs <- TwoEnvs
  MaxPub = 2
  Index <- TwoIndexes
  Body <- TwoBodies
  Unhashed = {code}
  Supports <- TwoSupports
  RuntimeOf <- TwoRuntimes
  Wants = {wantA, wantB}
  AbiOf <- OneAbi
  Stack <- TwoStacks
  MaxSchema = 2
  WantOf <- ByEnv
  NativeFiles = {lib}
  SystemCuda = FALSE
  MaxAborts = 1
  MaxCleans = 0
INVARIANTS
  MarkerVouchesForTree
  EntryFindsWhatItNeeds
  PreparedRunsOffline

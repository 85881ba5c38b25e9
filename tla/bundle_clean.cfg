SPECIFICATION FairSpec
CONSTANTS
  manifest = manifest
  code = code
  lib = lib
  dir = dir
  envA = envA
  envB = envB
  wantA = wantA
  wantB = wantB
  NoDir = NoDir
  NoWant = NoWant
  NoEnv = NoEnv
  Paths <- AllPaths
  ManifestPath = manifest
  Dirs = {dir}
  Legacy = {}
  DirOf <- DirOfPath
  Envs <- TwoEnvs
  MaxPub = 1
  Index <- OneIndex
  Body <- OneBody
  Unhashed = {code}
  Supports <- OneSupports
  RuntimeOf <- OneRuntime
  Wants = {wantA, wantB}
  AbiOf <- OneAbi
  Stack <- TwoStacks
  MaxSchema = 1
  WantOf <- OneByEnv
  NativeFiles = {lib}
  SystemCuda = FALSE
  MaxAborts = 1
  MaxCleans = 1
INVARIANTS
  FingerprintVouchesForVenv
PROPERTIES
  RunsAgain

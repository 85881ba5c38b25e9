CONSTANTS
  torch = torch
  app = app
  http = http
  dep = dep
  cublas = cublas
  host = host
  gr00t = gr00t
  None = None
  Names <- MCNames
  Torch = torch
  CudaWheels = {}
  NoRoot = {}
  Versions <- MCVersions
  Builds = {"cuda", "plain"}
  Host = host
  Gr00t = gr00t
  Requires <- MCRequires
  PyPI <- MCPyPI
  TorchIndex <- MCTorchIndex
  Bundles <- MCBundles
  Env = "env"
  Repos <- Empty
  Shipped <- Empty
  HostSources = {"checkout"}
  MaxFaults = 2
  Modes <- BothModes
  EntryNeeds <- MCNeeds
  HttpStack = {http}
  NativeRuntime = TRUE
  Userland <- MCUserland
  SystemCuda = FALSE
  Dlopens = TRUE
  SkipUserland = FALSE
  SkipAutoInstall = FALSE
  Extras = {"extra a", "extra b"}
  Usable = {"extra a"}
  ManifestEnv = {"tokenizer"}
  Undeclared = {"extra c"}
SPECIFICATION EntrySpec
INVARIANTS EntryRunsReady EntryEnvIsOwn
PROPERTIES EngineRespectsNoInstall EveryRunEnds


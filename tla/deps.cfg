CONSTANTS
  torch = torch
  audio = audio
  app = app
  helper = helper
  misc = misc
  host = host
  gr00t = gr00t
  None = None
  Names <- MCNames
  Torch = torch
  CudaWheels = {audio}
  NoRoot = {}
  Versions <- MCVersions
  Builds = {"cuda", "plain"}
  Host = host
  Gr00t = gr00t
  Requires <- MCRequires
  PyPI <- MCPyPI
  TorchIndex <- MCTorchIndex
  Bundles <- MCBundles
  Env = "env"
  Repos <- MCRepos
  Shipped <- Empty
  HostSources = {"checkout"}
  MaxFaults = 2
SPECIFICATION Spec
INVARIANTS ReadyMeansLoaded
PROPERTIES PinsHold Heals

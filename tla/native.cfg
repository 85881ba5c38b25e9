CONSTANTS
  None = None
  SmOf <- MCSm
  CuOf <- MCCu
  PyOf <- MCPy
  Systems = {"linux"}
  Machines = {"x86_64", "aarch64"}
  Modules = {"flash_rt_kernels", "flash_rt_pi"}
  AbiLike = {"0.1", "0.2", "dev", "f00d123"}
  Rank <- MCRank
  Pubs <- MCPubs
  Gpus <- MCGpus
  Pythons = {310, 312}
  Overrides <- MCOverrides
  LibVersions = {1, 2}
  PySegment <- MCPySegment
  MaxSyncs = 1
SPECIFICATION Spec
INVARIANTS KinCell OneBuild NothingSkipped KernelsReachTheApi GateVouches

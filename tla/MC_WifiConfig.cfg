CONSTANTS
  NULL = NULL
  ValidIPs = {}
  ValidMACs = {}
  Nets = {"eth0", "eth1"}
  Calls <- MCWellFormedCalls
  AllocMayFail = TRUE
SPECIFICATION Spec
INVARIANT TableAccessPointsComplete
INVARIANT TypeOK
INVARIANT RenderedMatchesMapping

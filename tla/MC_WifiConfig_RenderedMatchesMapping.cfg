CONSTANTS
  NULL = NULL
  ValidIPs = {}
  ValidMACs = {}
  Nets = {"eth0", "eth1"}
  Calls <- MCStaleCalls
  AllocMayFail = FALSE
SPECIFICATION Spec
INVARIANT RenderedMatchesMapping

CONSTANTS
  NULL = NULL
  ValidIPs = {}
  ValidMACs = {}
  Nets = {"eth0", "eth1"}
  Calls <- MCDuplicateCalls
  AllocMayFail = FALSE
SPECIFICATION Spec
PROPERTY FirstAccessPointRetained

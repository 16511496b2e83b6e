CONSTANTS
  NULL = NULL
  ValidIPs = {"10.0.0.1/24", "10.0.0.2/24"}
  ValidMACs = {"00:11:22:33:44:55"}
  Docs <- MCDocs
  OverReadAny = FALSE
  MaxDepth = 8
  AllocMayFail = FALSE
SPECIFICATION Spec
INVARIANT AddressLiteralOnce

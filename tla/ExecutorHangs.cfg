\* A timer that ends before the host arms the deadline.
CONSTANTS
  None        = None
  StepNames   = {"collect", "apply", "requirements"}
  Packs       <- MCPacks
  MaxCalls    = 2
  MemorySizes <- MCMemorySizes
  MemoryLimit = 131072
  InputLens   <- MCInputLens
  Returned    <- MCReturned
  MaxOutput   = 65536
  UsizeSize   = 1073741824

SPECIFICATION FairSpec

PROPERTIES
  CallsReturn

\* The executor stops after the last call.
CHECK_DEADLOCK FALSE

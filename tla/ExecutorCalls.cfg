\* Three calls, whose timers may outlive them and overtake the host.
CONSTANTS
  None        = None
  StepNames   = {"collect", "apply", "requirements"}
  Packs       <- MCPacks
  MaxCalls    = 3
  MemorySizes <- MCMemorySizes
  MemoryLimit = 131072
  InputLens   <- MCInputLens
  Returned    <- MCReturned
  MaxOutput   = 65536
  UsizeSize   = 1073741824

SPECIFICATION FairSpec

INVARIANTS
  TypeOK
  InterruptOnlyAfterOwnTimeout
  OnlyFailuresLeaveThreads
  OutputWithinLimits
  ComponentIsForStep

PROPERTIES
  OnlyLateArmingLosesTimeout
  ImplementsStepCalls
  ArmedCallsReturn

\* The executor stops after the last call.
CHECK_DEADLOCK FALSE

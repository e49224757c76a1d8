CONSTANTS
  None     = None
  Piece    <- Pieces
  Installs <- TwoInstalls
  Records  <- ThreeRecordsEach
  Handles  = {h1}
  Faults   = {}

SPECIFICATION Spec
CONSTANTS
  h1 = h1

INVARIANTS
  IdleMeansPersisted

PROPERTIES
  ImplementsInstallMap

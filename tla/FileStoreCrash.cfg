CONSTANTS
  None     = None
  Piece    <- Pieces
  Installs <- TwoInstalls
  Records  <- TwoRecordsEach
  Handles  = {h1}
  Faults   = {"crash_in_write"}

SPECIFICATION Spec
CONSTANTS
  h1 = h1

INVARIANTS
  FileCanBeReopened

CHECK_DEADLOCK FALSE

CONSTANTS
  None     = None
  Piece    <- Pieces
  Installs <- TwoInstalls
  Records  <- TwoRecordsEach
  Handles  = {h1, h2}
  Faults   = {"open_fails", "write_fails", "crash_in_write"}

SPECIFICATION Spec
CONSTANTS
  h1 = h1
  h2 = h2

SYMMETRY HandleSymmetry

INVARIANTS
  OneRecordPerInstall
  MemoryIsCurrent

CHECK_DEADLOCK FALSE

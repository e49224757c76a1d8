CONSTANTS
  None      = None
  Replies   <- MCReplies
  PackDirs  <- MCPackDirs
  Providers = {None}

SPECIFICATION Spec

INVARIANTS
  PassedPacksWork

\* The process ends.
CHECK_DEADLOCK FALSE

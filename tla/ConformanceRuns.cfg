CONSTANTS
  None      = None
  Replies   <- MCReplies
  PackDirs  <- MCPackDirs
  Providers = {None, "a", "c"}

SPECIFICATION Spec

INVARIANTS
  TypeOK
  DiscoveryFollowsDeclarations
  FormsAgree
  CborManifestsAreRead
  InspectForetellsConformance
  EveryPackIsReported
  VerdictHasEvidence
  PassedPacksHideSecrets

\* The process ends.
CHECK_DEADLOCK FALSE

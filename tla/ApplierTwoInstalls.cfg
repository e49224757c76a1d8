CONSTANTS
  None      = None
  Piece     <- Pieces
  Appliers  = {"first", "second"}
  Inputs    <- TwoInstalls
  Key       <- AllKeys
  Value     = {"v1", "v2"}
  Secret    = {"s1", "s2", "t1", "t2", "r1"}
  OAuthOp   <- OAuthOps
  Plans     <- TwoPlans
  TokenSets <- BothGrants

SPECIFICATION Spec

INVARIANTS
  CompletedApplyEstablishesSecrets
  CompletedApplyEstablishesInstall

PROPERTIES
  WritesStayInPlan
  ImplementsInstallMap

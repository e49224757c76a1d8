CONSTANTS
  None      = None
  Piece     <- Pieces
  Appliers  = {"first", "second"}
  Inputs    <- TwoUsers
  Key       <- AllKeys
  Value     = {"v1", "v2"}
  Secret    = {"s1", "s2", "t1", "t2", "r1"}
  OAuthOp   <- OAuthOps
  Plans     <- MorePlans
  TokenSets <- OneGrant

SPECIFICATION Spec

INVARIANTS
  OneInstallPerNamespace

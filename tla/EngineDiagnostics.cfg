CONSTANTS
  None           = None
  Replies        <- AllReplies
  FixtureOutputs <- AllFixtures

SPECIFICATION Spec

INVARIANTS
  ReplyDiagnosticsReachResult

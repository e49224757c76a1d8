CONSTANTS
  None           = None
  Replies        <- AllReplies
  FixtureOutputs <- AllFixtures

SPECIFICATION Spec

INVARIANTS
  TypeOK
  LastPatchWins
  ListsKeepStepOrder
  PlanIsOfParsedReplies
  ComponentsSeeEarlierReplies

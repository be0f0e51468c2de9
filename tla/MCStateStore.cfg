CONSTANTS
  Call <- MCCall
  Unencodable <- MCSurrogates
  Tool = {"read", "send"}
  Arguments = {"a", "surrogate"}
  Bounded <- MCBounded
  Rules <- MCRules
  Default = "block"
  MaxCalls = 2
  MaxCallsPerTool = 1
  MaxIdenticalCalls = 1
  MaxCost = 3
  NoLimit = NoLimit
  Reader = {r1}
  Nobody = Nobody
SPECIFICATION FairSpec
INVARIANT SnapshotOrdered
PROPERTY ImplementsLedger EveryAskEnds
CHECK_DEADLOCK FALSE

CONSTANTS
  p1 = p1
  p2 = p2
  Call <- MCMemoryCalls
  Unencodable <- MCSurrogates
  Store = "memory"
  Tool = {"read", "send"}
  Arguments = {"a", "b", "deep", "surrogate"}
  Bounded <- MCBounded
  Rules <- MCRules
  Default = "block"
  MaxCalls = 2
  MaxCallsPerTool = 2
  MaxIdenticalCalls = NoLimit
  MaxCost = 2
  NoLimit = NoLimit
  Process = {p1}
  Home <- MCOneHome
  HasApprover <- MCApprover
SPECIFICATION FairSpec
INVARIANT CountsAgree CostAgrees
PROPERTY EveryCallLeavesTheGate
CHECK_DEADLOCK FALSE

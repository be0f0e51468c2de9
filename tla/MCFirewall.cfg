CONSTANTS
  p1 = p1
  p2 = p2
  Call <- MCCall
  Unencodable = {}
  Store = "sqlite"
  Tool = {"read", "send"}
  Arguments = {"a", "b", "deep", "surrogate"}
  Bounded <- MCBounded
  Rules <- MCRules
  Default = "block"
  MaxCalls = 3
  MaxCallsPerTool = 2
  MaxIdenticalCalls = 1
  MaxCost = 1
  NoLimit = NoLimit
  Process = {p1, p2}
  Home <- MCHome
  HasApprover <- MCCall
SPECIFICATION Spec
INVARIANT RunsWithinBudget RunCostWithinBudget NoUnrecordedRun ApprovalHonoured OutcomeIsTrue EvidenceIsTrue GrantedWithinBudget ExplanationAgrees
PROPERTY SpentStaysSpent TornFreezes
CHECK_DEADLOCK FALSE

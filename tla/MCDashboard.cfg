CONSTANTS
  Call = {c1, c2}
  Operator = {o1, o2}
  Viewer = {o2}
  Timeout = 1
  Nobody = Nobody
SPECIFICATION DashboardSpec
INVARIANT ToldIsHonoured SilenceDenies HiddenIsCounted
PROPERTY ImplementsVerdict EveryWaitEnds StatusIsTrue
CHECK_DEADLOCK FALSE

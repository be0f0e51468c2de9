CONSTANTS
  w1 = w1
  w2 = w2
  w3 = w3
  p1 = p1
  p2 = p2
  Writer = {w1, w2}
  Process = {p1, p2}
  ProcessOf <- TwoProcesses
  MaxRecords = 2
  Nobody = Nobody
SPECIFICATION FairSpec
PROPERTY TornIsLast
CHECK_DEADLOCK FALSE

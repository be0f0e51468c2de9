CONSTANTS
  w1 = w1
  w2 = w2
  w3 = w3
  p1 = p1
  p2 = p2
  Writer = {w1, w2, w3}
  Process = {p1}
  ProcessOf <- OneProcess
  MaxRecords = 2
  Nobody = Nobody
SPECIFICATION FairSpec
INVARIANT WrittenIsReadable
PROPERTY ImplementsTrail EveryRecordEnds
CHECK_DEADLOCK FALSE

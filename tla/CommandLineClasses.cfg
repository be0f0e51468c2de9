CONSTANTS
  Pattern <- MCClassPattern
  Name <- MCName
  MaxRules = 2
  DoctorRules = 1
  Probe <- MCProbe
  Asked = {}
  None = None
  IpAddress <- MCIpAddress
  IntegerAddress <- MCIntegerAddress
  InetAton <- MCInetAton
  PolicyVersions <- MCPolicyVersions
  CasesVersions = {}
  Gates <- MCGates
  Digits = 10
  Absent = Absent
SPECIFICATION Spec
INVARIANT FlaggedIsDead
CHECK_DEADLOCK FALSE

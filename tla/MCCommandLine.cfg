CONSTANTS
  Pattern <- MCPattern
  Name <- MCName
  MaxRules = 2
  DoctorRules = 1
  Probe <- MCProbe
  Asked <- MCAsked
  None = None
  IpAddress <- MCIpAddress
  IntegerAddress <- MCIntegerAddress
  InetAton <- MCInetAton
  PolicyVersions <- MCPolicyVersions
  CasesVersions <- MCCasesVersions
  Gates <- MCGates
  Digits = 10
  Absent = Absent
SPECIFICATION Spec
INVARIANT  Contained OneStatement PlainFlaggedIsDead CleanIsGuarded ExitIsTrue ReportTellsDrift
CHECK_DEADLOCK FALSE

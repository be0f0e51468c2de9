CONSTANTS
  call = call
  again = again
  bad = bad
  note = note
  other = other
  Nobody = Nobody
  NoId = NoId
  Id = {1, 2}
  Message <- MCFewMessages
  Calls <- MCCalls
  Malformed <- MCMalformed
  Garbled = {}
  ClientId <- MCClientId
SPECIFICATION Spec
INVARIANT ExitIsReported
CHECK_DEADLOCK FALSE

CONSTANTS
  call = call
  again = again
  bad = bad
  note = note
  other = other
  Nobody = Nobody
  NoId = NoId
  Id = {1, 2}
  Message <- MCMessage
  Calls <- MCCalls
  Malformed <- MCMalformed
  Garbled <- MCGarbled
  ClientId <- MCClientId
SPECIFICATION FairSpec
INVARIANT  TablesExact 
PROPERTY  NothingHangs
CHECK_DEADLOCK FALSE

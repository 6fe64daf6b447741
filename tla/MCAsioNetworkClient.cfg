SPECIFICATION FairSpec
CONSTANTS
  Msgs = {m1, m2}
  Garbled = Garbled
  Torn = Torn
  CONNECT = CONNECT
  DISCONNECT = DISCONNECT
  MaxEndpoints = 2
  MaxCalls = 4
  MaxPeer = 1
  MaxReceived = 3
INVARIANTS
  TypeOK
  SingleWrite
  StallsOnlyAfterFailure
PROPERTIES
  QueueSettles
CHECK_DEADLOCK FALSE

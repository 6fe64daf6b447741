SPECIFICATION FairSpec
CONSTANTS
  Msgs = {m1, m2}
  Garbled = Garbled
  Torn = Torn
  CLOSE = CLOSE
  MaxCalls = 3
  MaxPeer = 1
  MaxReceived = 3
INVARIANTS
  SingleWrite
  WireInOrder
  DisconnectReported
PROPERTIES
  NoMessageAfterDisconnect
  NoWriteAfterDeactivation
  QueueDrains
  CloseTakesEffect
CHECK_DEADLOCK FALSE

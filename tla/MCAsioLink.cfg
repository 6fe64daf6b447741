SPECIFICATION Spec
CONSTANTS
  Msgs = {m1, m2}
  Garbled = Garbled
  Torn = Torn
  CLOSE = CLOSE
  CONNECT = CONNECT
  DISCONNECT = DISCONNECT
  MaxEndpoints = 2
  ServerCalls = 2
  ClientCalls = 3
  LinkCalls = 4
  MaxReceived = 3
SYMMETRY Symmetry
PROPERTIES
  ToClientChannel
  ToServerChannel
CHECK_DEADLOCK FALSE

SPECIFICATION Spec
CONSTANTS
  Msgs = {m1, m2}
  Garbled = Garbled
  Torn = Torn
  CLOSE = CLOSE
  CONNECT = CONNECT
  DISCONNECT = DISCONNECT
  MaxEndpoints = 1
  ServerCalls = 1
  ClientCalls = 2
  LinkCalls = 3
  MaxReceived = 2
INVARIANT ClientReceivesWhatWasSent
CHECK_DEADLOCK FALSE

SPECIFICATION Spec
CONSTANTS
  a = a
  b = b
  Clients <- MCClients
  Known <- MCKnown
  Keys <- MCKeys
  Garbled = Garbled
  MaxKeys = 3
  MaxFaults = 1
INVARIANT ServerFollowsClient
PROPERTY WrecksStayWrecked
PROPERTY GoneShipsAreRemoved
PROPERTY AnswersEndTheWait
CHECK_DEADLOCK FALSE

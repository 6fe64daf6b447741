SPECIFICATION Spec
CONSTANTS
  Types = {"Position", "Rotation"}
  Nothing = Nothing
  Places = {0, 1}
  Angles = {0, 1}
  MaxEntities = 3
  PlayerCommands <- MCCommands
  Junk <- MCJunk
  MaxCalls = 5
  MaxDepth = 3
INVARIANTS
  TypeOK
  NewEntitiesAreBare
  FirstSlotLosesShip
  TwoShipsNeverHang
  NeverReadsBehind
PROPERTY
  KeepsRegistry
CHECK_DEADLOCK FALSE

SPECIFICATION Spec
CONSTANTS
  move = move
  macro = macro
  Commands = {move, macro}
  Parts <- MCParts
  Earlier <- AnyBefore
  MaxSubmits = 4
  MaxHandlers = 3
INVARIANTS
  NeverWaits
  RunsOwnCommand
  FailuresAreContained
  EffectsArePrefix
  TwoTriesThenLog
PROPERTY
  UsesCommandQueue
CHECK_DEADLOCK FALSE

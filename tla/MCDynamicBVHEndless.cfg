SPECIFICATION Spec
CONSTANTS
  Rects <- MCRects
  Scenes <- MCScenes
  Entities = {1, 2, 3, 4}
  Beyond = 0
  MaxObjects = 4
  MaxFills = 2
  MaxMoves = 0
INVARIANT SearchEnds
CHECK_DEADLOCK FALSE

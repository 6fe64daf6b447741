SPECIFICATION Spec
CONSTANTS
  Rects <- MCRects
  Scenes <- MCScenes
  Entities = {1, 2, 3, 4}
  Beyond = 0
  MaxObjects = 4
  MaxFills = 1
  MaxMoves = 0
INVARIANT CollisionsDetected
CHECK_DEADLOCK FALSE

CONSTANTS
  None = None
  wall = wall
  roof = roof
  shade = shade
  chair = chair
  CutOffset = 12
  Tolerance = 1
  Tasks = {t1, t2}
  Objects <- MCObjects
  Element <- MCElement
  Distances <- MCDistances
  Modes <- MCModes
  Angle <- MCAngle
  Below <- MCBelow
  Above <- MCAbove
  Answers <- MCAnswers
  Picks <- MCPicks
  Buildings <- MCBuildings
  MaxOps = 3
SYMMETRY Interchangeable
SPECIFICATION Spec
INVARIANTS
  HighlightedVisible
  SectionShowsRoles
  ThreeDRestored
  EdgesFollow
  PlanShowsItsFloor
CHECK_DEADLOCK FALSE

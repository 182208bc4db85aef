SPECIFICATION Spec
CONSTANTS
  Enables = {0, 1, 2}
  H = 18
  TopLimit = 4
  RightLimit = 5
  Near = 6
  DownLimit = 5
  Gap = 5
  StretchNum = 6
INVARIANTS
  TypeOK
  CrossingHasItsPoints
  DrawnInImage
  CornersAreApart

SPECIFICATION Spec
CONSTANTS
  Enables = {1}
  H = 18
  TopLimit = 4
  RightLimit = 5
  Near = 4
  DownLimit = 5
  Gap = 5
  StretchNum = 6
INVARIANTS
  FallbackReachesTheCorner

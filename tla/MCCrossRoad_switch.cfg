SPECIFICATION Spec
CONSTANTS
  Enables = {0, 1, 2}
  H = 13
  TopLimit = 4
  RightLimit = 5
  Near = 4
  DownLimit = 5
  Gap = 3
  StretchNum = 4
INVARIANTS
  FlagFollowsStatus

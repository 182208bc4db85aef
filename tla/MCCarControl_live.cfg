SPECIFICATION FairSpec
CONSTANTS
  Speeds <- MCOneSpeed
  Steer <- MCStraight
  TickMs = 1
  PhaseMs = 1
  ElapsedCap = 2
  ConfirmPolls = 1
  Threshold = 2
  Ramp <- MCRamp
PROPERTY LostCarStops
PROPERTY StartCompletes
PROPERTY PromptEnds

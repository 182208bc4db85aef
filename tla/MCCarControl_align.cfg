SPECIFICATION Spec
CONSTANTS
  Speeds <- MCOneSpeed
  Steer <- MCSteer
  TickMs = 1
  PhaseMs = 2
  ElapsedCap = 3
  ConfirmPolls = 1
  Threshold = 2
  Ramp <- MCRamp
INVARIANT AlignOnTheSpot

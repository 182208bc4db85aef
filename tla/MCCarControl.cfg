SPECIFICATION Spec
CONSTANTS
  Speeds <- MCSpeeds
  Steer <- MCSteer
  TickMs = 1
  PhaseMs = 2
  ElapsedCap = 3
  ConfirmPolls = 1
  Threshold = 2
  Ramp <- MCRamp
INVARIANT TypeOK
INVARIANT RaceOpensTheGate
INVARIANT SpeedFollowsStart
INVARIANT EvidenceIsOfThisRace
INVARIANT StopIsJustified
INVARIANT AlignsAfterTwoTicks
PROPERTY StartsAndStopsInOrder

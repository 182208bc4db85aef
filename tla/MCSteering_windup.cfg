SPECIFICATION Spec
CONSTANTS
  Center = 4
  Means <- MCMeans
  Gyros <- MCGyros
  Kp2 = 1
  Kp = 1
  Ki = 2
  Kd = 0
  Kg = 0
  OutMax = 8
  IntMax = 3
  Inner = 5
  Outer = 10
  Speeds = {0, 3}
  Basic = 2
INVARIANT TurnsToTheTrack

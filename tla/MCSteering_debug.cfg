SPECIFICATION Spec
CONSTANTS
  Center = 4
  Means <- MCMeans
  Gyros <- MCGyros
  Kp2 = 1
  Kp = 1
  Ki = 1
  Kd = 1
  Kg = 1
  OutMax = 8
  IntMax = 3
  Inner = 5
  Outer = 10
  Speeds = {0, 3}
  Basic = 2
PROPERTY ResetLeavesNothing

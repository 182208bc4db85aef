SPECIFICATION Spec
CONSTANTS
  KeyCount = 2
  Enter = 1
  Back = 2
  Shock = 10
  LongScans = 100
  LongPeriod = 1000
  LongPress = 15
  Repeat = 5
  PromptPolls = 150
INVARIANT LongPressDetectedInTime

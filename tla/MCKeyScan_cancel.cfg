SPECIFICATION Spec
CONSTANTS
  KeyCount = 2
  Enter = 1
  Back = 2
  Shock = 3
  LongScans = 5
  LongPeriod = 6
  LongPress = 4
  Repeat = 2
  PromptPolls = 2
PROPERTY CancelledStaysCancelled

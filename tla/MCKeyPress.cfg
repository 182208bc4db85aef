SPECIFICATION PressSpec
CONSTANTS
  KeyCount = 3
  Enter = 2
  Back = 3
  Shock = 3
  LongScans = 5
  LongPeriod = 6
  LongPress = 4
  Repeat = 2
  PromptPolls = 2
  MaxHeld = 15
INVARIANT TypeOK
PROPERTY ReleaseTellsPress
INVARIANT PressGivesItsEvents
INVARIANT EventsOfThatKey

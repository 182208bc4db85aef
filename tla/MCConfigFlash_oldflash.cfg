SPECIFICATION Spec
CONSTANTS
  N = 2
  SpeedItem = 1
  Values <- MCValues
  Default <- MCDefault
  SlotCount = 1
  Magic = 77
  Version = 4
  Blank = 999
  FirstPages <- MCFirstPages
PROPERTY OnlyOldFlashErases

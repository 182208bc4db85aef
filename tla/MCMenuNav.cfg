SPECIFICATION Spec
CONSTANTS
  Units <- MCUnits
  NULL = "NULL"
  Calls <- MCCalls
  MaxPageTrack = 20
  Root = "menu_root"
  Kind <- MCKind
  CarStart = "car_start"
  Loads = {"load_slot1", "load_slot2", "load_slot3", "load_slot4"}
  Erase = "erase_flash"
  Counted <- MCCounted
  Stored <- MCStored
  SpeedDebug = "speed_debug"
  DirectionDebug = "direction_debug"
  DefaultValue <- MCDefault
  Top = 1
  ItemsPerPage = 8
  StackSize = 10
  MaxUnits = 100
INVARIANT TypeOK
INVARIANT RingsClose
INVARIANT PagesOwnTheirUnits
INVARIANT CursorIsOnItsLine
INVARIANT StackIsTheWay
INVARIANT EditsParameters
PROPERTY WalksInATree

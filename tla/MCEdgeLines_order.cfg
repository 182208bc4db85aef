SPECIFICATION Spec
CONSTANTS
  H = 5
  W = 10
  RowKinds <- MCRowKinds
  RefRows = 1
  RefCols = 4
  WhiteMaxMul = 13
  WhiteMinMul = 7
  BlackPoint = 50
  Offset = 2
  Ratio = 20
  SearchRange = 4
  TopRow = 2
  Weight <- MCWeight
  Samples = 2
  FrontRows = 1
  FrontCols = 5
INVARIANT EdgesAreInOrder

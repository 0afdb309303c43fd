SPECIFICATION Spec
CONSTANTS
  NWindows = 2
  IsNum = 1
  IsDen = 2
  MinOosRows = 2
  Lengths <- MCLengths
  Category <- MCCategory
  Measurable <- MCMeasurable
  NaN = NaN
  Top = 3
  Settings <- MCSettings
  FloorTight <- MCTight
  FloorDeep <- MCDeep
  CeilingLow = 2
  CeilingHigh = 4
  TradesMany = 3
  TradesFew = 1
  MinOosSharpe = 1
  RatioNum = 13
  RatioDen = 10
INVARIANTS WindowsPartition EnoughOosReturns TradesAreCharged HitEqualsMiss ScreenAgrees
PROPERTY LooserKeepsAll

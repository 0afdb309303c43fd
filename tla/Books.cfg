SPECIFICATION BooksSpec
CONSTANTS
  Days = 9
  Spots = {3, 5, 8}
  Vols = {0, 1}
  Strikes = {1, 2, 3, 4, 5, 6, 7, 8, 9, 13}
  Dtes = {3}
  Price <- ModelPrice
  Selected <- OneOff
  Width <- HalfSpot
  Commission = 1
  Haircut = 4
  Yield = 4
  DeadFraction = 4
  MaxRows = 6
  MinTrain = 2
  RefitEvery = 2
  NaNRows = 1
  MinSegments = 2
  MaxWindow = 3
  FilterWindow = 2
  Calendars <- MCCalendars
  Stacks <- MCStacks
  Overrides <- MCOverrides
  Unit = 2
  VolWindow = 2
  AtrWindow = 2
  Prices = {1, 2, 3, 4}
  Quotes = {1, 2, 3, 4}
  Distances = {0, 1, 2}
  EntryWindow = 2
  ExitWindow = 1
  ShortEntryWindow = 3
  ShortExitWindow = 2
  StopWindow = 1
  Assets = {1, 2, 3, 4, 5, 6}
  Panels <- MCPanels
  Lookbacks <- MCLookbacks
  RebalanceEvery = 3
  Whole = 2
  Bps <- MCBps
INVARIANTS DefinedRisk EquityIsAccounted RollsOnSchedule
  LabelledByLatestRefit NoLookAhead RoutedByLatestSharedDay
  TradeOwnsItsExtreme DollarNeutral
PROPERTIES StopTightens NeverHeldAgainstBreakout EarnedAndPaid
CHECK_DEADLOCK FALSE

SPECIFICATION StackSpec
CONSTANTS
  MaxRows = 6
  MinTrain = 2
  RefitEvery = 2
  NaNRows = 1
  MinSegments = 2
  MaxWindow = 3
  FilterWindow = 2
  Calendars <- MCCalendars
  Stacks <- MCStacks
  Overrides <- MCOverrides
  Unit = 2
  VolWindow = 2
  AtrWindow = 2
INVARIANT WarmupIsFlat
CHECK_DEADLOCK FALSE

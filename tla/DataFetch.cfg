SPECIFICATION FairSpec
CONSTANTS
  SPY = SPY
  XOM = XOM
  BTC = BTC
  Calls <- Repeated
  PoolSize = 3
  Delisted = {XOM}
  Leftovers = {"absent", "torn", "empty", "whole"}
  Failures = TRUE
INVARIANTS SwitchedOnce EmptyOnlyInFirstWave RaisesFirstInOrder
PROPERTY FetchEnds
CHECK_DEADLOCK FALSE

SPECIFICATION FairSpec
CONSTANTS
  s1 = s1
  s2 = s2
  s3 = s3
  c1 = c1
  c2 = c2
  NoValue = NoValue
  Symbols <- ThreeSymbols
  Configs <- TwoConfigs
  Requested <- SomeRequests
  Cores = 2
PROPERTIES ImplementsContract Returns
CHECK_DEADLOCK FALSE

SPECIFICATION Spec
CONSTANTS
  Procs = {p1, p2}
  Runs = {r1, r2}
  Threads = {t1}
  Stages = 0
  Siblings = TRUE
  Legacy = {r2}
SYMMETRY Symmetric
INVARIANTS RunningIsExecuting Ownership ScanRecovers
PROPERTIES LiveRunNeverCorrected OutcomeIsDurable
CHECK_DEADLOCK FALSE

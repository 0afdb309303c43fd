SPECIFICATION Spec
CONSTANTS
  Procs = {p1, p2}
  Runs = {r1}
  Threads = {t1}
  Stages = 0
  Siblings = FALSE
  Legacy = {}
INVARIANTS CancelNeverRaises
CHECK_DEADLOCK FALSE

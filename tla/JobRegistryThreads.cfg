SPECIFICATION FairSpec
CONSTANTS
  Procs = {p1}
  Runs = {r1, r2}
  Threads = {t1, t2}
  Stages = 1
  Siblings = FALSE
  Legacy = {}
INVARIANT FileMirrorsMemory
PROPERTIES RefinesLifecycle EveryRunEnds
CHECK_DEADLOCK FALSE

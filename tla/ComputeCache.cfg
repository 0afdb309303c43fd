SPECIFICATION Spec
CONSTANTS
  Procs = {p1, p2}
  Keys = {k1, k2, k3}
  KeepMost = 1
INVARIANT EntriesAreDescribed
PROPERTY MissIsKept
SYMMETRY Interchangeable
CHECK_DEADLOCK FALSE

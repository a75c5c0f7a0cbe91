SPECIFICATION Spec
CONSTANTS
  Procs = {p, q}
  MaxReaders = 1
  Null = Null
INVARIANTS
  EndedMeansTerminated
CHECK_DEADLOCK FALSE

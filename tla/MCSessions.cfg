SPECIFICATION Spec
CONSTANTS
  Procs = {p, q}
  MaxReaders = 1
  Null = Null
INVARIANTS
  TypeOK
  OutcomeTold
  NothingKept
  NativeAccounted
PROPERTIES
  WriterGetsIn
CHECK_DEADLOCK FALSE

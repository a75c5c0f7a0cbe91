SPECIFICATION Spec
CONSTANTS
  Envs = {e1, e2}
  Txns = {t1, t2}
  Keys = {k1, k2}
  Null = Null
  MaxForks = 1
  AllocFails = FALSE
  Reentrant = FALSE
SYMMETRY Symmetry
INVARIANTS
  TypeOK
  IInv
  NoUseAfterPanic
  NoForeignUse
  NoUseAfterEnd
  NoCloseUnderTxn
  NoDanglingHandle
  RegistryExact
  OpenRegistryExact
  OnlyBrokenLose
  ReportsUsability
PROPERTIES
  EndsOnce
CHECK_DEADLOCK FALSE

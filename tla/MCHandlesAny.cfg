SPECIFICATION FairSpec
CONSTANTS
  Envs = {e1}
  Txns = {t1, t2}
  Keys = {k1}
  Null = Null
  MaxForks = 1
  AllocFails = TRUE
  Reentrant = TRUE
INVARIANTS
  HandleInv
  NoForeignUse
  OnlyBrokenLose
PROPERTIES
  EndsOnce
  GarbageFreesKey
CHECK_DEADLOCK FALSE

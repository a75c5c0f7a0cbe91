SPECIFICATION Spec
CONSTANTS
  Envs = {e1}
  Txns = {t1}
  Keys = {k1}
  Null = Null
  MaxForks = 1
  AllocFails = FALSE
  Reentrant = FALSE
SYMMETRY Symmetry
INVARIANTS
  FreeKeyReopens
CHECK_DEADLOCK FALSE

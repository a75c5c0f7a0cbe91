SPECIFICATION Spec
CONSTANTS
  Procs = {p, q}
  Nobody = Nobody
  MaxExact = 4
  Width = 11
SYMMETRY Symmetry
INVARIANTS
  IInv
  NeverTwice
  NoOverflow
CHECK_DEADLOCK FALSE

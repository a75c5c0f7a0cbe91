SPECIFICATION Spec
CONSTANTS
  Procs = {p, q}
  MaxCommits = 2
SYMMETRY Symmetric
INVARIANTS
  TypeOK
  PromisesKept
  SetAsAsked
PROPERTIES
  SyncKeeps

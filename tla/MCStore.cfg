SPECIFICATION Spec
CONSTANTS
  Bytes = {a, b}
  Vals = {v}
  Procs = {p}
  MaxDbs = {0, 1, 2}
  Deletes = TRUE
  Null = Null
  Tree = Tree
  Main = Main
SYMMETRY Symmetry
INVARIANTS
  TypeOK
  AnswersByName
  CacheHome
PROPERTIES
  Implements
CHECK_DEADLOCK FALSE

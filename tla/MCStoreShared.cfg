SPECIFICATION Spec
CONSTANTS
  Bytes = {a}
  Vals = {v, w}
  Procs = {p, q, r}
  MaxDbs = {1}
  Deletes = FALSE
  Null = Null
  Tree = Tree
  Main = Main
SYMMETRY Symmetry
INVARIANTS
  AnswersByName
PROPERTIES
  Implements
CHECK_DEADLOCK FALSE

SPECIFICATION Spec
CONSTANTS
  Bytes = {a, b}
  Vals = {v}
  Procs = {p, q}
  MaxDbs = {1}
  Deletes = TRUE
  Null = Null
  Tree = Tree
  Main = Main
SYMMETRY Symmetry
INVARIANTS
  NamesIndependent
CHECK_DEADLOCK FALSE

SPECIFICATION Spec
CONSTANTS
  Thread = {t1, t2}
  Private = {t1}
  Child = {c1, c2}
  Root = Root
  Target <- Single
  Path <- Single
  NoPath = NoPath
  Nowhere = Nowhere
  MaxEvals = 3
  Calls = {}
SYMMETRY Symmetry
INVARIANTS TypeOK RefCovers
PROPERTY NoNewUsers
CHECK_DEADLOCK FALSE

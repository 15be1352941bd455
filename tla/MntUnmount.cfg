SPECIFICATION Spec
CONSTANTS
  Thread = {t1, t2}
  Private = {t1}
  Child = {c1}
  Root = Root
  Target <- Single
  Path <- Single
  NoPath = NoPath
  Nowhere = Nowhere
  MaxEvals = 2
  Calls = {}
INVARIANT DestroyedWhenUnused
CHECK_DEADLOCK FALSE

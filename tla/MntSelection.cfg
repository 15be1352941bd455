SPECIFICATION Spec
CONSTANTS
  Thread = {t1, t2}
  Private = {t1}
  Child = {c1}
  Root = Root
  Target <- Nested
  Path <- Nested
  NoPath = NoPath
  Nowhere = Nowhere
  MaxEvals = 2
  Calls = {"move_inside"}
CONSTRAINT OnlyOpensMoved
INVARIANTS OwnSelection Confined
CHECK_DEADLOCK FALSE

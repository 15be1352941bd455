SPECIFICATION Spec
CONSTANTS
  Thread = {t1, t2, t3}
  Child = {c1, c2}
  Root = Root
  Limit = 3
  NoThread = NoThread
  NoContainer = NoContainer
  MaxNodes = 1
  Calls = {"malloc", "enter"}
SYMMETRY Symmetry
INVARIANTS RcCountsMembers PointersAgree

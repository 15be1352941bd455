SPECIFICATION Spec
CONSTANTS
  Thread = {t1}
  Child = {c1}
  Root = Root
  RootMax = 3
  ChildMax = 3
  GlobalMax = 3
  ApiBit = 4
  MaxId = 3
  NoObject = NoObject
  End = End
  Calls = {}
SYMMETRY Symmetry
INVARIANT SemaphoreReachable

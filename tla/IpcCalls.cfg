SPECIFICATION Spec
CONSTANTS
  Thread = {t1, t2}
  Child = {c1}
  Root = Root
  RootMax = 2
  ChildMax = 1
  GlobalMax = 2
  ApiBit = 4
  MaxId = 5
  NoObject = NoObject
  End = End
  Calls = {}
SYMMETRY Symmetry
INVARIANTS TypeOK Conserved QueueReachable Isolated IdentNotStale

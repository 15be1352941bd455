SPECIFICATION Spec
CONSTANTS
  Thread = {t1, t2}
  Container = {c1, c2}
  Root = Root
  None = None
  FlagSets <- Few
  Share = FALSE
SYMMETRY Symmetry
INVARIANTS TypeOK RcExact OwnerKeepsParts NothingLeaks NamespacesAlive
  PointersAlive EnteredStays
PROPERTY LeftForGood

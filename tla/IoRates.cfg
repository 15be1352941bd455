SPECIFICATION Spec
CONSTANTS
  Group = {g1, g2}
  Thread = {t1, t2}
  Weights = {1, 2}
  Wrap = 4
  Bandwidths = {5, 7}
  Limits = {4}
  Windows = {3}
  Sizes = {3}
  TicksPerSecond = 2
SYMMETRY Symmetry
INVARIANTS TypeOK WeightsAddUp SharesFit ThreadsFit WindowBounded BurstBounded
CONSTRAINT Apart

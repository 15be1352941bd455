SPECIFICATION Spec
CONSTANTS
  Block = {b1, b2, b3}
  MaxSize = 3
  Limits = {2, 5}
  NoBlock = NoBlock
SYMMETRY Symmetry
INVARIANTS TypeOK Conserved

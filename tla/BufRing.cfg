SPECIFICATION Spec
CONSTANTS
  Modulus = 8
  Entries = 4
  Bids = {w, x, y, z}
  w = w
  x = x
  y = y
  z = z
  NoBid = NoBid
  MaxCqes = 2
SYMMETRY BufferSymmetry
INVARIANTS TypeOK BuffersConserved SetupBalanced
PROPERTIES FifoSpec

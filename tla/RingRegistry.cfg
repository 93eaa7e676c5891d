SPECIFICATION Spec
CONSTANTS
  Rings = {r, s}
  r = r
  s = s
  Fds = {0, 1, 2}
  Indexes = {0, 1}
  Groups = {g, h}
  g = g
  h = h
  Contents = {x, y}
  x = x
  y = y
  Empty = Empty
  NoRing = NoRing
  Stranger = Stranger
SYMMETRY RingSymmetry
INVARIANTS TypeOK NumbersOwned CallsReach TablesMeant BufRingWhole

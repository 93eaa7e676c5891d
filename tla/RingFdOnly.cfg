SPECIFICATION Spec
CONSTANTS
  Pages = {p1, p2, p3, p4}
  p1 = p1
  p2 = p2
  p3 = p3
  p4 = p4
  Fds = {0, 1}
  Indexes = {0, 1}
  NoPtr = NoPtr
  AppBuf = AppBuf
  BadPtr = BadPtr
  FdOnly = TRUE
SYMMETRY PageSymmetry
PROPERTIES OthersUntouched

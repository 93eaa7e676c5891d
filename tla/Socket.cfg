SPECIFICATION Spec
CONSTANTS
  Objs = {s1, s2, s3}
  s1 = s1
  s2 = s2
  s3 = s3
  Fds = {0, 1, 2}
SYMMETRY ObjectSymmetry
INVARIANTS TypeOK Ownership
PROPERTIES OthersUntouched

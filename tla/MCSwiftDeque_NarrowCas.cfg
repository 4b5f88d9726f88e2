CONSTANTS
  Frame = {f1, f2, f3, f4, f5}
  Thieves = {p1}
  Owner = owner
  Uninit = uninit
  Size = 2
  CasRange = 4
  MaxIndex = 6
SPECIFICATION Spec
SYMMETRY Symmetry
PROPERTIES TopOnlyIncremented
CHECK_DEADLOCK TRUE

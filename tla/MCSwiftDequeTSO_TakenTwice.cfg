CONSTANTS
  Frame = {f1, f2}
  Thieves = {p1}
  Owner = owner
  Uninit = uninit
  Size = 4
  CasRange = 16
  MaxIndex = 4
  FenceInPop = FALSE
  BufferSize = 2
SPECIFICATION SpecTSO
SYMMETRY Symmetry
INVARIANTS TakenOnce
CHECK_DEADLOCK TRUE

CONSTANTS
  Frame = {f1, f2, f3, f4}
  Thieves = {p1, p2}
  Owner = owner
  Uninit = uninit
  Size = 4
  CasRange = 16
  MaxIndex = 5
  FenceInPop = TRUE
  BufferSize = 3
SPECIFICATION SpecTSO
SYMMETRY Symmetry
INVARIANTS FenceInv TakenOnce NoFrameLost
CHECK_DEADLOCK TRUE

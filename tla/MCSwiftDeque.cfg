CONSTANTS
  Frame = {f1, f2, f3, f4, f5}
  Thieves = {p1, p2}
  Owner = owner
  Uninit = uninit
  Size = 4
  CasRange = 16
  MaxIndex = 7
SPECIFICATION Spec
SYMMETRY Symmetry
INVARIANTS TakenOnce NoFrameLost StolenIsOldest IndInv
PROPERTIES TopOnlyIncremented AbortMeansProgress ImplementsWorkQueue
CHECK_DEADLOCK TRUE

CONSTANTS
  Thread = {p1, p2}
  Null = null
  Requests = {16, 48, 49, 112}
  HeaderSize = 16
  HeapSize = 64
  BucketCount = 5
  WordRange = 128
  MaxHeld = 2
SPECIFICATION Spec
SYMMETRY Symmetry
INVARIANTS InOnePlace
CHECK_DEADLOCK TRUE

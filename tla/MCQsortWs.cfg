CONSTANTS
  MaxSize = 5
  Value <- Values
SPECIFICATION FairSpec
INVARIANTS TypeOK NoRace Separated SortedWhenDone QsortInv
PROPERTIES Sorts
CHECK_DEADLOCK TRUE

CONSTANTS
  ThreadNum = 12
  IdRange = 256
  Second = 1000
  WordRange = 64
  Requested <- Roundable
SPECIFICATION FairSpec
INVARIANTS TypeOK RoundedUp NeverFromItself SweepsAll SleepsSomewhat
PROPERTIES BecomesReady
CHECK_DEADLOCK TRUE

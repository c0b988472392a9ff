\* Three setup requests at once.
SPECIFICATION Spec
CONSTANTS
  t1 = t1
  t2 = t2
  t3 = t3
  n1 = n1
  n2 = n2
  Nobody = Nobody
  Threads <- MCThreeThreads
  Names <- MCNames
  MaxCrashes = 2
INVARIANTS TypeOK CreatorsOwn NeverLockedOut AnsweredHasAdmin
PROPERTIES SetsUpOnce
CHECK_DEADLOCK FALSE

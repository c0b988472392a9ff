\* Two threads; no account is created.
SPECIFICATION Spec
CONSTANTS
  t1 = t1
  t2 = t2
  root = root
  user = user
  k1 = k1
  k2 = k2
  p1 = p1
  p2 = p2
  None = None
  Threads <- MCTwoThreads
  Names <- MCNames
  Admins <- MCAdmins
  Keys <- MCTwoKeys
  Phones <- MCOnePhone
  Operations <- MCSuspension
  Requests <- MCSuspend
  MayFail = TRUE
  OtherNamed = TRUE
  MaxUuid = 2
  MaxAuthId = 2
INVARIANTS TypeOK NoLateLogin SuspensionEndsSessions
PROPERTIES SuspensionLostOnlyToOlderCopy
SYMMETRY MCSymmetry
CHECK_DEADLOCK FALSE

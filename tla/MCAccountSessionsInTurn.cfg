\* Every operation, one request at a time, nothing fails; two phones.
SPECIFICATION Spec
CONSTANTS
  t1 = t1
  t2 = t2
  root = root
  user = user
  k1 = k1
  k2 = k2
  p1 = p1
  p2 = p2
  None = None
  Threads <- MCOneThread
  Names <- MCNames
  Admins <- MCAdmins
  Keys <- MCOneKey
  Phones <- MCTwoPhones
  Operations <- MCAll
  Requests <- MCInTurn
  MayFail = FALSE
  OtherNamed = FALSE
  MaxUuid = 3
  MaxAuthId = 3
INVARIANTS TwoFactorRegistered
CHECK_DEADLOCK FALSE

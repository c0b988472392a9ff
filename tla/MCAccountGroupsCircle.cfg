\* Two updates that each make one group a member of the other.
SPECIFICATION Spec
CONSTANTS
  t1 = t1
  t2 = t2
  users = users
  g1 = g1
  g2 = g2
  root = root
  u1 = u1
  None = None
  Default = users
  Caller = root
  Threads <- MCTwoThreads
  Groups <- MCTwoGroups
  Accounts <- MCAdmin
  NewMirrors <- MCNewMirrors
  AddMirrors <- MCNoMirror
  MaxList = 2
INVARIANTS NoCircularMembership
